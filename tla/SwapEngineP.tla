---------------------------- MODULE SwapEngineP ----------------------------
(***************************************************************************)
(* The Path-P swap engine in page-recall mode (swap_engine_p.py).          *)
(*                                                                         *)
(* The KV history of every request lives in a CPU mirror.  Attention on    *)
(* the GPU reads a much smaller reserve through chunk_cell_lut: a chunk    *)
(* whose entry is NoCell is not resident and is masked, any other entry is *)
(* the reserve cell attention reads.  Whole pages are recalled from the    *)
(* mirror into aligned blocks of the reserve; chunks produced while        *)
(* decoding go to a decode region at the tail of the reserve and are never *)
(* in the mirror.                                                          *)
(*                                                                         *)
(* A chunk loc page*64+off is the pair <<page, off>>, a cell block*64+off  *)
(* the triple <<"recall", block, off>>, a decode cell                      *)
(* decode_base + slot*chunks + local the triple <<"decode", slot, local>>. *)
(* All c4 layers share one allocation, so one lut and one reserve stand    *)
(* for the 21 of the code.  KV bytes are <<writer, chunk>>: who produced   *)
(* them and for which chunk loc.                                           *)
(*                                                                         *)
(* A recall runs on the side-band thread: its allocation pass, its copy    *)
(* and its lut scatter are separate steps, because the scheduler thread    *)
(* and the decode graph run between them.                                  *)
(***************************************************************************)
EXTENDS Integers, FiniteSets

CONSTANTS Pages,         \* physical c4 pages (rows of the mirror)
          PS,            \* chunks per page (C4_PAGE_SIZE)
          MaxBlocks,     \* recall_cell_capacity \div C4_PAGE_SIZE
          PoolIdx,       \* req_pool_idx values
          MaxConc,       \* SGLANG_PATHP_DECODE_MAX_CONC
          DecodeChunks,  \* SGLANG_PATHP_DECODE_RESIDENT_CHUNKS
          MaxChunks,     \* bound: c4 chunks of one request
          Reqs,          \* requests, as the producers of KV bytes
          PhysPage,      \* the number of each page, read by the legacy local index only
          LutTruth,      \* gate SGLANG_PATHP_LUT_TRUTH
          OwnerRelease,  \* gate SGLANG_PATHP_OWNER_RELEASE
          LocalFix,      \* gate SGLANG_PATHP_LOCALFIX
          Zero,          \* writer of mirror rows no request has filled
          Blank          \* content of a reserve cell nobody has written

ASSUME SizesAssumption ==
  /\ PS \in Nat \ {0}
  /\ MaxBlocks \in Nat
  /\ MaxConc \in Nat \ {0}
  /\ DecodeChunks \in Nat
  /\ MaxChunks \in Nat
  /\ PhysPage \in [Pages -> Nat]

ASSUME GatesAssumption ==
  /\ LutTruth \in BOOLEAN
  /\ OwnerRelease \in BOOLEAN
  /\ LocalFix \in BOOLEAN

VARIABLES
  mirror,        \* host_mirror: the bytes of every chunk
  lut,           \* chunk_cell_lut
  reserve,       \* reserve_buf
  p2b,           \* _g_page_to_block
  before,        \* the order of that OrderedDict: p precedes q
  nextBlock,     \* _g_next_block
  freeBlocks,    \* _g_free_blocks
  owned,         \* _req_owned_pages
  rpc,           \* where the recall call is
  sel,           \* its pages_t
  todo,          \* todo_pages not yet visited
  newBlk,        \* new_pages -> new_blocks
  keep,          \* the chunks left by the decode-chunk guard
  prefillChunks, \* _prefill_chunks_t
  decodeSlot,    \* _decode_slot_t
  nextSlot       \* _next_decode_slot

recallVars == <<rpc, sel, todo, newBlk, keep>>
allocVars == <<p2b, before, nextBlock, freeBlocks>>
decodeVars == <<prefillChunks, decodeSlot, nextSlot>>
engineVars ==
  <<mirror, lut, reserve, p2b, before, nextBlock, freeBlocks, owned,
    rpc, sel, todo, newBlk, keep, prefillChunks, decodeSlot, nextSlot>>

-----------------------------------------------------------------------------
Offs == 0 .. PS - 1
Blocks == 0 .. MaxBlocks - 1
Slots == 0 .. MaxConc - 1
Locals == 0 .. DecodeChunks - 1
Chunks == Pages \X Offs
Writers == Reqs \cup {Zero}
Bytes == Writers \X Chunks

NoBlock == -1
NoCell == <<"none", 0, 0>>
RecallCells == {"recall"} \X Blocks \X Offs
DecodeCells == {"decode"} \X Slots \X Locals
Cells == RecallCells \cup DecodeCells

IsDecodeCell(k) == k[1] = "decode"
IsRecallCell(k) == k[1] = "recall"

\* The pages that hold a block.
Mapped == {p \in Pages : p2b[p] # NoBlock}

\* The OrderedDict order after a key moves to (or is inserted at) the end,
\* and after keys are popped.
MoveToEnd(p) == {e \in before : p \notin {e[1], e[2]}} \cup ((Mapped \ {p}) \X {p})
Popped(P) == {e \in before : e[1] \notin P /\ e[2] \notin P}

\* lut with every column of the pages P cleared.
LutWithout(P) == [c \in Chunks |-> IF c[1] \in P THEN NoCell ELSE lut[c]]

-----------------------------------------------------------------------------
EngineInit ==
  /\ mirror = [c \in Chunks |-> <<Zero, c>>]
  /\ lut = [c \in Chunks |-> NoCell]
  /\ reserve = [k \in Cells |-> Blank]
  /\ p2b = [p \in Pages |-> NoBlock]
  /\ before = {}
  /\ nextBlock = 0
  /\ freeBlocks = {}
  /\ owned = [i \in PoolIdx |-> {}]
  /\ rpc = "idle"
  /\ sel = {}
  /\ todo = {}
  /\ newBlk = [p \in Pages |-> NoBlock]
  /\ keep = {}
  /\ prefillChunks = [i \in PoolIdx |-> -1]
  /\ decodeSlot = [i \in PoolIdx |-> -1]
  /\ nextSlot = 0

-----------------------------------------------------------------------------
(* Admission of a transferred request.                                     *)

\* The prefill server's NIXL WRITE lands rows of pages P in the mirror
\* (mirror_buf_info): the chunks D carry request r's KV, the rest is zero.
NixlWrite(r, P, D) ==
  mirror' = [c \in Chunks |-> IF c \in D THEN <<r, c>>
                              ELSE IF c[1] \in P THEN <<Zero, c>> ELSE mirror[c]]

\* discard_copied_pages: the lut of the pages is cleared, their blocks stay mapped.
DiscardCopiedPages(P) == lut' = LutWithout(P)

\* register_decode_req: a pool index gets its slot once, round robin.
RegisterDecodeReq(i, pc) ==
  /\ prefillChunks' = [prefillChunks EXCEPT ![i] = pc]
  /\ IF decodeSlot[i] < 0
     THEN /\ decodeSlot' = [decodeSlot EXCEPT ![i] = nextSlot % MaxConc]
          /\ nextSlot' = nextSlot + 1
     ELSE UNCHANGED <<decodeSlot, nextSlot>>

-----------------------------------------------------------------------------
(* A recall: _recall_global_pages, one step per point at which the         *)
(* scheduler thread or the decode graph may run.                           *)

\* The call returns: its locals are gone.
RecallReturns ==
  /\ rpc' = "idle"
  /\ sel' = {}
  /\ todo' = {}
  /\ newBlk' = [p \in Pages |-> NoBlock]
  /\ keep' = {}

\* The miss set: selected pages whose chunk 0 is not resident.
RecallMiss(S) ==
  /\ rpc = "idle"
  /\ LET miss == {p \in S : lut[<<p, 0>>] = NoCell}
     IN IF miss = {}
        THEN UNCHANGED recallVars
        ELSE /\ rpc' = "alloc"
             /\ sel' = S
             /\ todo' = miss
             /\ UNCHANGED <<newBlk, keep>>

\* One turn of the allocation loop gives page p the block b.
Assign(p, b) ==
  /\ newBlk' = [newBlk EXCEPT ![p] = b]
  /\ todo' = todo \ {p}
  /\ UNCHANGED <<rpc, sel, keep>>

\* The page still has a block although its lut is clear.
AllocMapped(p) ==
  /\ p2b[p] # NoBlock
  /\ before' = MoveToEnd(p)
  /\ IF LutTruth
     THEN Assign(p, p2b[p])
     ELSE todo' = todo \ {p} /\ UNCHANGED <<rpc, sel, newBlk, keep>>
  /\ UNCHANGED <<lut, p2b, nextBlock, freeBlocks>>

\* The list is a stack filled in the iteration order of a Python set: any block.
AllocFree(p) ==
  /\ p2b[p] = NoBlock
  /\ \E b \in freeBlocks :
       /\ freeBlocks' = freeBlocks \ {b}
       /\ p2b' = [p2b EXCEPT ![p] = b]
       /\ Assign(p, b)
  /\ before' = MoveToEnd(p)
  /\ UNCHANGED <<lut, nextBlock>>

\* Mutant of AllocNext: one block past the recall region.
AllocNextPastEnd(p) ==
  /\ p2b[p] = NoBlock
  /\ freeBlocks = {}
  /\ nextBlock <= MaxBlocks
  /\ nextBlock' = nextBlock + 1
  /\ p2b' = [p2b EXCEPT ![p] = nextBlock]
  /\ Assign(p, nextBlock)
  /\ before' = MoveToEnd(p)
  /\ UNCHANGED <<lut, freeBlocks>>

AllocNext(p) ==
  /\ p2b[p] = NoBlock
  /\ freeBlocks = {}
  /\ nextBlock < MaxBlocks
  /\ nextBlock' = nextBlock + 1
  /\ p2b' = [p2b EXCEPT ![p] = nextBlock]
  /\ Assign(p, nextBlock)
  /\ before' = MoveToEnd(p)
  /\ UNCHANGED <<lut, freeBlocks>>

\* Mutant of Evictable: protected_pages is ignored.
EvictableAny == Mapped

\* _evict_one_page: the oldest mapped page outside the current selection.
Evictable == Mapped \ sel
Oldest(v) == v \in Evictable /\ \A u \in Evictable \ {v} : <<v, u>> \in before

\* Mutant of AllocEvict: the victim's lut columns are not cleared.
AllocEvictKeepsLut(p) ==
  /\ p2b[p] = NoBlock
  /\ freeBlocks = {}
  /\ nextBlock >= MaxBlocks
  /\ \E v \in Mapped :
       /\ Oldest(v)
       /\ p2b' = [p2b EXCEPT ![v] = NoBlock, ![p] = p2b[v]]
       /\ before' = Popped({v}) \cup ((Mapped \ {v}) \X {p})
       /\ Assign(p, p2b[v])
  /\ UNCHANGED <<lut, nextBlock, freeBlocks>>

AllocEvict(p) ==
  /\ p2b[p] = NoBlock
  /\ freeBlocks = {}
  /\ nextBlock >= MaxBlocks
  /\ \E v \in Mapped :
       /\ Oldest(v)
       /\ p2b' = [p2b EXCEPT ![v] = NoBlock, ![p] = p2b[v]]
       /\ lut' = LutWithout({v})
       /\ before' = Popped({v}) \cup ((Mapped \ {v}) \X {p})
       /\ Assign(p, p2b[v])
  /\ UNCHANGED <<nextBlock, freeBlocks>>

\* No victim: reading the attribute _g_full, which nothing has set, raises.
\* The mappings made so far stay; nothing is copied and no lut is written.
AllocFail(p) ==
  /\ p2b[p] = NoBlock
  /\ freeBlocks = {}
  /\ nextBlock >= MaxBlocks
  /\ Evictable = {}
  /\ rpc' = "failed"
  /\ UNCHANGED <<lut, p2b, before, nextBlock, freeBlocks, sel, todo, newBlk, keep>>

\* todo_pages is sorted by page number; page numbers mean nothing, so any order.
RecallAlloc ==
  /\ rpc = "alloc"
  /\ \E p \in todo :
       AllocMapped(p) \/ AllocFree(p) \/ AllocNext(p) \/ AllocEvict(p) \/ AllocFail(p)

\* Mutants of RecallGuard: no decode-chunk guard; lut before bytes.
RecallGuardNone ==
  /\ rpc = "alloc"
  /\ todo = {}
  /\ LET mine == {c \in Chunks : newBlk[c[1]] # NoBlock}
     IN IF mine = {}
        THEN RecallReturns
        ELSE rpc' = "copy" /\ keep' = mine /\ UNCHANGED <<sel, todo, newBlk>>

RecallGuardNoCopy ==
  /\ rpc = "alloc"
  /\ todo = {}
  /\ LET mine == {c \in Chunks : newBlk[c[1]] # NoBlock /\ ~IsDecodeCell(lut[c])}
     IN IF mine = {}
        THEN RecallReturns
        ELSE rpc' = "scatter" /\ keep' = mine /\ UNCHANGED <<sel, todo, newBlk>>

\* The decode-chunk guard: chunks that already live in the decode region are
\* left out of the copy and of the lut scatter.
RecallGuard ==
  /\ rpc = "alloc"
  /\ todo = {}
  /\ LET mine == {c \in Chunks : newBlk[c[1]] # NoBlock /\ ~IsDecodeCell(lut[c])}
     IN IF mine = {}
        THEN RecallReturns
        ELSE rpc' = "copy" /\ keep' = mine /\ UNCHANGED <<sel, todo, newBlk>>

\* _copy_chunks_all_layers: mirror rows to the cells of the new blocks.
RecallCopy ==
  /\ rpc = "copy"
  /\ reserve' = [k \in Cells |->
       IF \E c \in keep : k = <<"recall", newBlk[c[1]], c[2]>>
       THEN mirror[CHOOSE c \in keep : k = <<"recall", newBlk[c[1]], c[2]>>]
       ELSE reserve[k]]
  /\ rpc' = "scatter"
  /\ UNCHANGED <<sel, todo, newBlk, keep>>

\* chunk_cell_lut[:, chunks] = cells, after the bytes are in place.
RecallScatter ==
  /\ rpc = "scatter"
  /\ lut' = [c \in Chunks |->
               IF c \in keep THEN <<"recall", newBlk[c[1]], c[2]>> ELSE lut[c]]
  /\ RecallReturns

\* The caller of a recall that raised goes on.
RecallRaised == rpc = "failed" /\ RecallReturns

-----------------------------------------------------------------------------
(* Release.                                                                *)

\* Mutant of Unmap: the block goes to the free list and stays mapped.
UnmapKeepsMap(P) ==
  /\ before' = Popped(P)
  /\ freeBlocks' = freeBlocks \cup {p2b[p] : p \in P \cap Mapped}
  /\ UNCHANGED <<p2b, nextBlock>>

Unmap(P) ==
  /\ p2b' = [p \in Pages |-> IF p \in P THEN NoBlock ELSE p2b[p]]
  /\ before' = Popped(P)
  /\ freeBlocks' = freeBlocks \cup {p2b[p] : p \in P \cap Mapped}
  /\ UNCHANGED nextBlock

\* release_req_pool_locs: only the pages that hold a block are released.
ReleaseReqPoolLocs(P) ==
  /\ Unmap(P \cap Mapped)
  /\ lut' = LutWithout(P \cap Mapped)

\* record_owned_pages: the union over the request's cycles.
RecordOwnedPages(own) ==
  owned' = [i \in PoolIdx |-> IF OwnerRelease THEN owned[i] \cup own[i] ELSE owned[i]]

\* release_owned_pages for the pool indices V: the lut of every owned page is
\* cleared, whether or not the page still holds a block.
ReleaseOwnedPages(V) ==
  LET P == UNION {owned[i] : i \in V}
  IN /\ Unmap(P)
     /\ lut' = LutWithout(P)
     /\ owned' = [i \in PoolIdx |-> IF i \in V THEN {} ELSE owned[i]]

-----------------------------------------------------------------------------
(* store_decode_to_reserve, one row of the batch: the pool index, the      *)
(* chunk loc formed, the request, and n = seq_len \div 4.  A row that is    *)
(* not valid goes to the sink cell and the sentinel column: nothing reads  *)
(* them.  Rows of one launch may share a cell; they store in any order.    *)

LocalOf(w) ==
  IF LocalFix THEN w.n - 1 - prefillChunks[w.idx]
  ELSE PhysPage[w.chunk[1]] * PS + w.chunk[2] - prefillChunks[w.idx]

ValidRow(w) ==
  /\ prefillChunks[w.idx] >= 0
  /\ decodeSlot[w.idx] >= 0
  /\ LocalOf(w) \in Locals

DecodeCellOf(w) == <<"decode", decodeSlot[w.idx], LocalOf(w)>>

StoreDecodeToReserve(w) ==
  IF ValidRow(w)
  THEN /\ reserve' = [reserve EXCEPT ![DecodeCellOf(w)] = <<w.req, w.chunk>>]
       /\ lut' = [lut EXCEPT ![w.chunk] = DecodeCellOf(w)]
  ELSE UNCHANGED <<reserve, lut>>

-----------------------------------------------------------------------------
(* The engine under any caller that keeps the threading discipline of the  *)
(* capturer: one recall at a time, and no release while one is in flight.  *)
(* Transfers, admissions and decode stores may fall anywhere.              *)

Land(r, P, D) ==
  /\ NixlWrite(r, P, D)
  /\ UNCHANGED <<lut, reserve, owned, allocVars, recallVars, decodeVars>>

\* The Path-P hook of _commit_transfer_to_req.
Admit(i, P, pc) ==
  /\ DiscardCopiedPages(P)
  /\ RegisterDecodeReq(i, pc)
  /\ UNCHANGED <<mirror, reserve, owned, allocVars, recallVars>>

\* The side-band records the owners of the pages S, then recalls them.
Start(own, S) ==
  /\ RecordOwnedPages(own)
  /\ RecallMiss(S)
  /\ UNCHANGED <<mirror, lut, reserve, allocVars, decodeVars>>

Alloc ==
  /\ RecallAlloc
  /\ UNCHANGED <<mirror, reserve, owned, decodeVars>>

Guard ==
  /\ RecallGuard
  /\ UNCHANGED <<mirror, lut, reserve, owned, allocVars, decodeVars>>

Copy ==
  /\ RecallCopy
  /\ UNCHANGED <<mirror, lut, owned, allocVars, decodeVars>>

Scatter ==
  /\ RecallScatter
  /\ UNCHANGED <<mirror, reserve, owned, allocVars, decodeVars>>

Raised ==
  /\ RecallRaised
  /\ UNCHANGED <<mirror, lut, reserve, owned, allocVars, decodeVars>>

Release(P) ==
  /\ ReleaseReqPoolLocs(P)
  /\ UNCHANGED <<mirror, reserve, owned, recallVars, decodeVars>>

ReleaseOwned(V) ==
  /\ ReleaseOwnedPages(V)
  /\ UNCHANGED <<mirror, reserve, recallVars, decodeVars>>

Store(w) ==
  /\ StoreDecodeToReserve(w)
  /\ UNCHANGED <<mirror, owned, allocVars, recallVars, decodeVars>>

StoreRows == [idx : PoolIdx, chunk : Chunks, req : Reqs, n : 1 .. MaxChunks]

EngineNext ==
  \/ \E r \in Reqs, P \in SUBSET Pages : \E D \in SUBSET (P \X Offs) : Land(r, P, D)
  \/ \E i \in PoolIdx, P \in SUBSET Pages, pc \in 0 .. MaxChunks : Admit(i, P, pc)
  \/ \E own \in [PoolIdx -> SUBSET Pages] : Start(own, UNION {own[i] : i \in PoolIdx})
  \/ Alloc
  \/ Guard
  \/ Copy
  \/ Scatter
  \/ Raised
  \/ rpc = "idle" /\ \E P \in SUBSET Pages : Release(P)
  \/ rpc = "idle" /\ \E V \in SUBSET PoolIdx : ReleaseOwned(V)
  \/ \E w \in StoreRows : Store(w)

EngineSpec == EngineInit /\ [][EngineNext]_engineVars

-----------------------------------------------------------------------------
(* Properties.                                                             *)

\* Every variable of the engine has its type.
EngineTypeOK ==
  /\ mirror \in [Chunks -> Bytes]
  /\ lut \in [Chunks -> Cells \cup {NoCell}]
  /\ reserve \in [Cells -> Bytes \cup {Blank}]
  /\ p2b \in [Pages -> Blocks \cup {NoBlock}]
  /\ before \in SUBSET (Pages \X Pages)
  /\ nextBlock \in 0 .. MaxBlocks
  /\ freeBlocks \in SUBSET Blocks
  /\ owned \in [PoolIdx -> SUBSET Pages]
  /\ rpc \in {"idle", "alloc", "copy", "scatter", "failed"}
  /\ sel \in SUBSET Pages
  /\ todo \in SUBSET Pages
  /\ newBlk \in [Pages -> Blocks \cup {NoBlock}]
  /\ keep \in SUBSET Chunks
  /\ prefillChunks \in [PoolIdx -> Int]
  /\ decodeSlot \in [PoolIdx -> Slots \cup {-1}]
  /\ nextSlot \in Nat

\* The blocks below the high-water mark are exactly the free ones and the
\* mapped ones, each held once: eviction, release by rows, release by owner
\* and a recall that raises half-way neither leak a block nor hand it out twice.
BlockAccounting ==
  /\ \A p, q \in Mapped : p # q => p2b[p] # p2b[q]
  /\ \A p \in Mapped : p2b[p] \notin freeBlocks
  /\ 0 .. nextBlock - 1 = freeBlocks \cup {p2b[p] : p \in Mapped}

\* A resident chunk is in the block its own page holds, at its own offset, so
\* no two chunks are ever read from one recall cell.
ResidentInOwnBlock ==
  \A c \in Chunks : IsRecallCell(lut[c]) => lut[c] = <<"recall", p2b[c[1]], c[2]>>

\* Bytes before lut: a chunk that is resident in the recall region reads bytes
\* copied from its own mirror row, never a cell still holding another chunk.
ResidentBytesAreItsOwn ==
  \A c \in Chunks : IsRecallCell(lut[c]) => reserve[lut[c]] \in Writers \X {c}

\* The OrderedDict order is a strict total order of the mapped pages, so the
\* eviction scan always has one well defined oldest page.
LruOrderTotal ==
  /\ before \subseteq Mapped \X Mapped
  /\ \A p, q \in Mapped : p # q => (<<p, q>> \in before <=> <<q, p>> \notin before)
  /\ \A p \in Mapped : <<p, p>> \notin before

\* While a recall allocates, a page of its selection that has a block keeps it:
\* making room for one selected page never takes the block of another.
SelectionKeepsItsBlocks ==
  [][(rpc = "alloc" /\ rpc' = "alloc") =>
       \A p \in sel : p2b[p] # NoBlock => p2b'[p] = p2b[p]]_engineVars

=============================================================================
