------------------------- MODULE SwapEnginePProofs -------------------------
(***************************************************************************)
(* Proofs about the swap engine for any number of pages, blocks, slots and *)
(* requests, under any caller that keeps the capturer's discipline.        *)
(***************************************************************************)
EXTENDS SwapEngineP, TLAPS

-----------------------------------------------------------------------------
(* Chunks and cells.                                                       *)

\* A chunk loc is its page and its offset (loc = page*64 + off).
LEMMA ChunkParts ==
  ASSUME NEW c \in Chunks
  PROVE  c[1] \in Pages /\ c[2] \in Offs /\ c = <<c[1], c[2]>>
BY DEF Chunks

\* A cell of the recall region is its block and its offset (cell = block*64 + off).
LEMMA RecallCellParts ==
  ASSUME NEW k \in Cells \cup {NoCell}, IsRecallCell(k)
  PROVE  /\ k \in RecallCells
         /\ k[2] \in Blocks
         /\ k[3] \in Offs
         /\ k = <<"recall", k[2], k[3]>>
BY DEF Cells, NoCell, IsRecallCell, RecallCells, DecodeCells

\* The aligned cell of a chunk in a block is a cell of the recall region.
LEMMA RecallCellOf ==
  ASSUME NEW b \in Blocks, NEW o \in Offs
  PROVE  /\ <<"recall", b, o>> \in RecallCells
         /\ <<"recall", b, o>> \in Cells
         /\ IsRecallCell(<<"recall", b, o>>)
BY Zenon DEF Cells, IsRecallCell, RecallCells

\* A decode cell and the miss entry are not cells of the recall region.
LEMMA OtherCells ==
  /\ ~IsRecallCell(NoCell)
  /\ \A k \in DecodeCells : ~IsRecallCell(k) /\ k \in Cells
BY Zenon DEF NoCell, IsRecallCell, DecodeCells, Cells

\* NoBlock is not a block.
LEMMA NoBlockIsNone == NoBlock \notin Blocks
BY SizesAssumption DEF NoBlock, Blocks

-----------------------------------------------------------------------------
(* Type correctness.                                                       *)

\* The initial state is well typed (the tensors as __init__ leaves them).
LEMMA TypeInit == EngineInit => EngineTypeOK
<1> SUFFICES ASSUME EngineInit PROVE EngineTypeOK
  OBVIOUS
<1>1. mirror \in [Chunks -> Bytes]
  BY Zenon DEF EngineInit, Bytes, Writers
<1>2. nextBlock \in 0 .. MaxBlocks /\ nextSlot \in Nat
  BY SizesAssumption DEF EngineInit
<1>3. QED
  BY <1>1, <1>2 DEF EngineInit, EngineTypeOK, Cells

\* A transfer that lands in the mirror keeps the types.
LEMMA TypeLand ==
  ASSUME EngineTypeOK, NEW r \in Reqs, NEW P \in SUBSET Pages, NEW D \in SUBSET Chunks, Land(r, P, D)
  PROVE  EngineTypeOK'
<1>1. mirror' \in [Chunks -> Bytes]
  BY Zenon DEF Land, NixlWrite, EngineTypeOK, Bytes, Writers
<1>2. QED
  BY <1>1, Zenon DEF Land, EngineTypeOK, allocVars, recallVars, decodeVars

\* Clearing lut columns keeps lut well typed.
LEMMA TypeLutWithout ==
  ASSUME EngineTypeOK, NEW P
  PROVE  LutWithout(P) \in [Chunks -> Cells \cup {NoCell}]
BY Zenon DEF EngineTypeOK, LutWithout

\* discard_copied_pages and register_decode_req keep the types; the slot of a
\* pool index is in range because it is taken modulo MaxConc.
LEMMA TypeAdmit ==
  ASSUME EngineTypeOK, NEW i \in PoolIdx, NEW P \in SUBSET Pages, NEW pc \in 0 .. MaxChunks, Admit(i, P, pc)
  PROVE  EngineTypeOK'
<1>1. lut' \in [Chunks -> Cells \cup {NoCell}]
  BY TypeLutWithout, Zenon DEF Admit, DiscardCopiedPages
<1>2. prefillChunks' \in [PoolIdx -> Int]
  BY SizesAssumption DEF EngineTypeOK, Admit, RegisterDecodeReq
<1>3. nextSlot % MaxConc \in Slots
  BY SizesAssumption DEF EngineTypeOK, Slots
<1>4. decodeSlot' \in [PoolIdx -> Slots \cup {-1}] /\ nextSlot' \in Nat
  BY <1>3 DEF EngineTypeOK, Admit, RegisterDecodeReq
<1>5. QED
  BY <1>1, <1>2, <1>4, Zenon DEF Admit, EngineTypeOK, allocVars, recallVars

\* record_owned_pages and the miss test of a recall keep the types.
LEMMA TypeStart ==
  ASSUME EngineTypeOK, NEW own \in [PoolIdx -> SUBSET Pages], NEW S \in SUBSET Pages, Start(own, S)
  PROVE  EngineTypeOK'
<1>1. owned' \in [PoolIdx -> SUBSET Pages]
  BY Zenon DEF EngineTypeOK, Start, RecordOwnedPages
<1>2. /\ rpc' \in {"idle", "alloc", "copy", "scatter", "failed"}
      /\ sel' \in SUBSET Pages
      /\ todo' \in SUBSET Pages
      /\ newBlk' = newBlk
      /\ keep' = keep
  BY Zenon DEF EngineTypeOK, Start, RecallMiss, recallVars
<1>3. QED
  BY <1>1, <1>2, Zenon DEF Start, EngineTypeOK, allocVars, decodeVars

\* What one turn of the allocation loop does to the typed variables.
LEMMA TypeAllocTurn ==
  ASSUME EngineTypeOK, NEW p \in todo,
         AllocMapped(p) \/ AllocFree(p) \/ AllocNext(p) \/ AllocEvict(p) \/ AllocFail(p)
  PROVE  /\ lut' \in [Chunks -> Cells \cup {NoCell}]
         /\ p2b' \in [Pages -> Blocks \cup {NoBlock}]
         /\ before' \in SUBSET (Pages \X Pages)
         /\ nextBlock' \in 0 .. MaxBlocks
         /\ freeBlocks' \in SUBSET Blocks
         /\ rpc' \in {rpc, "failed"}
         /\ sel' = sel
         /\ todo' \in SUBSET Pages
         /\ newBlk' \in [Pages -> Blocks \cup {NoBlock}]
         /\ keep' = keep
<1>0. p \in Pages /\ Mapped \subseteq Pages
  BY Zenon DEF EngineTypeOK, Mapped
<1>1. MoveToEnd(p) \in SUBSET (Pages \X Pages)
  BY <1>0, Zenon DEF EngineTypeOK, MoveToEnd
<1>2. CASE AllocMapped(p)
  BY <1>0, <1>1, <1>2, Zenon DEF EngineTypeOK, AllocMapped, Assign
<1>3. CASE AllocFree(p)
  BY <1>0, <1>1, <1>3 DEF EngineTypeOK, AllocFree, Assign
<1>4. CASE AllocNext(p)
  <2>1. nextBlock \in Blocks /\ nextBlock + 1 \in 0 .. MaxBlocks
    BY <1>4, SizesAssumption DEF EngineTypeOK, AllocNext, Blocks
  <2>2. QED
    BY <1>0, <1>1, <1>4, <2>1, Zenon DEF EngineTypeOK, AllocNext, Assign
<1>5. CASE AllocEvict(p)
  <2>1. PICK v \in Mapped :
          /\ p2b' = [p2b EXCEPT ![v] = NoBlock, ![p] = p2b[v]]
          /\ lut' = LutWithout({v})
          /\ before' = Popped({v}) \cup ((Mapped \ {v}) \X {p})
          /\ Assign(p, p2b[v])
    BY <1>5, Zenon DEF AllocEvict
  <2>2. v \in Pages /\ p2b[v] \in Blocks
    BY <1>0, Zenon DEF Mapped, EngineTypeOK
  <2>3. before' \in SUBSET (Pages \X Pages)
    BY <1>0, <2>1, Zenon DEF EngineTypeOK, Popped
  <2>4. lut' \in [Chunks -> Cells \cup {NoCell}]
    BY <2>1, TypeLutWithout, Zenon
  <2>5. QED
    BY <1>0, <1>5, <2>1, <2>2, <2>3, <2>4, Zenon DEF EngineTypeOK, AllocEvict, Assign
<1>6. CASE AllocFail(p)
  BY <1>6, Zenon DEF EngineTypeOK, AllocFail
<1>7. QED
  BY <1>2, <1>3, <1>4, <1>5, <1>6, Zenon

\* The allocation loop of a recall keeps the types.
LEMMA TypeAlloc ==
  ASSUME EngineTypeOK, Alloc
  PROVE  EngineTypeOK'
<1>1. PICK p \in todo :
        AllocMapped(p) \/ AllocFree(p) \/ AllocNext(p) \/ AllocEvict(p) \/ AllocFail(p)
  BY Zenon DEF Alloc, RecallAlloc
<1>2. QED
  BY <1>1, TypeAllocTurn, Zenon DEF Alloc, EngineTypeOK, decodeVars

\* A recall that returns leaves its locals well typed.
LEMMA TypeReturns ==
  ASSUME RecallReturns
  PROVE  /\ rpc' \in {"idle", "alloc", "copy", "scatter", "failed"}
         /\ sel' \in SUBSET Pages
         /\ todo' \in SUBSET Pages
         /\ newBlk' \in [Pages -> Blocks \cup {NoBlock}]
         /\ keep' \in SUBSET Chunks
BY Zenon DEF RecallReturns

\* The decode-chunk guard keeps the types.
LEMMA TypeGuard ==
  ASSUME EngineTypeOK, Guard
  PROVE  EngineTypeOK'
<1>1. /\ rpc' \in {"idle", "alloc", "copy", "scatter", "failed"}
      /\ sel' \in SUBSET Pages
      /\ todo' \in SUBSET Pages
      /\ newBlk' \in [Pages -> Blocks \cup {NoBlock}]
      /\ keep' \in SUBSET Chunks
  BY TypeReturns, Zenon DEF Guard, RecallGuard, EngineTypeOK
<1>2. QED
  BY <1>1, Zenon DEF Guard, EngineTypeOK, allocVars, decodeVars

\* The bytes a copy leaves in a cell: a mirror row of the recall, or what was there.
LEMMA CopiedBytes ==
  ASSUME EngineTypeOK, Copy, NEW k \in Cells
  PROVE  \/ reserve'[k] = reserve[k]
         \/ \E c \in keep : k = <<"recall", newBlk[c[1]], c[2]>> /\ reserve'[k] = mirror[c]
<1>1. CASE \E c \in keep : k = <<"recall", newBlk[c[1]], c[2]>>
  <2> DEFINE d == CHOOSE c \in keep : k = <<"recall", newBlk[c[1]], c[2]>>
  <2>1. d \in keep /\ k = <<"recall", newBlk[d[1]], d[2]>>
    BY <1>1, Zenon
  <2>2. reserve'[k] = mirror[d]
    BY <1>1, Zenon DEF Copy, RecallCopy
  <2> QED
    BY <2>1, <2>2, Zenon
<1>2. CASE ~ \E c \in keep : k = <<"recall", newBlk[c[1]], c[2]>>
  BY <1>2, Zenon DEF Copy, RecallCopy
<1>3. QED
  BY <1>1, <1>2, Zenon

\* The copy from the mirror keeps the types.
LEMMA TypeCopy ==
  ASSUME EngineTypeOK, Copy
  PROVE  EngineTypeOK'
<1>1. \A k \in Cells : reserve'[k] \in Bytes \cup {Blank}
  BY CopiedBytes, Zenon DEF EngineTypeOK
<1>2. reserve' \in [Cells -> Bytes \cup {Blank}]
  BY <1>1, Zenon DEF Copy, RecallCopy
<1>3. QED
  BY <1>2, Zenon DEF Copy, RecallCopy, EngineTypeOK, allocVars, decodeVars

\* The lut scatter keeps the types: a kept chunk has a block.
LEMMA TypeScatter ==
  ASSUME EngineTypeOK, Scatter, \A c \in keep : newBlk[c[1]] # NoBlock
  PROVE  EngineTypeOK'
<1>1. \A c \in keep : <<"recall", newBlk[c[1]], c[2]>> \in Cells
  BY ChunkParts, RecallCellOf, Zenon DEF EngineTypeOK
<1>2. lut' \in [Chunks -> Cells \cup {NoCell}]
  BY <1>1, Zenon DEF Scatter, RecallScatter, EngineTypeOK
<1>3. QED
  BY <1>2, TypeReturns, Zenon DEF Scatter, RecallScatter, EngineTypeOK, allocVars, decodeVars

\* A recall that raised leaves the engine well typed.
LEMMA TypeRaised ==
  ASSUME EngineTypeOK, Raised
  PROVE  EngineTypeOK'
BY TypeReturns, Zenon DEF Raised, RecallRaised, EngineTypeOK, allocVars, decodeVars

\* Unmapping pages keeps the types of the allocator.
LEMMA TypeUnmap ==
  ASSUME EngineTypeOK, NEW P \in SUBSET Pages, Unmap(P)
  PROVE  /\ p2b' \in [Pages -> Blocks \cup {NoBlock}]
         /\ before' \in SUBSET (Pages \X Pages)
         /\ nextBlock' \in 0 .. MaxBlocks
         /\ freeBlocks' \in SUBSET Blocks
BY Zenon DEF EngineTypeOK, Unmap, Popped, Mapped

\* release_req_pool_locs keeps the types.
LEMMA TypeRelease ==
  ASSUME EngineTypeOK, NEW P \in SUBSET Pages, Release(P)
  PROVE  EngineTypeOK'
<1>1. P \cap Mapped \in SUBSET Pages
  OBVIOUS
<1>2. QED
  BY <1>1, TypeUnmap, TypeLutWithout, Zenon
     DEF Release, ReleaseReqPoolLocs, EngineTypeOK, recallVars, decodeVars

\* release_owned_pages keeps the types.
LEMMA TypeReleaseOwned ==
  ASSUME EngineTypeOK, NEW V \in SUBSET PoolIdx, ReleaseOwned(V)
  PROVE  EngineTypeOK'
<1> DEFINE P == UNION {owned[i] : i \in V}
<1>1. P \in SUBSET Pages
  BY DEF EngineTypeOK
<1>2. Unmap(P) /\ lut' = LutWithout(P)
  BY Zenon DEF ReleaseOwned, ReleaseOwnedPages
<1>3. owned' \in [PoolIdx -> SUBSET Pages]
  BY Zenon DEF ReleaseOwned, ReleaseOwnedPages, EngineTypeOK
<1> HIDE DEF P
<1>4. QED
  BY <1>1, <1>2, <1>3, TypeUnmap, TypeLutWithout, Zenon DEF ReleaseOwned, EngineTypeOK, recallVars, decodeVars

\* A valid row stores into a cell of the decode region.
LEMMA StoreCell ==
  ASSUME EngineTypeOK, NEW w \in StoreRows, ValidRow(w)
  PROVE  DecodeCellOf(w) \in DecodeCells
<1>1. w.idx \in PoolIdx
  BY Zenon DEF StoreRows
<1>2. decodeSlot[w.idx] \in Slots
  BY <1>1 DEF EngineTypeOK, ValidRow
<1>3. QED
  BY <1>2, Zenon DEF ValidRow, DecodeCellOf, DecodeCells

\* store_decode_to_reserve keeps the types: a valid row has its cell in the
\* decode region.
LEMMA TypeStore ==
  ASSUME EngineTypeOK, NEW w \in StoreRows, Store(w)
  PROVE  EngineTypeOK'
<1>1. reserve' \in [Cells -> Bytes \cup {Blank}] /\ lut' \in [Chunks -> Cells \cup {NoCell}]
  <2>1. CASE ValidRow(w)
    <3>1. DecodeCellOf(w) \in Cells
      BY <2>1, StoreCell, OtherCells, Zenon
    <3>2. w.chunk \in Chunks /\ <<w.req, w.chunk>> \in Bytes
      BY Zenon DEF StoreRows, Bytes, Writers
    <3>3. QED
      BY <2>1, <3>1, <3>2, Zenon DEF Store, StoreDecodeToReserve, EngineTypeOK
  <2>2. CASE ~ValidRow(w)
    BY <2>2, Zenon DEF Store, StoreDecodeToReserve, EngineTypeOK
  <2>3. QED
    BY <2>1, <2>2, Zenon
<1>2. QED
  BY <1>1, Zenon DEF Store, EngineTypeOK, allocVars, recallVars, decodeVars

-----------------------------------------------------------------------------
(* The inductive invariant.                                                *)

\* The recall in flight works on blocks its pages hold: what it remembers
\* agrees with the map, and only selected pages are in it.
RecallOwnsItsBlocks ==
  /\ rpc = "idle" => sel = {}
  /\ todo \subseteq sel
  /\ \A p \in Pages : newBlk[p] # NoBlock => newBlk[p] = p2b[p] /\ p \in sel
  /\ \A c \in keep : newBlk[c[1]] # NoBlock

\* Each mirror row holds bytes produced for its own chunk.
MirrorOwnBytes == \A c \in Chunks : mirror[c] \in Writers \X {c}

\* Between copy and scatter the cells about to be published hold their bytes.
CopiedBeforeScatter ==
  rpc = "scatter" =>
    \A c \in keep : reserve[<<"recall", newBlk[c[1]], c[2]>>] \in Writers \X {c}

\* BlockAccounting, block by block.
BlocksOnce ==
  /\ \A p, q \in Pages : p2b[p] # NoBlock /\ p2b[p] = p2b[q] => p = q
  /\ \A p \in Pages : p2b[p] # NoBlock => p2b[p] \notin freeBlocks /\ p2b[p] < nextBlock
  /\ \A b \in freeBlocks : b < nextBlock
  /\ \A b \in 0 .. nextBlock - 1 : b \in freeBlocks \/ \E p \in Pages : p2b[p] = b

\* The inductive invariant: the two residency invariants are preserved only
\* together with who holds which block, what a recall in flight owns, and what
\* the mirror and the copied cells contain.
EngineInv ==
  /\ EngineTypeOK
  /\ BlocksOnce
  /\ RecallOwnsItsBlocks
  /\ MirrorOwnBytes
  /\ CopiedBeforeScatter
  /\ ResidentInOwnBlock
  /\ ResidentBytesAreItsOwn

\* The inductive invariant holds initially.
LEMMA InvInit == EngineInit => EngineInv
<1> SUFFICES ASSUME EngineInit PROVE EngineInv
  OBVIOUS
<1>1. EngineTypeOK
  BY TypeInit, Zenon
<1>2. BlocksOnce
  BY DEF EngineInit, BlocksOnce
<1>3. RecallOwnsItsBlocks
  BY Zenon DEF EngineInit, RecallOwnsItsBlocks
<1>4. MirrorOwnBytes /\ CopiedBeforeScatter
  BY Zenon DEF EngineInit, MirrorOwnBytes, CopiedBeforeScatter, Writers
<1>5. ResidentInOwnBlock /\ ResidentBytesAreItsOwn
  BY OtherCells, Zenon DEF EngineInit, ResidentInOwnBlock, ResidentBytesAreItsOwn
<1>6. QED
  BY <1>1, <1>2, <1>3, <1>4, <1>5, Zenon DEF EngineInv

\* A page is resident in the recall region only while it holds a block.
LEMMA ResidentIsMapped ==
  ASSUME EngineInv, NEW c \in Chunks, IsRecallCell(lut[c])
  PROVE  /\ lut[c] \in Cells
         /\ c[1] \in Pages
         /\ p2b[c[1]] \in Blocks
         /\ p2b[c[1]] # NoBlock
         /\ lut[c] = <<"recall", p2b[c[1]], c[2]>>
<1>1. lut[c] \in Cells \cup {NoCell}
  BY Zenon DEF EngineInv, EngineTypeOK
<1>2. lut[c] \in RecallCells /\ lut[c][2] \in Blocks
  BY <1>1, RecallCellParts, Zenon
<1>3. lut[c] = <<"recall", p2b[c[1]], c[2]>>
  BY Zenon DEF EngineInv, ResidentInOwnBlock
<1>4. lut[c][2] = p2b[c[1]]
  BY <1>3
<1>5. QED
  BY <1>2, <1>3, <1>4, ChunkParts, NoBlockIsNone, Zenon DEF Cells

\* After clearing columns, what is resident was resident and is not of those pages.
LEMMA LutWithoutKeeps ==
  ASSUME NEW P, NEW c \in Chunks, IsRecallCell(LutWithout(P)[c])
  PROVE  c[1] \notin P /\ LutWithout(P)[c] = lut[c] /\ IsRecallCell(lut[c])
BY OtherCells, Zenon DEF LutWithout

\* A transfer keeps the invariant: the mirror still holds each chunk in its own
\* row, and neither lut nor reserve moves.
LEMMA InvLand ==
  ASSUME EngineInv, NEW r \in Reqs, NEW P \in SUBSET Pages, NEW D \in SUBSET Chunks, Land(r, P, D)
  PROVE  EngineInv'
<1>1. EngineTypeOK'
  BY TypeLand, Zenon DEF EngineInv
<1>2. MirrorOwnBytes'
  BY Zenon DEF EngineInv, MirrorOwnBytes, Land, NixlWrite, Writers
<1>3. UNCHANGED <<lut, reserve, p2b, nextBlock, freeBlocks, rpc, sel, todo, newBlk, keep>>
  BY Zenon DEF Land, allocVars, recallVars
<1>4. BlocksOnce' /\ RecallOwnsItsBlocks' /\ CopiedBeforeScatter'
  BY <1>3, Zenon DEF EngineInv, BlocksOnce, RecallOwnsItsBlocks, CopiedBeforeScatter
<1>5. ResidentInOwnBlock' /\ ResidentBytesAreItsOwn'
  BY <1>3, Zenon DEF EngineInv, ResidentInOwnBlock, ResidentBytesAreItsOwn
<1>6. QED
  BY <1>1, <1>2, <1>4, <1>5, Zenon DEF EngineInv

\* An admission keeps the invariant: it only clears lut entries.
LEMMA InvAdmit ==
  ASSUME EngineInv, NEW i \in PoolIdx, NEW P \in SUBSET Pages, NEW pc \in 0 .. MaxChunks, Admit(i, P, pc)
  PROVE  EngineInv'
<1>1. EngineTypeOK'
  BY TypeAdmit, Zenon DEF EngineInv
<1>2. UNCHANGED <<mirror, reserve, p2b, nextBlock, freeBlocks, rpc, sel, todo, newBlk, keep>>
  BY Zenon DEF Admit, allocVars, recallVars
<1>3. BlocksOnce' /\ RecallOwnsItsBlocks' /\ CopiedBeforeScatter' /\ MirrorOwnBytes'
  BY <1>2, Zenon DEF EngineInv, BlocksOnce, RecallOwnsItsBlocks, CopiedBeforeScatter, MirrorOwnBytes
<1>4. lut' = LutWithout(P)
  BY Zenon DEF Admit, DiscardCopiedPages
<1>5. ResidentInOwnBlock' /\ ResidentBytesAreItsOwn'
  BY <1>2, <1>4, LutWithoutKeeps DEF EngineInv, ResidentInOwnBlock, ResidentBytesAreItsOwn
<1>6. QED
  BY <1>1, <1>3, <1>5, Zenon DEF EngineInv

\* The start of a recall keeps the invariant.
LEMMA InvStart ==
  ASSUME EngineInv, NEW own \in [PoolIdx -> SUBSET Pages], NEW S \in SUBSET Pages, Start(own, S)
  PROVE  EngineInv'
<1>1. EngineTypeOK'
  BY TypeStart, Zenon DEF EngineInv
<1>2. UNCHANGED <<mirror, lut, reserve, p2b, nextBlock, freeBlocks, newBlk, keep>> /\ rpc = "idle"
  BY Zenon DEF Start, RecallMiss, allocVars, recallVars
<1>3. rpc' # "scatter"
  BY Zenon DEF Start, RecallMiss, recallVars
<1>4. BlocksOnce' /\ MirrorOwnBytes' /\ CopiedBeforeScatter'
  BY <1>2, <1>3, Zenon DEF EngineInv, BlocksOnce, MirrorOwnBytes, CopiedBeforeScatter
<1>5. RecallOwnsItsBlocks'
  BY <1>2, Zenon DEF EngineInv, RecallOwnsItsBlocks, Start, RecallMiss, recallVars
<1>6. ResidentInOwnBlock' /\ ResidentBytesAreItsOwn'
  BY <1>2, Zenon DEF EngineInv, ResidentInOwnBlock, ResidentBytesAreItsOwn
<1>7. QED
  BY <1>1, <1>4, <1>5, <1>6, Zenon DEF EngineInv

-----------------------------------------------------------------------------
(* The allocation loop.                                                    *)

\* The page keeps its block.
LEMMA InvAllocMapped ==
  ASSUME EngineInv, rpc = "alloc", NEW p \in todo, AllocMapped(p),
         UNCHANGED <<mirror, reserve>>
  PROVE  /\ BlocksOnce'
         /\ RecallOwnsItsBlocks'
         /\ ResidentInOwnBlock'
         /\ ResidentBytesAreItsOwn'
<1>0. p \in Pages /\ p \in sel /\ newBlk \in [Pages -> Blocks \cup {NoBlock}]
  BY Zenon DEF EngineInv, EngineTypeOK, RecallOwnsItsBlocks
<1>1. UNCHANGED <<lut, p2b, nextBlock, freeBlocks, rpc, sel, keep>>
  BY Zenon DEF AllocMapped, Assign
<1>2. BlocksOnce' /\ ResidentInOwnBlock' /\ ResidentBytesAreItsOwn'
  BY <1>1, Zenon DEF EngineInv, BlocksOnce, ResidentInOwnBlock, ResidentBytesAreItsOwn
<1>3. /\ todo' = todo \ {p}
      /\ newBlk' = newBlk \/ newBlk' = [newBlk EXCEPT ![p] = p2b[p]]
      /\ p2b[p] # NoBlock
  BY Zenon DEF AllocMapped, Assign
<1>4. \A c \in keep : c[1] \in Pages
  BY ChunkParts, Zenon DEF EngineInv, EngineTypeOK
<1>5. RecallOwnsItsBlocks'
  BY <1>0, <1>1, <1>3, <1>4, Zenon DEF EngineInv, RecallOwnsItsBlocks
<1>6. QED
  BY <1>2, <1>5, Zenon

\* A page without a block gets a block nobody holds.
LEMMA InvAssignFresh ==
  ASSUME EngineInv, rpc = "alloc", NEW p \in todo, NEW b \in Blocks,
         p2b[p] = NoBlock,
         p2b' = [p2b EXCEPT ![p] = b],
         Assign(p, b),
         UNCHANGED <<mirror, reserve, lut>>
  PROVE  RecallOwnsItsBlocks' /\ ResidentInOwnBlock' /\ ResidentBytesAreItsOwn'
<1>0. /\ p \in Pages
      /\ p \in sel
      /\ newBlk \in [Pages -> Blocks \cup {NoBlock}]
      /\ p2b \in [Pages -> Blocks \cup {NoBlock}]
  BY Zenon DEF EngineInv, EngineTypeOK, RecallOwnsItsBlocks
<1>1. \A c \in keep : c[1] \in Pages
  BY ChunkParts, Zenon DEF EngineInv, EngineTypeOK
<1>2. RecallOwnsItsBlocks'
  BY <1>0, <1>1, NoBlockIsNone, Zenon DEF EngineInv, RecallOwnsItsBlocks, Assign
<1>3. \A c \in Chunks : IsRecallCell(lut[c]) => c[1] # p /\ c[1] \in Pages
  BY ResidentIsMapped, Zenon
<1>4. ResidentInOwnBlock'
  BY <1>0, <1>3, Zenon DEF EngineInv, ResidentInOwnBlock
<1>5. ResidentBytesAreItsOwn'
  BY Zenon DEF EngineInv, ResidentBytesAreItsOwn
<1>6. QED
  BY <1>2, <1>4, <1>5, Zenon

\* Taking a free block keeps the invariant.
LEMMA InvAllocFree ==
  ASSUME EngineInv, rpc = "alloc", NEW p \in todo, AllocFree(p),
         UNCHANGED <<mirror, reserve>>
  PROVE  /\ BlocksOnce'
         /\ RecallOwnsItsBlocks'
         /\ ResidentInOwnBlock'
         /\ ResidentBytesAreItsOwn'
<1>0. /\ p \in Pages
      /\ p2b \in [Pages -> Blocks \cup {NoBlock}]
      /\ freeBlocks \subseteq Blocks
      /\ p2b[p] = NoBlock
  BY Zenon DEF EngineInv, EngineTypeOK, AllocFree
<1>1. PICK b \in freeBlocks :
        /\ freeBlocks' = freeBlocks \ {b}
        /\ p2b' = [p2b EXCEPT ![p] = b]
        /\ Assign(p, b)
  BY Zenon DEF AllocFree
<1>2. UNCHANGED <<lut, nextBlock>>
  BY Zenon DEF AllocFree
<1>3. RecallOwnsItsBlocks' /\ ResidentInOwnBlock' /\ ResidentBytesAreItsOwn'
  BY <1>0, <1>1, <1>2, InvAssignFresh, Zenon
<1>4. \A x \in 0 .. nextBlock - 1 : x \in freeBlocks' \/ \E q \in Pages : p2b'[q] = x
  <2> SUFFICES ASSUME NEW x \in 0 .. nextBlock - 1, x # b
               PROVE  x \in freeBlocks' \/ \E q \in Pages : p2b'[q] = x
    BY <1>0, <1>1, Zenon
  <2>1. CASE x \in freeBlocks
    BY <1>1, <2>1, Zenon
  <2>2. CASE \E q \in Pages : p2b[q] = x
    <3>1. PICK q \in Pages : p2b[q] = x
      BY <2>2, Zenon
    <3>2. x # NoBlock
      BY DEF NoBlock
    <3>3. q # p
      BY <1>0, <3>1, <3>2, Zenon
    <3>4. QED
      BY <1>0, <1>1, <3>1, <3>3, Zenon
  <2>3. QED
    BY <2>1, <2>2, Zenon DEF EngineInv, BlocksOnce
<1>5. BlocksOnce'
  BY <1>0, <1>1, <1>2, <1>4, Zenon DEF EngineInv, BlocksOnce
<1>6. QED
  BY <1>3, <1>5, Zenon

\* Taking the next unused block keeps the invariant.
LEMMA InvAllocNext ==
  ASSUME EngineInv, rpc = "alloc", NEW p \in todo, AllocNext(p),
         UNCHANGED <<mirror, reserve>>
  PROVE  /\ BlocksOnce'
         /\ RecallOwnsItsBlocks'
         /\ ResidentInOwnBlock'
         /\ ResidentBytesAreItsOwn'
<1>0. /\ p \in Pages
      /\ p2b \in [Pages -> Blocks \cup {NoBlock}]
      /\ freeBlocks = {}
      /\ freeBlocks' = {}
      /\ p2b[p] = NoBlock
      /\ p2b' = [p2b EXCEPT ![p] = nextBlock]
      /\ nextBlock' = nextBlock + 1
      /\ lut' = lut
      /\ Assign(p, nextBlock)
  BY Zenon DEF EngineInv, EngineTypeOK, AllocNext
<1>1. nextBlock \in Blocks /\ nextBlock \in Nat
  BY SizesAssumption DEF EngineInv, EngineTypeOK, AllocNext, Blocks
<1>2. RecallOwnsItsBlocks' /\ ResidentInOwnBlock' /\ ResidentBytesAreItsOwn'
  BY <1>0, <1>1, InvAssignFresh, Zenon
<1>3. \A q \in Pages : p2b[q] # NoBlock => p2b[q] \in Nat /\ p2b[q] < nextBlock
  BY <1>0 DEF EngineInv, BlocksOnce, Blocks
<1>4. \A q \in Pages : p2b'[q] = IF q = p THEN nextBlock ELSE p2b[q]
  BY <1>0, Zenon
<1>5. \A x \in 0 .. nextBlock' - 1 : \E q \in Pages : p2b'[q] = x
  <2> SUFFICES ASSUME NEW x \in 0 .. nextBlock - 1
               PROVE  \E q \in Pages : p2b'[q] = x
    BY <1>0, <1>1, <1>4
  <2>1. PICK q \in Pages : p2b[q] = x
    BY <1>0, Zenon DEF EngineInv, BlocksOnce
  <2>2. q # p
    BY <1>0, <2>1 DEF NoBlock
  <2>3. QED
    BY <1>4, <2>1, <2>2, Zenon
<1>6. BlocksOnce'
  BY <1>0, <1>1, <1>3, <1>4, <1>5 DEF EngineInv, BlocksOnce
<1>7. QED
  BY <1>2, <1>6, Zenon

\* The victim is outside the selection, so the recall in flight loses nothing.
LEMMA InvAllocEvict ==
  ASSUME EngineInv, rpc = "alloc", NEW p \in todo, AllocEvict(p),
         UNCHANGED <<mirror, reserve>>
  PROVE  /\ BlocksOnce'
         /\ RecallOwnsItsBlocks'
         /\ ResidentInOwnBlock'
         /\ ResidentBytesAreItsOwn'
<1>0. /\ p \in Pages
      /\ p \in sel
      /\ p2b \in [Pages -> Blocks \cup {NoBlock}]
      /\ newBlk \in [Pages -> Blocks \cup {NoBlock}]
      /\ p2b[p] = NoBlock
  BY Zenon DEF EngineInv, EngineTypeOK, AllocEvict, RecallOwnsItsBlocks
<1>1. PICK v \in Mapped :
        /\ Oldest(v)
        /\ p2b' = [p2b EXCEPT ![v] = NoBlock, ![p] = p2b[v]]
        /\ lut' = LutWithout({v})
        /\ Assign(p, p2b[v])
  BY Zenon DEF AllocEvict
<1>2. v \in Pages /\ p2b[v] \in Blocks /\ p2b[v] # NoBlock /\ v \notin sel /\ v # p
  BY <1>0, <1>1, Zenon DEF Oldest, Evictable, Mapped
<1>3. \A q \in Pages : p2b'[q] = IF q = p THEN p2b[v] ELSE IF q = v THEN NoBlock ELSE p2b[q]
  BY <1>0, <1>1, <1>2, Zenon
<1>4. UNCHANGED <<nextBlock, freeBlocks, rpc, sel, keep>>
  BY <1>1, Zenon DEF AllocEvict, Assign
<1>5. BlocksOnce'
  <2>1. \A q, u \in Pages : p2b'[q] # NoBlock /\ p2b'[q] = p2b'[u] => q = u
    BY <1>2, <1>3, Zenon DEF EngineInv, BlocksOnce
  <2>2. \A q \in Pages : p2b'[q] # NoBlock => p2b'[q] \notin freeBlocks' /\ p2b'[q] < nextBlock'
    BY <1>2, <1>3, <1>4, Zenon DEF EngineInv, BlocksOnce
  <2>3. \A x \in 0 .. nextBlock' - 1 : x \in freeBlocks' \/ \E q \in Pages : p2b'[q] = x
    <3> SUFFICES ASSUME NEW x \in 0 .. nextBlock - 1, x \notin freeBlocks
                 PROVE  \E q \in Pages : p2b'[q] = x
      BY <1>4, Zenon
    <3>1. PICK q \in Pages : p2b[q] = x
      BY Zenon DEF EngineInv, BlocksOnce
    <3>2. q # p
      BY <1>0, <3>1 DEF NoBlock
    <3>3. QED
      BY <1>0, <1>3, <3>1, <3>2, Zenon
  <2>4. QED
    BY <1>4, <2>1, <2>2, <2>3, Zenon DEF EngineInv, BlocksOnce
<1>6. RecallOwnsItsBlocks'
  <2>1. \A q \in Pages : newBlk'[q] = IF q = p THEN p2b[v] ELSE newBlk[q]
    BY <1>0, <1>1, Zenon DEF Assign
  <2>2. \A q \in Pages : newBlk'[q] # NoBlock => newBlk'[q] = p2b'[q] /\ q \in sel'
    BY <1>0, <1>2, <1>3, <1>4, <2>1, Zenon DEF EngineInv, RecallOwnsItsBlocks
  <2>3. \A c \in keep' : newBlk'[c[1]] # NoBlock
    BY <1>2, <1>4, <2>1, ChunkParts, Zenon DEF EngineInv, EngineTypeOK, RecallOwnsItsBlocks
  <2>4. QED
    BY <1>1, <1>4, <2>2, <2>3, Zenon DEF EngineInv, RecallOwnsItsBlocks, Assign
<1>7. \A c \in Chunks : IsRecallCell(lut'[c]) =>
        /\ lut'[c] = lut[c]
        /\ IsRecallCell(lut[c])
        /\ p2b'[c[1]] = p2b[c[1]]
  <2> SUFFICES ASSUME NEW c \in Chunks, IsRecallCell(lut'[c])
               PROVE  lut'[c] = lut[c] /\ IsRecallCell(lut[c]) /\ p2b'[c[1]] = p2b[c[1]]
    OBVIOUS
  <2>1. c[1] # v /\ lut'[c] = lut[c] /\ IsRecallCell(lut[c])
    BY <1>1, LutWithoutKeeps, Zenon
  <2>2. c[1] \in Pages /\ c[1] # p
    BY <1>0, <2>1, ResidentIsMapped, Zenon
  <2>3. QED
    BY <1>3, <2>1, <2>2, Zenon
<1>8. ResidentInOwnBlock' /\ ResidentBytesAreItsOwn'
  BY <1>7, Zenon DEF EngineInv, ResidentInOwnBlock, ResidentBytesAreItsOwn
<1>9. QED
  BY <1>5, <1>6, <1>8, Zenon

\* Every turn of the allocation loop keeps the invariant.
LEMMA InvAlloc ==
  ASSUME EngineInv, Alloc
  PROVE  EngineInv'
<1>1. EngineTypeOK'
  BY TypeAlloc, Zenon DEF EngineInv
<1>2. rpc = "alloc" /\ UNCHANGED <<mirror, reserve>>
  BY Zenon DEF Alloc, RecallAlloc
<1>3. PICK p \in todo :
        AllocMapped(p) \/ AllocFree(p) \/ AllocNext(p) \/ AllocEvict(p) \/ AllocFail(p)
  BY Zenon DEF Alloc, RecallAlloc
<1>4. BlocksOnce' /\ RecallOwnsItsBlocks' /\ ResidentInOwnBlock' /\ ResidentBytesAreItsOwn'
  <2>1. CASE AllocMapped(p)
    BY <1>2, <2>1, InvAllocMapped, Zenon
  <2>2. CASE AllocFree(p)
    BY <1>2, <2>2, InvAllocFree, Zenon
  <2>3. CASE AllocNext(p)
    BY <1>2, <2>3, InvAllocNext, Zenon
  <2>4. CASE AllocEvict(p)
    BY <1>2, <2>4, InvAllocEvict, Zenon
  <2>5. CASE AllocFail(p)
    <3>1. UNCHANGED <<lut, p2b, nextBlock, freeBlocks, sel, todo, newBlk, keep>> /\ rpc' = "failed"
      BY <2>5, Zenon DEF AllocFail
    <3>2. BlocksOnce' /\ RecallOwnsItsBlocks'
      BY <1>2, <3>1, Zenon DEF EngineInv, BlocksOnce, RecallOwnsItsBlocks
    <3>3. ResidentInOwnBlock' /\ ResidentBytesAreItsOwn'
      BY <1>2, <3>1, Zenon DEF EngineInv, ResidentInOwnBlock, ResidentBytesAreItsOwn
    <3>4. QED
      BY <3>2, <3>3, Zenon
  <2>6. QED
    BY <1>3, <2>1, <2>2, <2>3, <2>4, <2>5, Zenon
<1>5. MirrorOwnBytes'
  BY <1>2, Zenon DEF EngineInv, MirrorOwnBytes
<1>6. rpc' # "scatter"
  BY <1>2, <1>3, TypeAllocTurn, Zenon DEF EngineInv
<1>7. CopiedBeforeScatter'
  BY <1>6, Zenon DEF CopiedBeforeScatter
<1>8. QED
  BY <1>1, <1>4, <1>5, <1>7, Zenon DEF EngineInv

-----------------------------------------------------------------------------
(* Guard, copy, scatter.                                                   *)

\* A recall that returns leaves the allocator and the resident chunks alone.
LEMMA InvReturns ==
  ASSUME EngineInv, RecallReturns, UNCHANGED <<mirror, p2b, nextBlock, freeBlocks>>
  PROVE  BlocksOnce' /\ RecallOwnsItsBlocks' /\ MirrorOwnBytes' /\ CopiedBeforeScatter'
<1>1. BlocksOnce' /\ MirrorOwnBytes'
  BY Zenon DEF EngineInv, BlocksOnce, MirrorOwnBytes
<1>2. RecallOwnsItsBlocks' /\ CopiedBeforeScatter'
  BY Zenon DEF RecallReturns, RecallOwnsItsBlocks, CopiedBeforeScatter
<1>3. QED
  BY <1>1, <1>2, Zenon

\* The decode-chunk guard keeps the invariant: what is left in keep has a block.
LEMMA InvGuard ==
  ASSUME EngineInv, Guard
  PROVE  EngineInv'
<1>1. EngineTypeOK'
  BY TypeGuard, Zenon DEF EngineInv
<1>2. UNCHANGED <<mirror, lut, reserve, p2b, nextBlock, freeBlocks>>
  BY Zenon DEF Guard, allocVars
<1>3. ResidentInOwnBlock' /\ ResidentBytesAreItsOwn'
  BY <1>2, Zenon DEF EngineInv, ResidentInOwnBlock, ResidentBytesAreItsOwn
<1>4. BlocksOnce' /\ RecallOwnsItsBlocks' /\ MirrorOwnBytes' /\ CopiedBeforeScatter'
  <2>1. CASE RecallReturns
    BY <1>2, <2>1, InvReturns, Zenon
  <2>2. CASE /\ rpc' = "copy"
             /\ keep' = {c \in Chunks : newBlk[c[1]] # NoBlock /\ ~IsDecodeCell(lut[c])}
             /\ UNCHANGED <<sel, todo, newBlk>>
    <3>1. BlocksOnce' /\ MirrorOwnBytes'
      BY <1>2, Zenon DEF EngineInv, BlocksOnce, MirrorOwnBytes
    <3>2. RecallOwnsItsBlocks' /\ CopiedBeforeScatter'
      BY <1>2, <2>2, Zenon DEF EngineInv, RecallOwnsItsBlocks, CopiedBeforeScatter
    <3>3. QED
      BY <3>1, <3>2, Zenon
  <2>3. QED
    BY <2>1, <2>2, Zenon DEF Guard, RecallGuard
<1>5. QED
  BY <1>1, <1>3, <1>4, Zenon DEF EngineInv

\* The cell of a chunk the recall copies, and who else could read it: nobody.
LEMMA KeptCells ==
  ASSUME EngineInv, NEW c \in keep
  PROVE  /\ c \in Chunks
         /\ c[1] \in Pages
         /\ c[2] \in Offs
         /\ newBlk[c[1]] \in Blocks
         /\ newBlk[c[1]] = p2b[c[1]]
         /\ <<"recall", newBlk[c[1]], c[2]>> \in Cells
         /\ IsRecallCell(<<"recall", newBlk[c[1]], c[2]>>)
<1>1. c \in Chunks
  BY Zenon DEF EngineInv, EngineTypeOK
<1>2. c[1] \in Pages /\ c[2] \in Offs
  BY <1>1, ChunkParts, Zenon
<1>3. newBlk[c[1]] \in Blocks /\ newBlk[c[1]] = p2b[c[1]]
  BY <1>2, Zenon DEF EngineInv, EngineTypeOK, RecallOwnsItsBlocks
<1>4. QED
  BY <1>1, <1>2, <1>3, RecallCellOf, Zenon

\* Two kept chunks with the same target cell are the same chunk, so the copy
\* gives every cell one well defined source.
LEMMA SameCellSameChunk ==
  ASSUME EngineInv, NEW p \in Pages, NEW q \in Pages, NEW a \in Offs, NEW b \in Offs,
         p2b[p] # NoBlock,
         <<"recall", p2b[p], a>> = <<"recall", p2b[q], b>>
  PROVE  <<p, a>> = <<q, b>>
BY Zenon DEF EngineInv, BlocksOnce

\* The copy keeps the invariant: no resident chunk reads a cell it overwrites
\* with the bytes of another.
LEMMA InvCopy ==
  ASSUME EngineInv, Copy
  PROVE  EngineInv'
<1>1. EngineTypeOK'
  BY TypeCopy, Zenon DEF EngineInv
<1>2. UNCHANGED <<mirror, lut, p2b, nextBlock, freeBlocks, sel, todo, newBlk, keep>>
  BY Zenon DEF Copy, RecallCopy, allocVars
<1>3. rpc = "copy" /\ rpc' = "scatter"
  BY Zenon DEF Copy, RecallCopy
<1>4. BlocksOnce' /\ RecallOwnsItsBlocks' /\ MirrorOwnBytes' /\ ResidentInOwnBlock'
  BY <1>2, <1>3, Zenon
     DEF EngineInv, BlocksOnce, RecallOwnsItsBlocks, MirrorOwnBytes, ResidentInOwnBlock
<1>5. \A d \in keep : reserve'[<<"recall", newBlk[d[1]], d[2]>>] \in Writers \X {d}
  <2> SUFFICES ASSUME NEW d \in keep
               PROVE  reserve'[<<"recall", newBlk[d[1]], d[2]>>] \in Writers \X {d}
    OBVIOUS
  <2> DEFINE k == <<"recall", newBlk[d[1]], d[2]>>
  <2>1. k \in Cells /\ \E c \in keep : k = <<"recall", newBlk[c[1]], c[2]>>
    BY KeptCells, Zenon
  <2> DEFINE e == CHOOSE c \in keep : k = <<"recall", newBlk[c[1]], c[2]>>
  <2>2. e \in keep /\ k = <<"recall", newBlk[e[1]], e[2]>>
    BY <2>1, Zenon
  <2>3. reserve'[k] = mirror[e]
    BY <2>1, Zenon DEF Copy, RecallCopy
  <2> HIDE DEF e
  <2>4. <<d[1], d[2]>> = <<e[1], e[2]>>
    <3>1. /\ d[1] \in Pages /\ d[2] \in Offs /\ e[1] \in Pages /\ e[2] \in Offs
          /\ newBlk[d[1]] = p2b[d[1]] /\ newBlk[e[1]] = p2b[e[1]] /\ p2b[d[1]] # NoBlock
      BY <2>2, KeptCells, NoBlockIsNone, Zenon
    <3>2. <<"recall", p2b[d[1]], d[2]>> = <<"recall", p2b[e[1]], e[2]>>
      BY <2>2, <3>1, Zenon
    <3>3. QED
      BY <3>1, <3>2, SameCellSameChunk, Zenon
  <2>5. d \in Chunks /\ e \in Chunks
    BY <2>2, KeptCells, Zenon
  <2>6. d = e
    BY <2>4, <2>5, ChunkParts, Zenon
  <2>7. QED
    BY <2>3, <2>5, <2>6, Zenon DEF EngineInv, MirrorOwnBytes
<1>6. CopiedBeforeScatter'
  BY <1>2, <1>5, Zenon DEF CopiedBeforeScatter
<1>7. ResidentBytesAreItsOwn'
  <2> SUFFICES ASSUME NEW c \in Chunks, IsRecallCell(lut[c])
               PROVE  reserve'[lut[c]] \in Writers \X {c}
    BY <1>2, Zenon DEF ResidentBytesAreItsOwn
  <2>1. /\ lut[c] \in Cells
        /\ c[1] \in Pages
        /\ c[2] \in Offs
        /\ p2b[c[1]] # NoBlock
        /\ lut[c] = <<"recall", p2b[c[1]], c[2]>>
    BY ResidentIsMapped, ChunkParts, Zenon
  <2>2. CASE reserve'[lut[c]] = reserve[lut[c]]
    BY <2>2, Zenon DEF EngineInv, ResidentBytesAreItsOwn
  <2>3. CASE \E d \in keep : lut[c] = <<"recall", newBlk[d[1]], d[2]>> /\ reserve'[lut[c]] = mirror[d]
    <3>1. PICK d \in keep : lut[c] = <<"recall", newBlk[d[1]], d[2]>> /\ reserve'[lut[c]] = mirror[d]
      BY <2>3, Zenon
    <3>2. d \in Chunks /\ d[1] \in Pages /\ d[2] \in Offs /\ newBlk[d[1]] = p2b[d[1]]
      BY <3>1, KeptCells, Zenon
    <3>3. <<"recall", p2b[c[1]], c[2]>> = <<"recall", p2b[d[1]], d[2]>>
      BY <2>1, <3>1, <3>2, Zenon
    <3>4. <<c[1], c[2]>> = <<d[1], d[2]>>
      BY <2>1, <3>2, <3>3, SameCellSameChunk, Zenon
    <3>5. c = d
      BY <3>2, <3>4, ChunkParts, Zenon
    <3>6. QED
      BY <3>1, <3>2, <3>5, Zenon DEF EngineInv, MirrorOwnBytes
  <2>4. QED
    BY <2>1, <2>2, <2>3, CopiedBytes, Zenon DEF EngineInv
<1>8. QED
  BY <1>1, <1>4, <1>6, <1>7, Zenon DEF EngineInv

\* The lut scatter keeps the invariant: the bytes are already in place.
LEMMA InvScatter ==
  ASSUME EngineInv, Scatter
  PROVE  EngineInv'
<1>1. EngineTypeOK'
  BY TypeScatter, Zenon DEF EngineInv, RecallOwnsItsBlocks
<1>2. UNCHANGED <<mirror, reserve, p2b, nextBlock, freeBlocks>> /\ rpc = "scatter" /\ RecallReturns
  BY Zenon DEF Scatter, RecallScatter, allocVars
<1>3. BlocksOnce' /\ RecallOwnsItsBlocks' /\ MirrorOwnBytes' /\ CopiedBeforeScatter'
  BY <1>2, InvReturns, Zenon
<1>4. \A c \in Chunks :
        lut'[c] = IF c \in keep THEN <<"recall", newBlk[c[1]], c[2]>> ELSE lut[c]
  BY Zenon DEF Scatter, RecallScatter
<1>5. ResidentInOwnBlock'
  BY <1>2, <1>4, KeptCells, Zenon DEF EngineInv, ResidentInOwnBlock
<1>6. ResidentBytesAreItsOwn'
  BY <1>2, <1>4, Zenon DEF EngineInv, ResidentBytesAreItsOwn, CopiedBeforeScatter
<1>7. QED
  BY <1>1, <1>3, <1>5, <1>6, Zenon DEF EngineInv

\* A recall that raises keeps the invariant.
LEMMA InvRaised ==
  ASSUME EngineInv, Raised
  PROVE  EngineInv'
<1>1. EngineTypeOK'
  BY TypeRaised, Zenon DEF EngineInv
<1>2. UNCHANGED <<mirror, lut, reserve, p2b, nextBlock, freeBlocks>> /\ RecallReturns
  BY Zenon DEF Raised, RecallRaised, allocVars
<1>3. BlocksOnce' /\ RecallOwnsItsBlocks' /\ MirrorOwnBytes' /\ CopiedBeforeScatter'
  BY <1>2, InvReturns, Zenon
<1>4. ResidentInOwnBlock' /\ ResidentBytesAreItsOwn'
  BY <1>2, Zenon DEF EngineInv, ResidentInOwnBlock, ResidentBytesAreItsOwn
<1>5. QED
  BY <1>1, <1>3, <1>4, Zenon DEF EngineInv

-----------------------------------------------------------------------------
(* Release and decode store.                                               *)

\* Blocks given back were held once, so the free list stays free of duplicates.
LEMMA InvUnmap ==
  ASSUME EngineInv, rpc = "idle", NEW P \in SUBSET Pages, Unmap(P), lut' = LutWithout(P),
         UNCHANGED <<mirror, reserve, rpc, sel, todo, newBlk, keep>>
  PROVE  /\ BlocksOnce'
         /\ RecallOwnsItsBlocks'
         /\ MirrorOwnBytes'
         /\ CopiedBeforeScatter'
         /\ ResidentInOwnBlock'
         /\ ResidentBytesAreItsOwn'
<1>1. /\ \A q \in Pages : p2b'[q] = IF q \in P THEN NoBlock ELSE p2b[q]
      /\ nextBlock' = nextBlock
      /\ \A b : b \in freeBlocks' <=> b \in freeBlocks \/ \E q \in P : p2b[q] # NoBlock /\ b = p2b[q]
  BY Zenon DEF Unmap, Mapped
<1>2. BlocksOnce'
  <2>1. \A q, u \in Pages : p2b'[q] # NoBlock /\ p2b'[q] = p2b'[u] => q = u
    BY <1>1, Zenon DEF EngineInv, BlocksOnce
  <2>2. \A q \in Pages : p2b'[q] # NoBlock => p2b'[q] \notin freeBlocks' /\ p2b'[q] < nextBlock'
    BY <1>1, Zenon DEF EngineInv, BlocksOnce
  <2>3. \A b \in freeBlocks' : b < nextBlock'
    BY <1>1 DEF EngineInv, BlocksOnce
  <2>4. \A b \in 0 .. nextBlock' - 1 : b \in freeBlocks' \/ \E q \in Pages : p2b'[q] = b
    <3> SUFFICES ASSUME NEW b \in 0 .. nextBlock - 1, b \notin freeBlocks'
                 PROVE  \E q \in Pages : p2b'[q] = b
      BY <1>1, Zenon
    <3>1. PICK q \in Pages : p2b[q] = b
      BY <1>1, Zenon DEF EngineInv, BlocksOnce
    <3>2. b # NoBlock
      BY DEF NoBlock
    <3>3. q \notin P
      BY <1>1, <3>1, <3>2, Zenon
    <3>4. QED
      BY <1>1, <3>1, <3>3, Zenon
  <2>5. QED
    BY <2>1, <2>2, <2>3, <2>4, Zenon DEF BlocksOnce
<1>3. RecallOwnsItsBlocks'
  BY Zenon DEF EngineInv, RecallOwnsItsBlocks
<1>4. MirrorOwnBytes' /\ CopiedBeforeScatter'
  BY Zenon DEF EngineInv, MirrorOwnBytes, CopiedBeforeScatter
<1>5. \A c \in Chunks : IsRecallCell(lut'[c]) =>
        lut'[c] = lut[c] /\ IsRecallCell(lut[c]) /\ p2b'[c[1]] = p2b[c[1]]
  BY <1>1, LutWithoutKeeps, ChunkParts, Zenon
<1>6. ResidentInOwnBlock' /\ ResidentBytesAreItsOwn'
  BY <1>5, Zenon DEF EngineInv, ResidentInOwnBlock, ResidentBytesAreItsOwn
<1>7. QED
  BY <1>2, <1>3, <1>4, <1>6, Zenon

\* A release by rows keeps the invariant.
LEMMA InvRelease ==
  ASSUME EngineInv, rpc = "idle", NEW P \in SUBSET Pages, Release(P)
  PROVE  EngineInv'
<1> DEFINE R == P \cap Mapped
<1>1. EngineTypeOK'
  BY TypeRelease, Zenon DEF EngineInv
<1>2. /\ R \in SUBSET Pages
      /\ Unmap(R)
      /\ lut' = LutWithout(R)
      /\ UNCHANGED <<mirror, reserve, rpc, sel, todo, newBlk, keep>>
  BY Zenon DEF Release, ReleaseReqPoolLocs, recallVars
<1> HIDE DEF R
<1>3. QED
  BY <1>1, <1>2, InvUnmap, Zenon DEF EngineInv

\* A release by owner keeps the invariant.
LEMMA InvReleaseOwned ==
  ASSUME EngineInv, rpc = "idle", NEW V \in SUBSET PoolIdx, ReleaseOwned(V)
  PROVE  EngineInv'
<1> DEFINE P == UNION {owned[i] : i \in V}
<1>1. EngineTypeOK'
  BY TypeReleaseOwned, Zenon DEF EngineInv
<1>2. P \in SUBSET Pages
  BY DEF EngineInv, EngineTypeOK
<1>3. /\ Unmap(P)
      /\ lut' = LutWithout(P)
      /\ UNCHANGED <<mirror, reserve, rpc, sel, todo, newBlk, keep>>
  BY Zenon DEF ReleaseOwned, ReleaseOwnedPages, recallVars
<1> HIDE DEF P
<1>4. QED
  BY <1>1, <1>2, <1>3, InvUnmap, Zenon DEF EngineInv

\* A decode store keeps the invariant: it touches the decode region only.
LEMMA InvStore ==
  ASSUME EngineInv, NEW w \in StoreRows, Store(w)
  PROVE  EngineInv'
<1>1. EngineTypeOK'
  BY TypeStore, Zenon DEF EngineInv
<1>2. UNCHANGED <<mirror, p2b, nextBlock, freeBlocks, rpc, sel, todo, newBlk, keep>>
  BY Zenon DEF Store, allocVars, recallVars
<1>3. BlocksOnce' /\ RecallOwnsItsBlocks' /\ MirrorOwnBytes'
  BY <1>2, Zenon DEF EngineInv, BlocksOnce, RecallOwnsItsBlocks, MirrorOwnBytes
<1>4. \A k \in Cells : IsRecallCell(k) => reserve'[k] = reserve[k]
  <2>1. CASE ValidRow(w)
    BY <2>1, StoreCell, OtherCells, Zenon DEF Store, StoreDecodeToReserve, EngineInv, EngineTypeOK
  <2>2. CASE ~ValidRow(w)
    BY <2>2, Zenon DEF Store, StoreDecodeToReserve
  <2>3. QED
    BY <2>1, <2>2, Zenon
<1>5. \A c \in Chunks : IsRecallCell(lut'[c]) => lut'[c] = lut[c]
  <2>1. CASE ValidRow(w)
    BY <2>1, StoreCell, OtherCells, Zenon DEF Store, StoreDecodeToReserve, EngineInv, EngineTypeOK
  <2>2. CASE ~ValidRow(w)
    BY <2>2, Zenon DEF Store, StoreDecodeToReserve
  <2>3. QED
    BY <2>1, <2>2, Zenon
<1>6. CopiedBeforeScatter'
  BY <1>2, <1>4, KeptCells, Zenon DEF EngineInv, CopiedBeforeScatter
<1>7. ResidentInOwnBlock' /\ ResidentBytesAreItsOwn'
  BY <1>2, <1>4, <1>5, ResidentIsMapped DEF EngineInv, ResidentInOwnBlock, ResidentBytesAreItsOwn
<1>8. QED
  BY <1>1, <1>3, <1>6, <1>7, Zenon DEF EngineInv

-----------------------------------------------------------------------------
(* The theorems.                                                           *)

\* Every step of the engine keeps the invariant.
LEMMA InvNext ==
  ASSUME EngineInv, EngineNext
  PROVE  EngineInv'
<1>1. CASE \E r \in Reqs, P \in SUBSET Pages : \E D \in SUBSET (P \X Offs) : Land(r, P, D)
  <2>1. PICK r \in Reqs, P \in SUBSET Pages : \E D \in SUBSET (P \X Offs) : Land(r, P, D)
    BY <1>1, Zenon
  <2>2. PICK D \in SUBSET (P \X Offs) : Land(r, P, D)
    BY <2>1, Zenon
  <2>3. D \in SUBSET Chunks
    BY Zenon DEF Chunks
  <2>4. QED
    BY <2>2, <2>3, InvLand, Zenon
<1>2. CASE \E i \in PoolIdx, P \in SUBSET Pages, pc \in 0 .. MaxChunks : Admit(i, P, pc)
  BY <1>2, InvAdmit, Zenon
<1>3. CASE \E own \in [PoolIdx -> SUBSET Pages] : Start(own, UNION {own[i] : i \in PoolIdx})
  <2>1. PICK own \in [PoolIdx -> SUBSET Pages] : Start(own, UNION {own[i] : i \in PoolIdx})
    BY <1>3, Zenon
  <2>2. UNION {own[i] : i \in PoolIdx} \in SUBSET Pages
    OBVIOUS
  <2>3. QED
    BY <2>1, <2>2, InvStart, Zenon
<1>4. CASE Alloc
  BY <1>4, InvAlloc, Zenon
<1>5. CASE Guard
  BY <1>5, InvGuard, Zenon
<1>6. CASE Copy
  BY <1>6, InvCopy, Zenon
<1>7. CASE Scatter
  BY <1>7, InvScatter, Zenon
<1>8. CASE Raised
  BY <1>8, InvRaised, Zenon
<1>9. CASE rpc = "idle" /\ \E P \in SUBSET Pages : Release(P)
  BY <1>9, InvRelease, Zenon
<1>10. CASE rpc = "idle" /\ \E V \in SUBSET PoolIdx : ReleaseOwned(V)
  BY <1>10, InvReleaseOwned, Zenon
<1>11. CASE \E w \in StoreRows : Store(w)
  BY <1>11, InvStore, Zenon
<1>12. QED
  BY <1>1, <1>2, <1>3, <1>4, <1>5, <1>6, <1>7, <1>8, <1>9, <1>10, <1>11, Zenon DEF EngineNext

\* A stuttering step keeps the invariant.
LEMMA InvStutter ==
  ASSUME EngineInv, UNCHANGED engineVars
  PROVE  EngineInv'
BY Zenon DEF EngineInv, engineVars, EngineTypeOK, BlocksOnce, RecallOwnsItsBlocks, MirrorOwnBytes,
       CopiedBeforeScatter, ResidentInOwnBlock, ResidentBytesAreItsOwn, Mapped

\* The inductive invariant holds in every state of the engine, whatever the
\* number of pages, blocks, slots and requests.
THEOREM EngineInvariant == EngineSpec => []EngineInv
<1>1. EngineInv /\ [EngineNext]_engineVars => EngineInv'
  BY InvNext, InvStutter, Zenon
<1>2. QED
  BY <1>1, InvInit, PTL DEF EngineSpec

\* No step of any caller takes a variable of the engine out of its type.
THEOREM EngineTypeCorrect == EngineSpec => []EngineTypeOK
<1>1. EngineInv => EngineTypeOK
  BY Zenon DEF EngineInv
<1>2. QED
  BY <1>1, EngineInvariant, PTL

\* Blocks are neither leaked nor handed out twice: below the high-water mark
\* a block is free or held by exactly one page, after any sequence of recalls,
\* evictions, releases and recalls that raise half-way.
THEOREM BlocksAccounted == EngineSpec => []BlockAccounting
<1>1. EngineInv => BlockAccounting
  <2> SUFFICES ASSUME EngineInv PROVE BlockAccounting
    OBVIOUS
  <2>1. \A p, q \in Mapped : p # q => p2b[p] # p2b[q]
    BY Zenon DEF EngineInv, BlocksOnce, Mapped
  <2>2. \A p \in Mapped : p2b[p] \notin freeBlocks
    BY Zenon DEF EngineInv, BlocksOnce, Mapped
  <2>3. \A b \in 0 .. nextBlock - 1 : b \in freeBlocks \cup {p2b[p] : p \in Mapped}
    BY DEF EngineInv, BlocksOnce, Mapped, NoBlock
  <2>4. \A b \in freeBlocks \cup {p2b[p] : p \in Mapped} : b \in 0 .. nextBlock - 1
    <3>1. \A b \in Blocks : b < nextBlock => b \in 0 .. nextBlock - 1
      BY SizesAssumption DEF EngineInv, EngineTypeOK, Blocks
    <3>2. \A b \in freeBlocks : b \in Blocks /\ b < nextBlock
      BY Zenon DEF EngineInv, EngineTypeOK, BlocksOnce
    <3>3. \A p \in Mapped : p2b[p] \in Blocks /\ p2b[p] < nextBlock
      BY Zenon DEF EngineInv, EngineTypeOK, BlocksOnce, Mapped
    <3>4. QED
      BY <3>1, <3>2, <3>3, Zenon
  <2>5. QED
    BY <2>1, <2>2, <2>3, <2>4, Zenon DEF BlockAccounting
<1>2. QED
  BY <1>1, EngineInvariant, PTL

\* A chunk that is resident in the recall region is read from the block of its
\* own page, at its own offset.
THEOREM ResidentsAreAligned == EngineSpec => []ResidentInOwnBlock
<1>1. EngineInv => ResidentInOwnBlock
  BY Zenon DEF EngineInv
<1>2. QED
  BY <1>1, EngineInvariant, PTL

\* And the bytes there are bytes of its own mirror row: copying before the lut
\* is written, and never releasing during a recall, is enough for every
\* interleaving of transfers, admissions, decode stores and one recall.
THEOREM ResidentBytesCorrect == EngineSpec => []ResidentBytesAreItsOwn
<1>1. EngineInv => ResidentBytesAreItsOwn
  BY Zenon DEF EngineInv
<1>2. QED
  BY <1>1, EngineInvariant, PTL

\* Making room for one selected page never takes the block of another.
THEOREM SelectionIsProtected == EngineSpec => SelectionKeepsItsBlocks
<1> DEFINE Keeps == (rpc = "alloc" /\ rpc' = "alloc") =>
                      \A p \in sel : p2b[p] # NoBlock => p2b'[p] = p2b[p]
<1>1. ASSUME EngineInv, EngineNext, rpc = "alloc", NEW u \in sel, p2b[u] # NoBlock
      PROVE  p2b'[u] = p2b[u]
  <2>0. u \in Pages /\ p2b \in [Pages -> Blocks \cup {NoBlock}]
    BY <1>1, Zenon DEF EngineInv, EngineTypeOK
  <2>1. CASE Alloc
    <3>1. PICK p \in todo :
            AllocMapped(p) \/ AllocFree(p) \/ AllocNext(p) \/ AllocEvict(p) \/ AllocFail(p)
      BY <2>1, Zenon DEF Alloc, RecallAlloc
    <3>2. CASE AllocMapped(p) \/ AllocFail(p)
      BY <3>2, Zenon DEF AllocMapped, AllocFail
    <3>3. CASE AllocFree(p) \/ AllocNext(p)
      BY <1>1, <2>0, <3>3, Zenon DEF AllocFree, AllocNext
    <3>4. CASE AllocEvict(p)
      BY <1>1, <2>0, <3>4, Zenon DEF AllocEvict, Oldest, Evictable
    <3>5. QED
      BY <3>1, <3>2, <3>3, <3>4, Zenon
  <2>2. CASE ~Alloc
    BY <1>1, <2>2, Zenon DEF EngineNext, Land, Admit, Start, RecallMiss, Guard, Copy, Scatter, Raised,
                      Store, allocVars
  <2>3. QED
    BY <2>1, <2>2, Zenon
<1>2. EngineInv /\ [EngineNext]_engineVars => [Keeps]_engineVars
  BY <1>1, Zenon
<1>3. QED
  BY <1>2, EngineInvariant, PTL DEF EngineSpec, SelectionKeepsItsBlocks

-----------------------------------------------------------------------------
(* The order of the OrderedDict.                                           *)

\* What moving a page to the end does to the order, pair by pair.
LEMMA MovedPairs ==
  ASSUME before \subseteq Pages \X Pages, NEW p \in Pages
  PROVE  \A a, b : <<a, b>> \in MoveToEnd(p) <=>
           \/ a # p /\ b # p /\ <<a, b>> \in before
           \/ a \in Mapped /\ a # p /\ b = p
BY Zenon DEF MoveToEnd

\* The pairs that survive a pop, pointwise.
LEMMA PoppedPairs ==
  ASSUME before \subseteq Pages \X Pages, NEW P
  PROVE  \A a, b : <<a, b>> \in Popped(P) <=> a \notin P /\ b \notin P /\ <<a, b>> \in before
BY Zenon DEF Popped

\* LruOrderTotal, pair by pair.
OrderAt(a, b) ==
  /\ <<a, b>> \in before => p2b[a] # NoBlock /\ p2b[b] # NoBlock /\ a # b
  /\ p2b[a] # NoBlock /\ p2b[b] # NoBlock /\ a # b =>
       (<<a, b>> \in before <=> <<b, a>> \notin before)

OrderPairs == \A a, b \in Pages : OrderAt(a, b)

\* A new last element: the order of the pages O that stay, and p after them all.
LEMMA OrderWithLast ==
  ASSUME OrderPairs, NEW p \in Pages, p2b'[p] # NoBlock,
         NEW O \in SUBSET Pages, p \notin O,
         \A q \in O : p2b[q] # NoBlock /\ p2b'[q] = p2b[q],
         \A q \in Pages : q # p /\ q \notin O => p2b'[q] = NoBlock,
         \A a, b : <<a, b>> \in before' <=>
           (a \in O /\ b \in O /\ <<a, b>> \in before) \/ (a \in O /\ b = p)
  PROVE  OrderPairs'
<1> SUFFICES ASSUME NEW a \in Pages, NEW b \in Pages PROVE OrderAt(a, b)'
  BY Zenon DEF OrderPairs
<1>1. /\ <<a, b>> \in before' <=> (a \in O /\ b \in O /\ <<a, b>> \in before) \/ (a \in O /\ b = p)
      /\ <<b, a>> \in before' <=> (b \in O /\ a \in O /\ <<b, a>> \in before) \/ (b \in O /\ a = p)
  OBVIOUS
<1>2. OrderAt(a, b)
  BY Zenon DEF OrderPairs
<1>3. p2b'[a] # NoBlock <=> a \in O \/ a = p
  OBVIOUS
<1>4. p2b'[b] # NoBlock <=> b \in O \/ b = p
  OBVIOUS
<1>5. a \in O => p2b[a] # NoBlock
  OBVIOUS
<1>6. b \in O => p2b[b] # NoBlock
  OBVIOUS
<1>7. QED
  BY <1>1, <1>2, <1>3, <1>4, <1>5, <1>6, Zenon DEF OrderAt

\* Only mapped pages are ordered.
LEMMA OrderInside ==
  ASSUME OrderPairs, before \subseteq Pages \X Pages
  PROVE  \A a, b : <<a, b>> \in before => a \in Mapped /\ b \in Mapped
<1> SUFFICES ASSUME NEW a, NEW b, <<a, b>> \in before PROVE a \in Mapped /\ b \in Mapped
  OBVIOUS
<1>1. a \in Pages /\ b \in Pages
  OBVIOUS
<1>2. OrderAt(a, b)
  BY <1>1, Zenon DEF OrderPairs
<1>3. QED
  BY <1>1, <1>2, Zenon DEF OrderAt, Mapped

\* One turn of the allocation loop keeps the order of the OrderedDict total.
LEMMA OrderTurn ==
  ASSUME EngineInv, OrderPairs, NEW p \in todo,
         AllocMapped(p) \/ AllocFree(p) \/ AllocNext(p) \/ AllocEvict(p) \/ AllocFail(p)
  PROVE  OrderPairs'
<1>0. /\ p \in Pages
      /\ before \subseteq Pages \X Pages
      /\ p2b \in [Pages -> Blocks \cup {NoBlock}]
      /\ freeBlocks \subseteq Blocks
  BY Zenon DEF EngineInv, EngineTypeOK
<1>1. CASE AllocMapped(p)
  <2>1. before' = MoveToEnd(p) /\ p2b' = p2b /\ p2b[p] # NoBlock
    BY <1>1, Zenon DEF AllocMapped
  <2>2. \A a, b : <<a, b>> \in before => a \in Mapped /\ b \in Mapped
    BY <1>0, OrderInside, Zenon
  <2>3. \A a, b : <<a, b>> \in before' <=>
          \/ a \in Mapped \ {p} /\ b \in Mapped \ {p} /\ <<a, b>> \in before
          \/ a \in Mapped \ {p} /\ b = p
    BY <1>0, <2>1, <2>2, MovedPairs, Zenon
  <2>4. QED
    BY <1>0, <2>1, <2>3, OrderWithLast, Zenon DEF Mapped
<1>2. CASE AllocFree(p) \/ AllocNext(p)
  <2>1. PICK b \in Blocks : p2b' = [p2b EXCEPT ![p] = b] /\ before' = MoveToEnd(p)
    <3>1. CASE AllocFree(p)
      BY <1>0, <3>1, Zenon DEF AllocFree
    <3>2. CASE AllocNext(p)
      <4>1. nextBlock \in Blocks
        BY <3>2, SizesAssumption DEF EngineInv, EngineTypeOK, AllocNext, Blocks
      <4>2. QED
        BY <3>2, <4>1, Zenon DEF AllocNext
    <3>3. QED
      BY <1>2, <3>1, <3>2, Zenon
  <2>2. p2b[p] = NoBlock /\ b # NoBlock
    BY <1>2, <2>1, NoBlockIsNone, Zenon DEF AllocFree, AllocNext
  <2>3. \A q \in Pages : p2b'[q] = IF q = p THEN b ELSE p2b[q]
    BY <1>0, <2>1, Zenon
  <2>4. \A x, y : <<x, y>> \in before => x \in Mapped /\ y \in Mapped
    BY <1>0, OrderInside, Zenon
  <2>5. p \notin Mapped
    BY <2>2, Zenon DEF Mapped
  <2>6. \A x, y : <<x, y>> \in before' <=>
          \/ x \in Mapped /\ y \in Mapped /\ <<x, y>> \in before
          \/ x \in Mapped /\ y = p
    BY <1>0, <2>1, <2>4, <2>5, MovedPairs, Zenon
  <2>7. QED
    BY <1>0, <2>2, <2>3, <2>5, <2>6, OrderWithLast, Zenon DEF Mapped
<1>3. CASE AllocEvict(p)
  <2>1. PICK v \in Mapped :
          /\ p2b' = [p2b EXCEPT ![v] = NoBlock, ![p] = p2b[v]]
          /\ before' = Popped({v}) \cup ((Mapped \ {v}) \X {p})
    BY <1>3, Zenon DEF AllocEvict
  <2>2. v \in Pages /\ p2b[v] # NoBlock /\ p2b[p] = NoBlock /\ v # p
    BY <1>3, Zenon DEF Mapped, AllocEvict
  <2>3. \A q \in Pages : p2b'[q] = IF q = p THEN p2b[v] ELSE IF q = v THEN NoBlock ELSE p2b[q]
    BY <1>0, <2>1, <2>2, Zenon
  <2>4. \A a, b : <<a, b>> \in before' <=>
          \/ a # v /\ b # v /\ <<a, b>> \in before
          \/ a \in Mapped /\ a # v /\ b = p
    BY <1>0, <2>1, PoppedPairs, Zenon
  <2>5. \A a, b : <<a, b>> \in before => a \in Mapped /\ b \in Mapped
    BY <1>0, OrderInside, Zenon
  <2>6. \A a, b : <<a, b>> \in before' <=>
          \/ a \in Mapped \ {v} /\ b \in Mapped \ {v} /\ <<a, b>> \in before
          \/ a \in Mapped \ {v} /\ b = p
    <3> TAKE a, b
    <3>1. <<a, b>> \in before => a \in Mapped /\ b \in Mapped
      BY <2>5, Zenon
    <3>2. <<a, b>> \in before' <=>
            \/ a # v /\ b # v /\ <<a, b>> \in before
            \/ a \in Mapped /\ a # v /\ b = p
      BY <2>4
    <3>3. QED
      BY <3>1, <3>2, Zenon
  <2> DEFINE O == Mapped \ {v}
  <2>7. O \in SUBSET Pages /\ p \notin O /\ p2b'[p] # NoBlock
    BY <1>0, <2>2, <2>3, Zenon DEF Mapped
  <2>8. \A q \in O : p2b[q] # NoBlock /\ p2b'[q] = p2b[q]
    BY <2>2, <2>3, Zenon DEF Mapped
  <2>9. \A q \in Pages : q # p /\ q \notin O => p2b'[q] = NoBlock
    BY <2>2, <2>3, Zenon DEF Mapped
  <2>10. \A a, b : <<a, b>> \in before' <=>
           (a \in O /\ b \in O /\ <<a, b>> \in before) \/ (a \in O /\ b = p)
    BY <2>6, Zenon
  <2> HIDE DEF O
  <2>11. QED
    BY <1>0, <2>7, <2>8, <2>9, <2>10, OrderWithLast, Zenon
<1>4. CASE AllocFail(p)
  BY <1>4, Zenon DEF AllocFail, OrderPairs, OrderAt
<1>5. QED
  BY <1>1, <1>2, <1>3, <1>4, Zenon

\* Releasing pages keeps the order of the others.
LEMMA OrderUnmap ==
  ASSUME EngineInv, OrderPairs, NEW P \in SUBSET Pages, Unmap(P)
  PROVE  OrderPairs'
<1>1. before \subseteq Pages \X Pages
  BY Zenon DEF EngineInv, EngineTypeOK
<1>2. \A q \in Pages : p2b'[q] = IF q \in P THEN NoBlock ELSE p2b[q]
  BY Zenon DEF Unmap
<1>3. \A a, b : <<a, b>> \in before' <=> a \notin P /\ b \notin P /\ <<a, b>> \in before
  BY <1>1, PoppedPairs, Zenon DEF Unmap
<1>4. SUFFICES ASSUME NEW a \in Pages, NEW b \in Pages PROVE OrderAt(a, b)'
  BY Zenon DEF OrderPairs
<1>5. /\ <<a, b>> \in before' <=> a \notin P /\ b \notin P /\ <<a, b>> \in before
      /\ <<b, a>> \in before' <=> b \notin P /\ a \notin P /\ <<b, a>> \in before
  BY <1>3, Zenon
<1>6. /\ p2b'[a] = IF a \in P THEN NoBlock ELSE p2b[a]
      /\ p2b'[b] = IF b \in P THEN NoBlock ELSE p2b[b]
  BY <1>2, Zenon
<1>7. OrderAt(a, b)
  BY Zenon DEF OrderPairs
<1>8. QED
  BY <1>5, <1>6, <1>7, Zenon DEF OrderAt

\* Every step of the engine keeps the order total.
LEMMA OrderNext ==
  ASSUME EngineInv, OrderPairs, EngineNext
  PROVE  OrderPairs'
<1>1. CASE Alloc
  <2>1. PICK p \in todo :
          AllocMapped(p) \/ AllocFree(p) \/ AllocNext(p) \/ AllocEvict(p) \/ AllocFail(p)
    BY <1>1, Zenon DEF Alloc, RecallAlloc
  <2>2. QED
    BY <2>1, OrderTurn, Zenon
<1>2. CASE \E P \in SUBSET Pages : Release(P)
  <2>1. PICK P \in SUBSET Pages : Unmap(P \cap Mapped)
    BY <1>2, Zenon DEF Release, ReleaseReqPoolLocs
  <2>2. P \cap Mapped \in SUBSET Pages
    OBVIOUS
  <2>3. QED
    BY <2>1, <2>2, OrderUnmap, Zenon
<1>3. CASE \E V \in SUBSET PoolIdx : ReleaseOwned(V)
  <2>1. PICK V \in SUBSET PoolIdx : Unmap(UNION {owned[i] : i \in V})
    BY <1>3, Zenon DEF ReleaseOwned, ReleaseOwnedPages
  <2>2. UNION {owned[i] : i \in V} \in SUBSET Pages
    BY DEF EngineInv, EngineTypeOK
  <2>3. QED
    BY <2>1, <2>2, OrderUnmap, Zenon
<1>4. CASE UNCHANGED <<p2b, before>>
  BY <1>4, Zenon DEF OrderPairs, OrderAt
<1>5. QED
  BY <1>1, <1>2, <1>3, <1>4, Zenon
     DEF EngineNext, Land, Admit, Start, Guard, Copy, Scatter, Raised, Store, allocVars

\* The eviction scan always has one well defined oldest page to start from.
THEOREM LruOrderIsTotal == EngineSpec => []LruOrderTotal
<1>1. EngineInit => OrderPairs
  BY Zenon DEF EngineInit, OrderPairs, OrderAt
<1>2. EngineInv /\ OrderPairs /\ [EngineNext]_engineVars => OrderPairs'
  <2>1. ASSUME OrderPairs, UNCHANGED engineVars PROVE OrderPairs'
    BY <2>1, Zenon DEF OrderPairs, OrderAt, engineVars
  <2>2. QED
    BY <2>1, OrderNext, Zenon
<1>3. EngineInv /\ OrderPairs => LruOrderTotal
  <2> SUFFICES ASSUME EngineInv, OrderPairs PROVE LruOrderTotal
    OBVIOUS
  <2>1. before \subseteq Pages \X Pages
    BY Zenon DEF EngineInv, EngineTypeOK
  <2>2. \A a, b : <<a, b>> \in before => a \in Mapped /\ b \in Mapped
    BY <2>1, OrderInside, Zenon
  <2>3. before \subseteq Mapped \X Mapped
    <3> SUFFICES ASSUME NEW e \in before PROVE e \in Mapped \X Mapped
      OBVIOUS
    <3>1. e = <<e[1], e[2]>>
      BY <2>1
    <3>2. e[1] \in Mapped /\ e[2] \in Mapped
      BY <2>2, <3>1, Zenon
    <3>3. QED
      BY <3>1, <3>2, Zenon
  <2>4. \A p, q \in Mapped : OrderAt(p, q) /\ p2b[p] # NoBlock /\ p2b[q] # NoBlock
    BY Zenon DEF OrderPairs, Mapped
  <2>5. \A p, q \in Mapped : p # q => (<<p, q>> \in before <=> <<q, p>> \notin before)
    BY <2>4, Zenon DEF OrderAt
  <2>6. \A p \in Mapped : <<p, p>> \notin before
    BY <2>4, Zenon DEF OrderAt
  <2>7. QED
    BY <2>3, <2>5, <2>6, Zenon DEF LruOrderTotal
<1>4. QED
  BY <1>1, <1>2, <1>3, EngineInvariant, PTL DEF EngineSpec
=============================================================================
