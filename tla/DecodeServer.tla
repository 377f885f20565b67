---------------------------- MODULE DecodeServer ----------------------------
(***************************************************************************)
(* The decode server around the swap engine: the scheduler's event loop,   *)
(* the resident-mask capturer with its per-row buffers, and the side-band  *)
(* recall thread (resident_mask_capturer.py, disaggregation/decode.py).    *)
(*                                                                         *)
(* The scheduler thread repeats: admit transferred requests, merge them    *)
(* into the running batch, on_forward_begin, the forward (store the chunks *)
(* just formed, translate the selected chunk locs to reserve cells, read   *)
(* those cells), on_forward_end, results.  Every Interval steps of a       *)
(* request on_forward_end hands its row to a background thread that        *)
(* selects pages, recalls them and publishes the row's resident count.     *)
(* The thread runs between any two steps of the scheduler, which waits for *)
(* it only when the batch changed or another cycle is due.                 *)
(*                                                                         *)
(* Lengths are in c4 chunks: a forward forms a chunk for any subset of its *)
(* rows (every fourth token in the code).                                  *)
(***************************************************************************)
EXTENDS SwapEngineP, Sequences, Functions

CONSTANTS PrefillLen,    \* c4 chunks each request arrives with
          KMax,          \* SGLANG_PATHP_PAGE_KMAX
          LastKeep,      \* last_keep: the recency tail, in chunks
          Interval,      \* the cycle interval, in decode steps
          Async,         \* gate SGLANG_PATHP_ASYNC_RECALL
          NoRowRelease,  \* gate SGLANG_PATHP_NO_ROW_RELEASE
          SafeRelease,   \* gate SGLANG_PATHP_SAFE_RELEASE
          MaxRunning,    \* rows of the running batch
          FirstSlots,    \* the initial free_slots list
          NoIdx          \* the pool index of a request that has none

ASSUME ServerAssumption ==
  /\ PrefillLen \in [Reqs -> 1 .. MaxChunks]
  /\ KMax \in Nat \ {0}
  /\ LastKeep \in Nat
  /\ Interval \in Nat \ {0}
  /\ Async \in BOOLEAN
  /\ NoRowRelease \in BOOLEAN
  /\ SafeRelease \in BOOLEAN
  /\ MaxRunning \in Nat \ {0}
  /\ FirstSlots \in Seq(PoolIdx)
  /\ NoIdx \notin PoolIdx

VARIABLES
  phase,      \* where a request is: new, prealloc, landed, waiting, running, done
  kv,         \* its pages in order (req_to_token)
  len,        \* its c4 chunks so far
  idx,        \* its req_pool_idx
  freeSlots,  \* free_slots of DecodeReqToTokenPool
  batch,      \* the running batch, by row
  mpc,        \* where the scheduler thread is
  forming,    \* rows whose new chunk this forward still has to store
  reads,      \* what this forward translated and is about to read
  occ,        \* _prev_row_occupant
  count,      \* resident_count_buf, as count > 0
  ploc,       \* resident_pool_loc_buf
  meta,       \* the counts resident_dg_meta was built from
  reqStep,    \* _req_step, modulo Interval (all that is ever read of it)
  pending,    \* the rows of _pending_count
  tpc,        \* where the side-band thread is
  snap        \* the snapshot it works on

schedVars == <<phase, kv, len, idx, freeSlots, batch>>
rowVars == <<occ, count, ploc, meta, reqStep, pending>>
threadVars == <<tpc, snap>>
vars == <<engineVars, schedVars, mpc, forming, reads, rowVars, threadVars>>

-----------------------------------------------------------------------------
RowIds == 1 .. MaxRunning

\* Chunk j (from 0) of a request whose pages are ps.
ChunkAt(ps, j) == <<ps[j \div PS + 1], j % PS>>
ChunksOf(r) == {ChunkAt(kv[r], j) : j \in 0 .. len[r] - 1}
PagesFor(n) == (n + PS - 1) \div PS
Held(r) == IF phase[r] \in {"prealloc", "landed", "waiting", "running"} THEN Range(kv[r]) ELSE {}
FreePages == Pages \ UNION {Held(r) : r \in Reqs}
RowsNow == 1 .. Len(batch)
ReqIds == [k \in RowsNow |-> idx[batch[k]]]
Running(r) == phase[r] = "running"

ServerInit ==
  /\ EngineInit
  /\ phase = [r \in Reqs |-> "new"]
  /\ kv = [r \in Reqs |-> <<>>]
  /\ len = [r \in Reqs |-> 0]
  /\ idx = [r \in Reqs |-> NoIdx]
  /\ freeSlots = FirstSlots
  /\ batch = <<>>
  /\ mpc = "queue"
  /\ forming = {}
  /\ reads = {}
  /\ occ = <<>>
  /\ count = [k \in RowIds |-> FALSE]
  /\ ploc = [k \in RowIds |-> {}]
  /\ meta = count
  /\ reqStep = [i \in PoolIdx |-> 0]
  /\ pending = {}
  /\ tpc = "none"
  /\ snap = {}

-----------------------------------------------------------------------------
(* process_decode_queue and the merge into the running batch.              *)

\* _pre_alloc: a slot from the front of the list and pages from the pool.
Prealloc(r) ==
  /\ mpc = "queue"
  /\ phase[r] = "new"
  /\ freeSlots # <<>>
  /\ \E ps \in [1 .. PagesFor(PrefillLen[r]) -> FreePages] :
       /\ IsInjective(ps)
       /\ kv' = [kv EXCEPT ![r] = ps]
  /\ len' = [len EXCEPT ![r] = PrefillLen[r]]
  /\ idx' = [idx EXCEPT ![r] = Head(freeSlots)]
  /\ freeSlots' = Tail(freeSlots)
  /\ phase' = [phase EXCEPT ![r] = "prealloc"]
  /\ UNCHANGED <<engineVars, batch, mpc, forming, reads, rowVars, threadVars>>

\* The transfer lands in the mirror, whatever the decode server is doing.
TransferLands(r) ==
  /\ phase[r] = "prealloc"
  /\ Land(r, Range(kv[r]), ChunksOf(r))
  /\ phase' = [phase EXCEPT ![r] = "landed"]
  /\ UNCHANGED <<kv, len, idx, freeSlots, batch, mpc, forming, reads, rowVars, threadVars>>

\* _commit_transfer_to_req.
Commit(r) ==
  /\ mpc = "queue"
  /\ phase[r] = "landed"
  /\ Admit(idx[r], Range(kv[r]), PrefillLen[r])
  /\ phase' = [phase EXCEPT ![r] = "waiting"]
  /\ UNCHANGED <<kv, len, idx, freeSlots, batch, mpc, forming, reads, rowVars, threadVars>>

\* The prebuilt batch of waiting requests joins the running batch.
Merge(r) ==
  /\ mpc = "queue"
  /\ Len(batch) < MaxRunning
  /\ phase[r] = "waiting"
  /\ batch' = Append(batch, r)
  /\ phase' = [phase EXCEPT ![r] = "running"]
  /\ UNCHANGED <<engineVars, kv, len, idx, freeSlots, mpc, forming, reads, rowVars, threadVars>>

-----------------------------------------------------------------------------
(* prepare_for_decode and on_forward_begin.                                *)

\* The rows F form a chunk in this step; a row that enters a new page gets one.
NeedsPage(r) == len[r] % PS = 0

PrepareForDecode(F) ==
  /\ \A r \in F : len[r] < MaxChunks
  /\ \E f \in [{r \in F : NeedsPage(r)} -> FreePages] :
       /\ IsInjective(f)
       /\ kv' = [r \in Reqs |-> IF r \in DOMAIN f THEN Append(kv[r], f[r]) ELSE kv[r]]
  /\ len' = [r \in Reqs |-> IF r \in F THEN len[r] + 1 ELSE len[r]]
  /\ forming' = F
  /\ UNCHANGED <<phase, idx, freeSlots, batch>>

\* Mutant of ChangedRows: only rows the batch grew by.
GrownRows == {k \in RowsNow : k > Len(occ)}

\* Rows whose occupant is not the one of the last step, and rows past the batch.
ChangedRows == {k \in RowsNow : k > Len(occ) \/ occ[k] # ReqIds[k]}
TailRows == {k \in RowIds : k > Len(batch)}
RowLocs(K) == UNION {ploc[k] : k \in K}

\* The chunk locs that _reset_changed_rows releases when releases go by rows.
\* SAFE_RELEASE subtracts what the buffers of the rows of the batch hold.
RowReleased ==
  IF SafeRelease
  THEN RowLocs(TailRows \cup ChangedRows) \ RowLocs(RowsNow)
  ELSE RowLocs(TailRows \cup ChangedRows)

\* Mutant of ReleaseAtBegin: releases every request of the last step.
ReleaseAllAtBegin ==
  IF OwnerRelease
  THEN ReleaseOwned(Range(occ))
  ELSE IF NoRowRelease
  THEN UNCHANGED engineVars
  ELSE Release({c[1] : c \in RowReleased})

ReleaseAtBegin ==
  IF OwnerRelease
  THEN ReleaseOwned(Range(occ) \ Range(ReqIds))
  ELSE IF NoRowRelease
  THEN UNCHANGED engineVars
  ELSE Release({c[1] : c \in RowReleased})

\* Mutants of ResetRows: rows past the batch are left alone; the schedule is
\* not rebuilt.
ResetChangedOnly ==
  /\ count' = [k \in RowIds |-> IF k \in ChangedRows THEN FALSE ELSE count[k]]
  /\ ploc' = [k \in RowIds |-> IF k \in ChangedRows THEN {} ELSE ploc[k]]
  /\ meta' = count'
  /\ reqStep' = [i \in PoolIdx |->
                   IF \E k \in ChangedRows : ReqIds[k] = i THEN 0 ELSE reqStep[i]]
  /\ pending' = pending \ ChangedRows
  /\ occ' = ReqIds

ResetRowsNoMeta ==
  LET reset == ChangedRows \cup TailRows
  IN /\ count' = [k \in RowIds |-> IF k \in reset THEN FALSE ELSE count[k]]
     /\ ploc' = [k \in RowIds |-> IF k \in reset THEN {} ELSE ploc[k]]
     /\ meta' = meta
     /\ reqStep' = [i \in PoolIdx |->
                      IF \E k \in ChangedRows : ReqIds[k] = i THEN 0 ELSE reqStep[i]]
     /\ pending' = pending \ ChangedRows
     /\ occ' = ReqIds

\* _reset_changed_rows.
ResetRows ==
  LET reset == ChangedRows \cup TailRows
  IN /\ count' = [k \in RowIds |-> IF k \in reset THEN FALSE ELSE count[k]]
     /\ ploc' = [k \in RowIds |-> IF k \in reset THEN {} ELSE ploc[k]]
     /\ meta' = count'
     /\ reqStep' = [i \in PoolIdx |->
                      IF \E k \in ChangedRows : ReqIds[k] = i THEN 0 ELSE reqStep[i]]
     /\ pending' = pending \ ChangedRows
     /\ occ' = ReqIds

\* A decode step runs once no waiting request can be merged any more.
ReadyToDecode ==
  /\ mpc = "queue"
  /\ batch # <<>>
  /\ Len(batch) = MaxRunning \/ \A r \in Reqs : phase[r] # "waiting"

\* The fast path: the same pool indices in the same rows as last step.
BeginSame(F) ==
  /\ ReadyToDecode
  /\ ReqIds = occ
  /\ PrepareForDecode(F)
  /\ mpc' = "store"
  /\ UNCHANGED <<engineVars, reads, rowVars, threadVars>>

\* Mutant of BeginChanged: the side-band thread is not joined.
BeginChangedNoJoin(F) ==
  /\ ReadyToDecode
  /\ ReqIds # occ
  /\ ReleaseAtBegin
  /\ ResetRows
  /\ PrepareForDecode(F)
  /\ mpc' = "store"
  /\ UNCHANGED <<reads, threadVars>>

\* The batch changed: join the side-band thread, release, reset.
BeginChanged(F) ==
  /\ ReadyToDecode
  /\ ReqIds # occ
  /\ tpc = "none"
  /\ ReleaseAtBegin
  /\ ResetRows
  /\ PrepareForDecode(F)
  /\ mpc' = "store"
  /\ UNCHANGED <<reads, threadVars>>

-----------------------------------------------------------------------------
(* The forward.                                                            *)

StoreRow(r) ==
  /\ mpc = "store"
  /\ r \in forming
  /\ Store([idx |-> idx[r], chunk |-> ChunkAt(kv[r], len[r] - 1), req |-> r, n |-> len[r]])
  /\ forming' = forming \ {r}
  /\ UNCHANGED <<schedVars, mpc, reads, rowVars, threadVars>>

\* The score-resident indexer picks among the locs of a row with a published
\* count; remap_compressed_locs turns them into cells.  All of them are taken.
Remap ==
  /\ mpc = "store"
  /\ forming = {}
  /\ reads' = UNION {{[row |-> k, chunk |-> c, cell |-> lut[c]] :
                         c \in {d \in ploc[k] : lut[d] # NoCell}} :
                      k \in {i \in RowsNow : count[i]}}
  /\ mpc' = "read"
  /\ UNCHANGED <<engineVars, schedVars, forming, rowVars, threadVars>>

ReadDone ==
  /\ mpc = "read"
  /\ reads' = {}
  /\ mpc' = "end"
  /\ UNCHANGED <<engineVars, schedVars, forming, rowVars, threadVars>>

-----------------------------------------------------------------------------
(* on_forward_end and the results.                                         *)

Due == {k \in RowsNow : reqStep[ReqIds[k]] = 0}

AdvanceSteps ==
  reqStep' = [i \in PoolIdx |-> IF i \in Range(ReqIds)
                                THEN (reqStep[i] + 1) % Interval ELSE reqStep[i]]

EndQuiet ==
  /\ mpc = "end"
  /\ Due = {}
  /\ AdvanceSteps
  /\ mpc' = "result"
  /\ UNCHANGED <<engineVars, schedVars, forming, reads, occ, count, ploc, meta, pending, threadVars>>

\* A cycle is due: join the previous thread, snapshot the rows, start the next.
EndDue ==
  /\ mpc = "end"
  /\ Due # {}
  /\ tpc = "none"
  /\ AdvanceSteps
  /\ snap' = {[row |-> k, idx |-> ReqIds[k], pages |-> kv[batch[k]], n |-> len[batch[k]]] :
               k \in Due}
  /\ tpc' = "select"
  /\ mpc' = IF Async THEN "result" ELSE "inline"
  /\ UNCHANGED <<engineVars, schedVars, forming, reads, occ, count, ploc, meta, pending>>

\* Without ASYNC_RECALL the side-band runs inside on_forward_end.
EndInline ==
  /\ mpc = "inline"
  /\ tpc = "none"
  /\ mpc' = "result"
  /\ UNCHANGED <<engineVars, schedVars, forming, reads, rowVars, threadVars>>

\* The rows K, in order (keep_indices).
RowLists(K) ==
  UNION {{f \in [1 .. n -> K] : Range(f) = K /\ \A i, j \in 1 .. n : i < j => f[i] < f[j]} :
           n \in 0 .. Len(batch)}

\* The requests Fin finish: their pages and slots are freed and filter_batch
\* compacts the rows.
Result(Fin) ==
  /\ mpc = "result"
  /\ \E gone \in RowLists({k \in RowsNow : batch[k] \in Fin}) :
       freeSlots' = freeSlots \o [k \in DOMAIN gone |-> idx[batch[gone[k]]]]
  /\ \E stay \in RowLists({k \in RowsNow : batch[k] \notin Fin}) :
       batch' = [k \in DOMAIN stay |-> batch[stay[k]]]
  /\ phase' = [r \in Reqs |-> IF r \in Fin THEN "done" ELSE phase[r]]
  /\ mpc' = "queue"
  /\ UNCHANGED <<engineVars, kv, len, idx, forming, reads, rowVars, threadVars>>

-----------------------------------------------------------------------------
(* The side-band thread: _sideband_work.                                   *)

\* _select_resident_pages picks K logical pages of s: the recency tail first,
\* the rest by score, which may favour any page.
TailPages(s) ==
  LET first == (IF s.n > LastKeep THEN s.n - LastKeep ELSE 0) \div PS + 1
  IN first .. PagesFor(s.n)

Selections(s) ==
  LET K == IF KMax < PagesFor(s.n) THEN KMax ELSE PagesFor(s.n)
  IN {L \in SUBSET (1 .. PagesFor(s.n)) :
        /\ Cardinality(L) = K
        /\ L \subseteq TailPages(s) \/ TailPages(s) \subseteq L}

SelectedChunks(s, L) ==
  {ChunkAt(s.pages, j) : j \in {j \in 0 .. s.n - 1 : j \div PS + 1 \in L}}

\* Mutant of RecalledPages: the page with the prefill boundary is left out.
RecalledPagesShort(s, L) ==
  {s.pages[l] : l \in {l \in L : prefillChunks[s.idx] < 0 \/ l * PS <= prefillChunks[s.idx]}}

\* _scatter_logical_keep: decode-range chunks are not recalled from the mirror.
RecalledPages(s, L) ==
  {s.pages[l] : l \in {l \in L : prefillChunks[s.idx] < 0 \/ (l - 1) * PS < prefillChunks[s.idx]}}

Select ==
  /\ tpc = "select"
  /\ \E L \in [snap -> SUBSET (1 .. PagesFor(MaxChunks))] :
       /\ \A s \in snap : L[s] \in Selections(s)
       /\ ploc' = [k \in RowIds |->
                     IF \E s \in snap : s.row = k
                     THEN LET s == CHOOSE s \in snap : s.row = k IN SelectedChunks(s, L[s])
                     ELSE ploc[k]]
       /\ LET own == [i \in PoolIdx |->
                        UNION {RecalledPages(s, L[s]) : s \in {s \in snap : s.idx = i}}]
          IN Start(own, UNION {own[i] : i \in PoolIdx})
  /\ pending' = pending \cup {s.row : s \in snap}
  /\ tpc' = "recall"
  /\ UNCHANGED <<schedVars, mpc, forming, reads, occ, count, meta, reqStep, snap>>

Recall ==
  /\ tpc = "recall"
  /\ Alloc \/ Guard \/ Copy \/ Scatter
  /\ UNCHANGED <<schedVars, mpc, forming, reads, rowVars, threadVars>>

\* Mutants of Publish: published before the recall has finished; the staged
\* counts are cleared first.
PublishEarly ==
  /\ tpc = "recall"
  /\ rpc # "failed"
  /\ count' = [k \in RowIds |-> count[k] \/ k \in pending]
  /\ pending' = {}
  /\ tpc' = "meta"
  /\ UNCHANGED <<engineVars, schedVars, mpc, forming, reads, occ, ploc, meta, reqStep, snap>>

PublishCleared ==
  /\ tpc = "recall"
  /\ rpc = "idle"
  /\ pending' = {}
  /\ tpc' = "meta"
  /\ UNCHANGED <<engineVars, schedVars, mpc, forming, reads, occ, count, ploc, meta, reqStep, snap>>

\* _publish_pending_counts, once the recall has returned.
Publish ==
  /\ tpc = "recall"
  /\ rpc = "idle"
  /\ count' = [k \in RowIds |-> count[k] \/ k \in pending]
  /\ pending' = {}
  /\ tpc' = "meta"
  /\ UNCHANGED <<engineVars, schedVars, mpc, forming, reads, occ, ploc, meta, reqStep, snap>>

\* _rebuild_resident_dg_meta, last: the score kernel's schedule for the counts.
RebuildMeta ==
  /\ tpc = "meta"
  /\ meta' = count
  /\ tpc' = "none"
  /\ snap' = {}
  /\ UNCHANGED <<engineVars, schedVars, mpc, forming, reads, occ, count, ploc, reqStep, pending>>

\* The recall raised: the thread's handler swallows it, an inline side-band
\* takes the scheduler down.  The staged counts stay staged.
SidebandFails ==
  /\ tpc = "recall"
  /\ Raised
  /\ tpc' = "none"
  /\ snap' = {}
  /\ mpc' = IF Async THEN mpc ELSE "crashed"
  /\ UNCHANGED <<schedVars, forming, reads, rowVars>>

-----------------------------------------------------------------------------
\* Every request of the workload is done, or the server has crashed.
Idle ==
  /\ mpc = "crashed" \/ \A r \in Reqs : phase[r] = "done"
  /\ UNCHANGED vars

Scheduler ==
  \/ \E r \in Reqs : Prealloc(r) \/ Commit(r) \/ Merge(r) \/ StoreRow(r)
  \/ \E F \in SUBSET Range(batch) : BeginSame(F) \/ BeginChanged(F) \/ Result(F)
  \/ Remap \/ ReadDone \/ EndQuiet \/ EndDue \/ EndInline

Sideband == Select \/ Recall \/ Publish \/ RebuildMeta \/ SidebandFails

Next ==
  \/ Scheduler
  \/ Sideband
  \/ \E r \in Reqs : TransferLands(r)
  \/ Idle

Spec == ServerInit /\ [][Next]_vars

\* The event loop never stops iterating and the side-band thread, once
\* started, is scheduled.
FairSpec == Spec /\ WF_vars(Scheduler) /\ WF_vars(Sideband)

-----------------------------------------------------------------------------
(* Properties.                                                             *)

\* Every variable has its type.
TypeOK ==
  /\ EngineTypeOK
  /\ phase \in [Reqs -> {"new", "prealloc", "landed", "waiting", "running", "done"}]
  /\ \A r \in Reqs : Range(kv[r]) \subseteq Pages
  /\ len \in [Reqs -> 0 .. MaxChunks]
  /\ idx \in [Reqs -> PoolIdx \cup {NoIdx}]
  /\ Range(freeSlots) \subseteq PoolIdx
  /\ Range(batch) \subseteq Reqs
  /\ mpc \in {"queue", "store", "read", "end", "inline", "result", "crashed"}
  /\ forming \subseteq Reqs
  /\ reads \subseteq [row : RowIds, chunk : Chunks, cell : Cells]
  /\ Range(occ) \subseteq PoolIdx
  /\ count \in [RowIds -> BOOLEAN]
  /\ ploc \in [RowIds -> SUBSET Chunks]
  /\ meta \in [RowIds -> BOOLEAN]
  /\ reqStep \in [PoolIdx -> 0 .. Interval - 1]
  /\ pending \subseteq RowIds
  /\ tpc \in {"none", "select", "recall", "meta"}
  /\ \A s \in snap : s.row \in RowIds /\ s.idx \in PoolIdx /\ s.n \in 1 .. MaxChunks

\* Attention reads, for every row, only bytes that the request in that row
\* produced for the chunk it selected: no other request's KV, no mirror zeros,
\* no cell that was handed to another page between translation and read.
ReadsOwnKV ==
  mpc = "read" => \A e \in reads : reserve[e.cell] = <<batch[e.row], e.chunk>>

\* A published row describes its occupant: the in-graph indexer never scores
\* the chunks of a request that left the row.
PublishedRowIsOccupants ==
  mpc \in {"store", "read"} =>
    \A k \in RowsNow : count[k] => ploc[k] \subseteq ChunksOf(batch[k])

\* No row past the batch has a count while a forward runs (the score kernel's
\* schedule covers all rows and would read out of bounds).
NoPhantomRow ==
  mpc \in {"store", "read"} => \A k \in TailRows : ~count[k]

\* A forward never runs the persistent score kernel with a schedule that was
\* built from other counts than the ones it reads: it would wait for ever.
MetaMatchesCount ==
  mpc \in {"store", "read"} => meta = count

\* A chunk a running request decoded is read from the decode region or not at
\* all: a recall never redirects it to a mirror copy, which has no bytes for it.
DecodedChunksStayInDecodeRegion ==
  \A r \in Reqs : Running(r) =>
    \A j \in PrefillLen[r] .. len[r] - 1 :
      r \notin forming => ~IsRecallCell(lut[ChunkAt(kv[r], j)])

\* on_forward_begin never takes residency from a request that stays in the batch.
LiveRequestsKeepTheirLut ==
  [][mpc = "queue" /\ mpc' = "store" =>
       \A r \in Range(batch) : occ # <<>> /\ idx[r] \in Range(occ) =>
         \A c \in ChunksOf(r) : lut'[c] = lut[c]]_vars

\* When a cycle publishes a row, every prefill chunk the row may select is
\* resident: the mask and the reserve are in lock-step.
PublishedChunksAreResident ==
  [][tpc = "recall" /\ tpc' = "meta" =>
       \A s \in snap : s.row \in RowsNow /\ ReqIds[s.row] = s.idx /\ kv[batch[s.row]] = s.pages =>
         \A j \in 0 .. PrefillLen[batch[s.row]] - 1 :
           ChunkAt(s.pages, j) \in ploc[s.row] => lut[ChunkAt(s.pages, j)] # NoCell]_vars

\* The scheduler, the capturer and the side-band thread together use the engine
\* as its contract says: one recall at a time, no release while one is in
\* flight, every step of theirs a step of EngineSpec or none.
UsesEngineByContract == EngineSpec

\* Every request that enters the batch is given a resident set of its own, or
\* finishes first: compaction, churn and a busy thread delay it, no more.
RunningRequestsGetPublished ==
  \A r \in Reqs : Running(r) ~> (phase[r] = "done" \/ \E k \in RowsNow : batch[k] = r /\ count[k])

=============================================================================
