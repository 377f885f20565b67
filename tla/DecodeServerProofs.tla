-------------------------- MODULE DecodeServerProofs --------------------------
(***************************************************************************)
(* The decode server uses the swap engine as its contract says, for any    *)
(* number of requests, rows, pages and blocks and for every setting of the *)
(* gates, so the engine's theorems hold in the server; the types of its    *)
(* buffers, the schedule built from the counts, rows past the batch, and   *)
(* the slots of the request pool.                                          *)
(***************************************************************************)
EXTENDS DecodeServer, SwapEnginePProofs

-----------------------------------------------------------------------------
(* The inductive invariant.                                                *)

\* A request's pages hold its chunks; past admission it has a pool index.
RequestsOK ==
  /\ phase \in [Reqs -> {"new", "prealloc", "landed", "waiting", "running", "done"}]
  /\ kv \in [Reqs -> Seq(Pages)] /\ len \in [Reqs -> 0 .. MaxChunks]
  /\ idx \in [Reqs -> PoolIdx \cup {NoIdx}]
  /\ \A r \in Reqs : /\ len[r] <= PS * Len(kv[r])
                     /\ phase[r] # "new" => idx[r] \in PoolIdx /\ len[r] >= 1

\* The batch, and what is derived from it for the rows.
RowsOK ==
  /\ freeSlots \in Seq(PoolIdx)
  /\ batch \in Seq(Reqs) /\ Len(batch) <= MaxRunning
  /\ \A k \in RowsNow : phase[batch[k]] # "new"
  /\ forming \subseteq Reqs /\ \A r \in forming : phase[r] # "new"
  /\ occ \in Seq(PoolIdx)
  /\ ploc \in [RowIds -> SUBSET Chunks]

\* What the side-band thread was handed.
SnapOK ==
  \A s \in snap : /\ s.idx \in PoolIdx /\ s.row \in RowIds
                  /\ s.n \in 1 .. MaxChunks /\ s.pages \in Seq(Pages)
                  /\ s.n <= PS * Len(s.pages)

\* A recall is in flight only while the thread is in its recall.
OneRecall == tpc # "recall" => rpc = "idle"

ServerInv == RequestsOK /\ RowsOK /\ SnapOK /\ OneRecall

-----------------------------------------------------------------------------
(* Facts about the operators.                                              *)

\* Division by the page size.
LEMMA PageDiv ==
  ASSUME NEW n \in Int
  PROVE  n \div PS \in Int /\ PS * (n \div PS) <= n /\ n < PS * (n \div PS) + PS
BY SizesAssumption

\* Chunk j of a request is in the first m pages if they hold more than j chunks.
LEMMA PageOfChunk ==
  ASSUME NEW j \in Nat, NEW m \in Nat, j < PS * m
  PROVE  j \div PS + 1 \in 1 .. m /\ j % PS \in Offs
<1> DEFINE d == j \div PS
<1>1. d \in Int /\ PS * d <= j /\ j < PS * d + PS
  BY PageDiv
<1>2. j % PS \in Offs
  BY SizesAssumption DEF Offs
<1> HIDE DEF d
<1>3. PS * d < PS * m /\ 0 < PS * (d + 1)
  BY <1>1, SizesAssumption
<1>4. d < m /\ 0 < d + 1
  BY <1>1, <1>3, SizesAssumption
<1> QED
  BY <1>1, <1>2, <1>4 DEF d

\* The chunks of a request are in its pages.
LEMMA ChunkAtFacts ==
  ASSUME NEW ps \in Seq(Pages), NEW j \in Nat, j < PS * Len(ps)
  PROVE  ChunkAt(ps, j) \in Chunks /\ ChunkAt(ps, j) \in Range(ps) \X Offs
<1>1. Len(ps) \in Nat /\ \A i \in 1 .. Len(ps) : ps[i] \in Pages /\ ps[i] \in Range(ps)
  BY DEF Range
<1>2. j \div PS + 1 \in 1 .. Len(ps) /\ j % PS \in Offs
  BY <1>1, PageOfChunk, Zenon
<1> QED
  BY <1>1, <1>2, Zenon DEF ChunkAt, Chunks

\* Pages enough for n chunks, and no more than needed.
LEMMA PagesForFacts ==
  ASSUME NEW n \in Nat
  PROVE  /\ PagesFor(n) \in Nat /\ n <= PS * PagesFor(n)
         /\ \A m \in Nat : n <= PS * m => PagesFor(n) <= m
<1> DEFINE d == (n + PS - 1) \div PS
<1>1. d \in Int /\ PS * d <= n + PS - 1 /\ n + PS - 1 < PS * d + PS
  BY PageDiv, SizesAssumption
<1>2. PagesFor(n) = d
  BY Zenon DEF PagesFor
<1> HIDE DEF d
<1>3. 0 < PS * (d + 1)
  BY <1>1, SizesAssumption
<1>4. 0 < d + 1
  BY <1>1, <1>3, SizesAssumption
<1>5. ASSUME NEW m \in Nat, n <= PS * m PROVE d <= m
  <2>1. PS * d < PS * (m + 1)
    BY <1>1, <1>5, SizesAssumption
  <2>2. d < m + 1
    BY <1>1, <2>1, SizesAssumption
  <2> QED
    BY <1>1, <2>2
<1> QED
  BY <1>1, <1>2, <1>4, <1>5, SizesAssumption

\* A request that does not start a page has room for one more chunk in it.
LEMMA RoomInPage ==
  ASSUME NEW n \in Nat, NEW m \in Nat, n <= PS * m, n % PS # 0
  PROVE  n + 1 <= PS * m
<1>1. n # PS * m
  <2> SUFFICES ASSUME n = PS * m PROVE FALSE
    OBVIOUS
  <2> DEFINE d == n \div PS
  <2>1. d \in Int /\ PS * d <= n /\ n < PS * d + PS /\ n % PS = n - PS * d
    BY PageDiv, SizesAssumption
  <2> HIDE DEF d
  <2>2. PS * d <= PS * m /\ PS * m < PS * (d + 1)
    BY <2>1, SizesAssumption
  <2>3. d <= m /\ m < d + 1
    BY <2>1, <2>2, SizesAssumption
  <2> QED
    BY <2>1, <2>3, SizesAssumption
<1> QED
  BY <1>1, SizesAssumption

-----------------------------------------------------------------------------
(* Initial states, and steps that preserve the invariant.                  *)

\* The server starts with no requests, no rows and no thread.
LEMMA ServerInitInv == ServerInit => ServerInv
<1> SUFFICES ASSUME ServerInit PROVE ServerInv
  OBVIOUS
<1> USE SizesAssumption, ServerAssumption DEF ServerInit, EngineInit
<1>1. RequestsOK
  <2>1. kv \in [Reqs -> Seq(Pages)] /\ len \in [Reqs -> 0 .. MaxChunks]
    OBVIOUS
  <2>2. \A r \in Reqs : len[r] <= PS * Len(kv[r])
    OBVIOUS
  <2> QED
    BY <2>1, <2>2, Zenon DEF RequestsOK
<1>2. RowsOK
  BY DEF RowsOK, RowsNow
<1> QED
  BY <1>1, <1>2, Zenon DEF ServerInv, SnapOK, OneRecall

\* prepare_for_decode gives a page to every row that starts one.
LEMMA PrepareRequests ==
  ASSUME RequestsOK, RowsOK, NEW F \in SUBSET Range(batch), PrepareForDecode(F)
  PROVE  RequestsOK' /\ forming' \subseteq Reqs /\ \A r \in forming' : phase[r] # "new"
<1>1. PICK f \in [{r \in F : NeedsPage(r)} -> FreePages] :
        kv' = [r \in Reqs |-> IF r \in DOMAIN f THEN Append(kv[r], f[r]) ELSE kv[r]]
  BY Zenon DEF PrepareForDecode
<1>2. /\ \A r \in F : len[r] < MaxChunks
      /\ len' = [r \in Reqs |-> IF r \in F THEN len[r] + 1 ELSE len[r]]
      /\ forming' = F /\ UNCHANGED <<phase, idx>>
  BY Zenon DEF PrepareForDecode
<1>3. \A r \in F : r \in Reqs /\ phase[r] # "new"
  BY DEF RowsOK, Range, RowsNow
<1>4. \A r \in Reqs : len[r] \in 0 .. MaxChunks /\ kv[r] \in Seq(Pages) /\ Len(kv[r]) \in Nat
  BY DEF RequestsOK
<1>5. \A r \in DOMAIN f : r \in F /\ NeedsPage(r) /\ f[r] \in Pages
  BY <1>1, Zenon DEF FreePages
<1>6. \A r \in Reqs : r \in F /\ NeedsPage(r) => r \in DOMAIN f
  BY <1>1, Zenon
<1>7. len' \in [Reqs -> 0 .. MaxChunks]
  BY <1>2, <1>4, SizesAssumption
<1>8. kv' \in [Reqs -> Seq(Pages)]
  BY <1>1, <1>4, <1>5
<1>9. ASSUME NEW r \in Reqs PROVE len'[r] <= PS * Len(kv'[r]) /\ len'[r] >= len[r]
  <2>1. len[r] <= PS * Len(kv[r])
    BY Zenon DEF RequestsOK
  <2>2. CASE r \in DOMAIN f
    <3>1. Len(kv'[r]) = Len(kv[r]) + 1 /\ len'[r] = len[r] + 1
      BY <1>1, <1>2, <1>4, <1>5, <2>2
    <3>2. PS * (Len(kv[r]) + 1) >= PS * Len(kv[r]) + 1
      BY <1>4, SizesAssumption
    <3> QED
      BY <1>4, <2>1, <3>1, <3>2, SizesAssumption
  <2>3. CASE r \in F /\ r \notin DOMAIN f
    <3>1. kv'[r] = kv[r] /\ len'[r] = len[r] + 1 /\ len[r] % PS # 0
      BY <1>1, <1>2, <1>6, <2>3, Zenon DEF NeedsPage
    <3>2. len[r] + 1 <= PS * Len(kv[r])
      BY <1>4, <2>1, <3>1, RoomInPage
    <3> QED
      BY <1>4, <3>1, <3>2
  <2>4. CASE r \notin F
    BY <1>1, <1>2, <1>4, <1>5, <2>1, <2>4
  <2> QED
    BY <2>2, <2>3, <2>4, Zenon
<1>10. RequestsOK'
  <2>1. \A r \in Reqs : phase'[r] # "new" => idx'[r] \in PoolIdx /\ len'[r] >= 1
    BY <1>2, <1>4, <1>7, <1>9 DEF RequestsOK
  <2> QED
    BY <1>2, <1>7, <1>8, <1>9, <2>1, Zenon DEF RequestsOK
<1> QED
  BY <1>2, <1>3, <1>10, Zenon

\* Steps that change nobody's pages, length or pool index, and make no request new.
LEMMA RequestsKept ==
  ASSUME RequestsOK, UNCHANGED <<kv, len, idx>>,
         phase' \in [Reqs -> {"new", "prealloc", "landed", "waiting", "running", "done"}],
         \A r \in Reqs : phase[r] = "new" => phase'[r] = "new"
  PROVE  RequestsOK'
BY Zenon DEF RequestsOK

\* The requests, through every step: _pre_alloc gives a request its pages and
\* its pool index, and the page table grows with the request.
LEMMA RequestsStep ==
  ASSUME RequestsOK, RowsOK, [Next]_vars
  PROVE  RequestsOK'
<1>1. ASSUME NEW r \in Reqs, Prealloc(r) PROVE RequestsOK'
  <2> DEFINE n == PagesFor(PrefillLen[r])
  <2>1. PrefillLen[r] \in 1 .. MaxChunks /\ n \in Nat /\ PrefillLen[r] <= PS * n
    BY PagesForFacts, ServerAssumption, SizesAssumption
  <2>2. PICK ps \in [1 .. n -> FreePages] : kv' = [kv EXCEPT ![r] = ps]
    BY <1>1, Zenon DEF Prealloc
  <2> HIDE DEF n
  <2>3. ps \in Seq(Pages) /\ Len(ps) = n
    BY <2>1, <2>2 DEF FreePages
  <2>4. Head(freeSlots) \in PoolIdx
    BY <1>1 DEF Prealloc, RowsOK
  <2>5. /\ len' = [len EXCEPT ![r] = PrefillLen[r]] /\ idx' = [idx EXCEPT ![r] = Head(freeSlots)]
        /\ phase' = [phase EXCEPT ![r] = "prealloc"]
    BY <1>1, Zenon DEF Prealloc
  <2>6. kv' \in [Reqs -> Seq(Pages)] /\ len' \in [Reqs -> 0 .. MaxChunks]
    BY <2>1, <2>2, <2>3, <2>5, SizesAssumption DEF RequestsOK
  <2>7. /\ idx' \in [Reqs -> PoolIdx \cup {NoIdx}]
        /\ phase' \in [Reqs -> {"new", "prealloc", "landed", "waiting", "running", "done"}]
    BY <2>4, <2>5, Zenon DEF RequestsOK
  <2>8. ASSUME NEW q \in Reqs
        PROVE  /\ len'[q] <= PS * Len(kv'[q])
               /\ phase'[q] # "new" => idx'[q] \in PoolIdx /\ len'[q] >= 1
    <3>1. CASE q = r
      BY <2>1, <2>2, <2>3, <2>4, <2>5, <3>1 DEF RequestsOK
    <3>2. CASE q # r
      BY <2>2, <2>5, <3>2, Zenon DEF RequestsOK
    <3> QED
      BY <3>1, <3>2, Zenon
  <2> QED
    BY <2>6, <2>7, <2>8, Zenon DEF RequestsOK
<1>2. ASSUME NEW r \in Reqs, TransferLands(r) PROVE RequestsOK'
  BY <1>2, RequestsKept, Zenon DEF TransferLands, RequestsOK
<1>3. ASSUME NEW r \in Reqs, Commit(r) PROVE RequestsOK'
  BY <1>3, RequestsKept, Zenon DEF Commit, RequestsOK
<1>4. ASSUME NEW r \in Reqs, Merge(r) PROVE RequestsOK'
  BY <1>4, RequestsKept, Zenon DEF Merge, RequestsOK
<1>5. ASSUME NEW F \in SUBSET Range(batch), BeginSame(F) \/ BeginChanged(F) PROVE RequestsOK'
  BY <1>5, PrepareRequests, Zenon DEF BeginSame, BeginChanged
<1>6. ASSUME NEW F \in SUBSET Range(batch), Result(F) PROVE RequestsOK'
  <2>1. \A r \in F : r \in Reqs /\ phase[r] # "new"
    BY DEF RowsOK, Range, RowsNow
  <2> QED
    BY <1>6, <2>1, RequestsKept, Zenon DEF Result, RequestsOK
<1>7. CASE UNCHANGED schedVars
  BY <1>7, RequestsKept, Zenon DEF schedVars, RequestsOK
<1>8. ASSUME Remap \/ ReadDone \/ EndQuiet \/ EndDue \/ EndInline \/ Sideband \/ Idle \/ UNCHANGED vars
             \/ \E r \in Reqs : StoreRow(r)
      PROVE  UNCHANGED schedVars
  BY <1>8, Zenon DEF Remap, ReadDone, EndQuiet, EndDue, EndInline, Sideband, Select, Recall, Publish, RebuildMeta,
              SidebandFails, Idle, StoreRow, vars
<1> QED
  BY <1>1, <1>2, <1>3, <1>4, <1>5, <1>6, <1>7, <1>8, Zenon DEF Next, Scheduler

\* The pool indices of the rows (req_pool_indices).
LEMMA ReqIdsFacts ==
  ASSUME RequestsOK, RowsOK
  PROVE  ReqIds \in Seq(PoolIdx) /\ Len(ReqIds) = Len(batch)
<1>1. \A k \in RowsNow : idx[batch[k]] \in PoolIdx
  BY DEF RequestsOK, RowsOK, RowsNow
<1>2. Len(batch) \in Nat
  BY DEF RowsOK
<1> QED
  BY <1>1, <1>2 DEF ReqIds, RowsNow

\* Steps that leave the batch and its derived rows alone and make no request new.
LEMMA RowsKept ==
  ASSUME RowsOK, UNCHANGED <<freeSlots, batch, occ, ploc>>, forming' \subseteq forming,
         \A r \in Reqs : phase[r] # "new" => phase'[r] # "new"
  PROVE  RowsOK'
BY DEF RowsOK, RowsNow

\* filter_batch keeps rows of the batch, and frees slots of its requests.
LEMMA ResultRows ==
  ASSUME RequestsOK, RowsOK, NEW Fin \in SUBSET Range(batch), Result(Fin)
  PROVE  RowsOK'
<1>1. Len(batch) \in Nat /\ \A k \in RowsNow : batch[k] \in Reqs /\ idx[batch[k]] \in PoolIdx
  BY DEF RequestsOK, RowsOK, RowsNow
<1>2. PICK gone \in RowLists({k \in RowsNow : batch[k] \in Fin}) :
        freeSlots' = freeSlots \o [k \in DOMAIN gone |-> idx[batch[gone[k]]]]
  BY Zenon DEF Result
<1>3. PICK m \in 0 .. Len(batch) : gone \in [1 .. m -> {k \in RowsNow : batch[k] \in Fin}]
  BY <1>2, Zenon DEF RowLists
<1>4. freeSlots' \in Seq(PoolIdx)
  <2>1. [k \in DOMAIN gone |-> idx[batch[gone[k]]]] \in Seq(PoolIdx)
    BY <1>1, <1>3
  <2> QED
    BY <1>2, <2>1 DEF RowsOK
<1>5. PICK stay \in RowLists({k \in RowsNow : batch[k] \notin Fin}) :
        batch' = [k \in DOMAIN stay |-> batch[stay[k]]]
  BY Zenon DEF Result
<1>6. PICK n \in 0 .. Len(batch) : stay \in [1 .. n -> {k \in RowsNow : batch[k] \notin Fin}]
  BY <1>5, Zenon DEF RowLists
<1>7. batch' \in Seq(Reqs) /\ Len(batch') = n /\ n <= MaxRunning
  <2>1. n \in Nat /\ DOMAIN stay = 1 .. n /\ \A k \in 1 .. n : stay[k] \in RowsNow
    BY <1>1, <1>6
  <2>2. batch' = [k \in 1 .. n |-> batch[stay[k]]] /\ \A k \in 1 .. n : batch[stay[k]] \in Reqs
    BY <1>1, <1>5, <2>1, Zenon
  <2>3. batch' \in Seq(Reqs) /\ Len(batch') = n
    BY <2>1, <2>2
  <2>4. n <= MaxRunning
    BY <1>1, <1>6, ServerAssumption DEF RowsOK
  <2> QED
    BY <2>3, <2>4, Zenon
<1>8. phase' = [r \in Reqs |-> IF r \in Fin THEN "done" ELSE phase[r]] /\ UNCHANGED <<forming, occ, ploc>>
  BY Zenon DEF Result, rowVars
<1>9. \A k \in 1 .. n : phase'[batch'[k]] # "new"
  BY <1>1, <1>5, <1>6, <1>8, Zenon DEF RowsOK
<1>10. forming' \subseteq Reqs /\ \A r \in forming' : phase'[r] # "new"
  BY <1>8, Zenon DEF RowsOK
<1> QED
  BY <1>4, <1>7, <1>8, <1>9, <1>10, Zenon DEF RowsOK, RowsNow

\* The pages picked for a snapshot are among its pages, their chunks among its chunks.
LEMMA SelectedFacts ==
  ASSUME SnapOK, NEW s \in snap, NEW L
  PROVE  SelectedChunks(s, L) \subseteq Chunks
<1>1. s.n \in 1 .. MaxChunks /\ s.pages \in Seq(Pages) /\ s.n <= PS * Len(s.pages)
  BY Zenon DEF SnapOK
<1>2. ASSUME NEW j \in 0 .. s.n - 1 PROVE ChunkAt(s.pages, j) \in Chunks
  <2>1. j \in Nat /\ j < PS * Len(s.pages)
    BY <1>1, SizesAssumption
  <2> QED
    BY <1>1, <2>1, ChunkAtFacts, Zenon
<1> QED
  BY <1>2, Zenon DEF SelectedChunks

\* The rows, through every step.
LEMMA RowsStep ==
  ASSUME RequestsOK, RowsOK, SnapOK, [Next]_vars
  PROVE  RowsOK'
<1>1. ASSUME NEW r \in Reqs, Prealloc(r) PROVE RowsOK'
  <2>1. freeSlots' \in Seq(PoolIdx)
    BY <1>1 DEF Prealloc, RowsOK
  <2>2. UNCHANGED <<batch, occ, ploc, forming>> /\ \A q \in Reqs : phase[q] # "new" => phase'[q] # "new"
    BY <1>1, Zenon DEF Prealloc, rowVars, RequestsOK
  <2> QED
    BY <2>1, <2>2 DEF RowsOK, RowsNow
<1>2. ASSUME NEW r \in Reqs, TransferLands(r) PROVE RowsOK'
  BY <1>2, RowsKept, Zenon DEF TransferLands, rowVars, RequestsOK
<1>3. ASSUME NEW r \in Reqs, Commit(r) PROVE RowsOK'
  BY <1>3, RowsKept, Zenon DEF Commit, rowVars, RequestsOK
<1>4. ASSUME NEW r \in Reqs, Merge(r) PROVE RowsOK'
  <2>1. /\ Len(batch) < MaxRunning /\ batch' = Append(batch, r) /\ phase' = [phase EXCEPT ![r] = "running"]
        /\ UNCHANGED <<freeSlots, occ, ploc, forming>>
    BY <1>4, Zenon DEF Merge, rowVars
  <2>2. Len(batch) \in Nat /\ batch' \in Seq(Reqs) /\ Len(batch') = Len(batch) + 1
    BY <2>1 DEF RowsOK
  <2>3. \A k \in 1 .. Len(batch') : batch'[k] = IF k <= Len(batch) THEN batch[k] ELSE r
    BY <2>1, <2>2 DEF RowsOK
  <2>4. \A q \in Reqs : phase'[q] = "new" => phase[q] = "new" /\ q # r
    BY <2>1, Zenon DEF RequestsOK
  <2>5. \A k \in 1 .. Len(batch') : phase'[batch'[k]] # "new"
    BY <2>2, <2>3, <2>4 DEF RowsOK, RowsNow
  <2>6. Len(batch') <= MaxRunning
    BY <2>1, <2>2, ServerAssumption
  <2> QED
    BY <2>1, <2>2, <2>4, <2>5, <2>6, Zenon DEF RowsOK, RowsNow
<1>5. ASSUME NEW F \in SUBSET Range(batch), BeginSame(F) PROVE RowsOK'
  <2>1. forming' \subseteq Reqs /\ \A r \in forming' : phase[r] # "new"
    BY <1>5, PrepareRequests, Zenon DEF BeginSame
  <2> QED
    BY <1>5, <2>1, Zenon DEF BeginSame, PrepareForDecode, rowVars, RowsOK, RowsNow
<1>6. ASSUME NEW F \in SUBSET Range(batch), BeginChanged(F) PROVE RowsOK'
  <2>1. forming' \subseteq Reqs /\ \A r \in forming' : phase[r] # "new"
    BY <1>6, PrepareRequests, Zenon DEF BeginChanged
  <2>2. occ' \in Seq(PoolIdx) /\ ploc' \in [RowIds -> SUBSET Chunks]
    BY <1>6, ReqIdsFacts, Zenon DEF BeginChanged, ResetRows, RowsOK
  <2> QED
    BY <1>6, <2>1, <2>2, Zenon DEF BeginChanged, PrepareForDecode, RowsOK, RowsNow
<1>7. ASSUME NEW F \in SUBSET Range(batch), Result(F) PROVE RowsOK'
  BY <1>7, ResultRows, Zenon
<1>8. ASSUME Select PROVE RowsOK'
  <2>1. PICK L \in [snap -> SUBSET (1 .. PagesFor(MaxChunks))] :
          ploc' = [k \in RowIds |->
                     IF \E s \in snap : s.row = k
                     THEN LET s == CHOOSE s \in snap : s.row = k IN SelectedChunks(s, L[s])
                     ELSE ploc[k]]
    BY <1>8, Zenon DEF Select
  <2>2. \A s \in snap : SelectedChunks(s, L[s]) \in SUBSET Chunks
    BY SelectedFacts, Zenon
  <2>3. ploc' \in [RowIds -> SUBSET Chunks]
    BY <2>1, <2>2, Zenon DEF RowsOK
  <2> QED
    BY <1>8, <2>3, Zenon DEF Select, schedVars, RowsOK, RowsNow
<1>9. ASSUME Remap \/ ReadDone \/ EndQuiet \/ EndDue \/ EndInline \/ Recall \/ Publish \/ RebuildMeta
             \/ SidebandFails \/ Idle \/ UNCHANGED vars \/ \E r \in Reqs : StoreRow(r)
      PROVE  UNCHANGED <<freeSlots, batch, occ, ploc, phase>> /\ forming' \subseteq forming
  BY <1>9, Zenon DEF Remap, ReadDone, EndQuiet, EndDue, EndInline, Recall, Publish, RebuildMeta,
              SidebandFails, Idle, StoreRow, vars, schedVars, rowVars
<1> QED
  BY <1>1, <1>2, <1>3, <1>4, <1>5, <1>6, <1>7, <1>8, <1>9, RowsKept, Zenon DEF Next, Scheduler, Sideband

\* The snapshot is taken from the rows of the batch and does not change after.
LEMMA SnapStep ==
  ASSUME RequestsOK, RowsOK, SnapOK, [Next]_vars
  PROVE  SnapOK'
<1>1. CASE EndDue
  <2>1. snap' = {[row |-> k, idx |-> ReqIds[k], pages |-> kv[batch[k]], n |-> len[batch[k]]] : k \in Due}
    BY <1>1, Zenon DEF EndDue
  <2>2. ASSUME NEW k \in Due
        PROVE  /\ k \in RowIds /\ ReqIds[k] \in PoolIdx /\ kv[batch[k]] \in Seq(Pages)
               /\ len[batch[k]] \in 1 .. MaxChunks /\ len[batch[k]] <= PS * Len(kv[batch[k]])
    <3>1. k \in RowsNow
      BY Zenon DEF Due
    <3>2. batch[k] \in Reqs /\ phase[batch[k]] # "new" /\ ReqIds[k] = idx[batch[k]] /\ k \in RowIds
      BY <3>1, ServerAssumption DEF RowsOK, RowsNow, ReqIds, RowIds
    <3> QED
      BY <3>2, SizesAssumption DEF RequestsOK
  <2>3. \A s \in snap' : /\ s.idx \in PoolIdx /\ s.row \in RowIds
                         /\ s.n \in 1 .. MaxChunks /\ s.pages \in Seq(Pages)
                         /\ s.n <= PS * Len(s.pages)
    BY <2>1, <2>2
  <2> QED
    BY <2>3, Zenon DEF SnapOK
<1>2. CASE RebuildMeta \/ SidebandFails
  BY <1>2, Zenon DEF RebuildMeta, SidebandFails, SnapOK
<1>3. ASSUME Next \/ UNCHANGED vars, ~EndDue, ~RebuildMeta, ~SidebandFails PROVE UNCHANGED snap
  BY <1>3, Zenon DEF Next, Scheduler, Sideband, Prealloc, TransferLands, Commit, Merge, BeginSame, BeginChanged,
              StoreRow, Remap, ReadDone, EndQuiet, EndInline, Result, Select, Recall, Publish, Idle,
              threadVars, vars
<1> QED
  BY <1>1, <1>2, <1>3, Zenon DEF SnapOK

\* A recall starts and ends inside the thread's recall.
LEMMA OneRecallStep ==
  ASSUME OneRecall, [Next]_vars
  PROVE  OneRecall'
<1>1. CASE Sideband
  BY <1>1, Zenon DEF Sideband, Select, Recall, Publish, RebuildMeta, SidebandFails, Raised, RecallRaised,
              RecallReturns, OneRecall, threadVars, engineVars, recallVars
<1>2. CASE Scheduler
  <2>1. ASSUME NEW F \in SUBSET Range(batch), BeginChanged(F) PROVE UNCHANGED rpc /\ UNCHANGED tpc
    BY <2>1, Zenon DEF BeginChanged, ReleaseAtBegin, ReleaseOwned, Release, threadVars, recallVars, engineVars
  <2>2. ASSUME NEW r \in Reqs, StoreRow(r) \/ Commit(r) PROVE UNCHANGED rpc /\ UNCHANGED tpc
    BY <2>2, Zenon DEF StoreRow, Store, Commit, Admit, threadVars, recallVars
  <2>3. ASSUME NEW r \in Reqs, Prealloc(r) \/ Merge(r) PROVE UNCHANGED rpc /\ UNCHANGED tpc
    BY <2>3, Zenon DEF Prealloc, Merge, threadVars, recallVars, engineVars
  <2>4. ASSUME NEW F \in SUBSET Range(batch), BeginSame(F) \/ Result(F) PROVE UNCHANGED rpc /\ UNCHANGED tpc
    BY <2>4, Zenon DEF BeginSame, Result, threadVars, recallVars, engineVars
  <2>5. CASE Remap \/ ReadDone \/ EndQuiet \/ EndInline
    BY <2>5, Zenon DEF Remap, ReadDone, EndQuiet, EndInline, threadVars, recallVars, engineVars, OneRecall
  <2>6. CASE EndDue
    BY <2>6, Zenon DEF EndDue, recallVars, engineVars, OneRecall
  <2> QED
    BY <1>2, <2>1, <2>2, <2>3, <2>4, <2>5, <2>6, Zenon DEF Scheduler, OneRecall
<1>3. CASE (\E r \in Reqs : TransferLands(r)) \/ Idle \/ UNCHANGED vars
  BY <1>3, Zenon DEF TransferLands, Land, Idle, vars, engineVars, recallVars, threadVars, OneRecall
<1> QED
  BY <1>1, <1>2, <1>3, Zenon DEF Next

\* Every state of the server has the invariant.
THEOREM ServerInvariant == Spec => []ServerInv
<1>1. ServerInv /\ [Next]_vars => ServerInv'
  BY RequestsStep, RowsStep, SnapStep, OneRecallStep, Zenon DEF ServerInv
<1>2. QED
  BY <1>1, ServerInitInv, PTL DEF Spec

-----------------------------------------------------------------------------
(* Every step of the server is a step of the engine or leaves it alone.    *)

\* No more pages are scored than hold the chunks.
LEMMA PagesForAtMost ==
  ASSUME NEW n \in Nat, NEW m \in Nat, n <= PS * m
  PROVE  PagesFor(n) <= m
<1> DEFINE d == (n + PS - 1) \div PS
<1>1. d \in Int /\ PS * d <= n + PS - 1
  BY PageDiv, SizesAssumption
<1> HIDE DEF d
<1>2. PS * d < PS * (m + 1)
  BY <1>1, SizesAssumption
<1>3. d < m + 1
  BY <1>1, <1>2, SizesAssumption
<1> QED
  BY <1>1, <1>3 DEF PagesFor, d

\* The transfer of a request writes the rows of its own pages.
LEMMA TransferIsLand ==
  ASSUME RequestsOK, NEW r \in Reqs, TransferLands(r)
  PROVE  EngineNext
<1>1. kv[r] \in Seq(Pages) /\ len[r] \in Nat /\ len[r] <= PS * Len(kv[r])
  BY SizesAssumption DEF RequestsOK
<1>2. Range(kv[r]) \in SUBSET Pages
  BY <1>1 DEF Range
<1>3. ASSUME NEW j \in 0 .. len[r] - 1 PROVE ChunkAt(kv[r], j) \in Range(kv[r]) \X Offs
  <2>1. j \in Nat /\ j < PS * Len(kv[r])
    BY <1>1, SizesAssumption
  <2> QED
    BY <1>1, <2>1, ChunkAtFacts, Zenon
<1>4. ChunksOf(r) \in SUBSET (Range(kv[r]) \X Offs)
  BY <1>3, Zenon DEF ChunksOf
<1>5. Land(r, Range(kv[r]), ChunksOf(r))
  BY Zenon DEF TransferLands
<1> QED
  BY <1>2, <1>4, <1>5, Zenon DEF EngineNext

\* A request is admitted with a pool index and its prefill length.
LEMMA CommitIsAdmit ==
  ASSUME RequestsOK, NEW r \in Reqs, Commit(r)
  PROVE  EngineNext
<1>1. idx[r] \in PoolIdx /\ PrefillLen[r] \in 0 .. MaxChunks
  <2>1. phase[r] = "landed"
    BY Zenon DEF Commit
  <2>2. idx[r] \in PoolIdx
    BY <2>1, Zenon DEF RequestsOK
  <2>3. PrefillLen[r] \in 1 .. MaxChunks
    BY ServerAssumption, Zenon
  <2> QED
    BY <2>2, <2>3, SizesAssumption
<1>2. Range(kv[r]) \in SUBSET Pages
  BY DEF Range, RequestsOK
<1>3. Admit(idx[r], Range(kv[r]), PrefillLen[r])
  BY Zenon DEF Commit
<1> QED
  BY <1>1, <1>2, <1>3, Zenon DEF EngineNext

\* A row stores the chunk its request has just formed.
LEMMA StoreRowIsStore ==
  ASSUME RequestsOK, RowsOK, NEW r \in Reqs, StoreRow(r)
  PROVE  EngineNext
<1>1. phase[r] # "new"
  BY Zenon DEF StoreRow, RowsOK
<1>2. idx[r] \in PoolIdx /\ len[r] \in 1 .. MaxChunks /\ kv[r] \in Seq(Pages) /\ len[r] <= PS * Len(kv[r])
  BY <1>1, SizesAssumption DEF RequestsOK
<1>3. len[r] - 1 \in Nat /\ len[r] - 1 < PS * Len(kv[r])
  BY <1>2, SizesAssumption
<1>4. ChunkAt(kv[r], len[r] - 1) \in Chunks
  BY <1>2, <1>3, ChunkAtFacts, Zenon
<1>5. [idx |-> idx[r], chunk |-> ChunkAt(kv[r], len[r] - 1), req |-> r, n |-> len[r]] \in StoreRows
  BY <1>2, <1>4, Zenon DEF StoreRows
<1>6. Store([idx |-> idx[r], chunk |-> ChunkAt(kv[r], len[r] - 1), req |-> r, n |-> len[r]])
  BY Zenon DEF StoreRow
<1> QED
  BY <1>5, <1>6, Zenon DEF EngineNext

\* The thread recalls pages of the requests in its snapshot.
LEMMA SelectIsStart ==
  ASSUME SnapOK, Select
  PROVE  EngineNext
<1>1. PICK L \in [snap -> SUBSET (1 .. PagesFor(MaxChunks))] :
        /\ \A s \in snap : L[s] \in Selections(s)
        /\ LET own == [i \in PoolIdx |->
                        UNION {RecalledPages(s, L[s]) : s \in {s \in snap : s.idx = i}}]
           IN Start(own, UNION {own[i] : i \in PoolIdx})
  BY Zenon DEF Select
<1>2. ASSUME NEW s \in snap PROVE RecalledPages(s, L[s]) \subseteq Pages
  <2>1. s.n \in Nat /\ s.pages \in Seq(Pages) /\ s.n <= PS * Len(s.pages)
    BY SizesAssumption DEF SnapOK
  <2>2. PagesFor(s.n) \in Int /\ Len(s.pages) \in Nat /\ PagesFor(s.n) <= Len(s.pages)
    <3>1. Len(s.pages) \in Nat
      BY <2>1
    <3>2. PagesFor(s.n) <= Len(s.pages)
      BY <2>1, <3>1, PagesForAtMost, Zenon
    <3>3. s.n + PS - 1 \in Int
      BY <2>1, SizesAssumption
    <3>4. PagesFor(s.n) \in Int
      BY <3>3, PageDiv, Zenon DEF PagesFor
    <3> QED
      BY <3>1, <3>2, <3>4, Zenon
  <2>3. \A l \in L[s] : l \in 1 .. PagesFor(s.n)
    BY <1>1, Zenon DEF Selections
  <2>4. \A l \in L[s] : l \in 1 .. Len(s.pages)
    BY <2>2, <2>3
  <2>5. \A l \in L[s] : s.pages[l] \in Pages
    BY <2>1, <2>4
  <2> QED
    BY <2>5, Zenon DEF RecalledPages
<1> DEFINE own == [i \in PoolIdx |-> UNION {RecalledPages(s, L[s]) : s \in {s \in snap : s.idx = i}}]
<1>3. own \in [PoolIdx -> SUBSET Pages]
  BY <1>2, Zenon
<1>4. Start(own, UNION {own[i] : i \in PoolIdx})
  BY <1>1, Zenon
<1> HIDE DEF own
<1> QED
  BY <1>3, <1>4, Zenon DEF EngineNext

\* on_forward_begin releases with the thread joined, so no recall is in flight.
LEMMA BeginIsRelease ==
  ASSUME RequestsOK, RowsOK, OneRecall, NEW F \in SUBSET Range(batch), BeginChanged(F)
  PROVE  EngineNext \/ UNCHANGED engineVars
<1>1. rpc = "idle"
  BY Zenon DEF BeginChanged, OneRecall
<1>2. CASE OwnerRelease
  <2>1. ReleaseOwned(Range(occ) \ Range(ReqIds))
    BY <1>2, Zenon DEF BeginChanged, ReleaseAtBegin
  <2>2. Range(occ) \ Range(ReqIds) \in SUBSET PoolIdx
    BY DEF RowsOK, Range
  <2> QED
    BY <1>1, <2>1, <2>2, Zenon DEF EngineNext
<1>3. CASE ~OwnerRelease /\ ~NoRowRelease
  <2>1. Release({c[1] : c \in RowReleased})
    BY <1>3, Zenon DEF BeginChanged, ReleaseAtBegin
  <2>2. ChangedRows \subseteq RowIds /\ TailRows \subseteq RowIds
    BY ServerAssumption DEF ChangedRows, TailRows, RowsNow, RowIds, RowsOK
  <2>3. RowReleased \subseteq Chunks
    BY <2>2, Zenon DEF RowReleased, RowLocs, RowsOK
  <2>4. {c[1] : c \in RowReleased} \in SUBSET Pages
    BY <2>3, Zenon DEF Chunks
  <2> QED
    BY <1>1, <2>1, <2>4, Zenon DEF EngineNext
<1>4. CASE ~OwnerRelease /\ NoRowRelease
  BY <1>4, Zenon DEF BeginChanged, ReleaseAtBegin
<1> QED
  BY <1>2, <1>3, <1>4, Zenon

\* Every step of the server is a step of the engine or leaves the engine alone.
LEMMA EngineStep ==
  ASSUME ServerInv, [Next]_vars
  PROVE  [EngineNext]_engineVars
<1> USE DEF ServerInv
<1>1. ASSUME NEW r \in Reqs, TransferLands(r) \/ Commit(r) \/ StoreRow(r) PROVE EngineNext
  BY <1>1, TransferIsLand, CommitIsAdmit, StoreRowIsStore, Zenon
<1>2. ASSUME NEW F \in SUBSET Range(batch), BeginChanged(F) PROVE EngineNext \/ UNCHANGED engineVars
  BY <1>2, BeginIsRelease, Zenon
<1>3. CASE Select
  BY <1>3, SelectIsStart, Zenon
<1>4. CASE Recall \/ SidebandFails
  BY <1>4, Zenon DEF Recall, SidebandFails, EngineNext
<1>5. ASSUME NEW r \in Reqs, Prealloc(r) \/ Merge(r) PROVE UNCHANGED engineVars
  BY <1>5, Zenon DEF Prealloc, Merge
<1>6. ASSUME NEW F \in SUBSET Range(batch), BeginSame(F) \/ Result(F) PROVE UNCHANGED engineVars
  BY <1>6, Zenon DEF BeginSame, Result
<1>7. CASE Remap \/ ReadDone \/ EndQuiet \/ EndDue \/ EndInline \/ Publish \/ RebuildMeta \/ Idle \/ UNCHANGED vars
  BY <1>7, Zenon DEF Remap, ReadDone, EndQuiet, EndDue, EndInline, Publish, RebuildMeta, Idle, vars
<1> QED
  BY <1>1, <1>2, <1>3, <1>4, <1>5, <1>6, <1>7, Zenon DEF Next, Scheduler, Sideband

\* The scheduler, the capturer and the side-band thread keep the engine's
\* contract: one recall at a time, no release while one is in flight, and pages,
\* chunks and pool indices that are the requests' own.
THEOREM ServerUsesEngine == Spec => UsesEngineByContract
<1>1. ServerInit => EngineInit
  BY Zenon DEF ServerInit
<1>2. ServerInv /\ [Next]_vars => [EngineNext]_engineVars
  BY EngineStep, Zenon
<1>3. QED
  BY <1>1, <1>2, ServerInvariant, PTL DEF Spec, UsesEngineByContract, EngineSpec

\* In the whole server no recall block is leaked or held twice, and a chunk that
\* attention finds resident is in its own page's block with its own bytes.
THEOREM ServerResidency ==
  Spec => [](BlockAccounting /\ ResidentInOwnBlock /\ ResidentBytesAreItsOwn)
BY ServerUsesEngine, BlocksAccounted, ResidentsAreAligned, ResidentBytesCorrect, PTL
   DEF UsesEngineByContract

-----------------------------------------------------------------------------
(* Types.                                                                  *)

\* The buffers, the staged counts and the two threads' positions.
BuffersOK ==
  /\ mpc \in {"queue", "store", "read", "end", "inline", "result", "crashed"}
  /\ tpc \in {"none", "select", "recall", "meta"}
  /\ count \in [RowIds -> BOOLEAN] /\ meta \in [RowIds -> BOOLEAN]
  /\ reqStep \in [PoolIdx -> 0 .. Interval - 1]
  /\ pending \subseteq RowIds
  /\ reads \subseteq [row : RowIds, chunk : Chunks, cell : Cells]

\* The steps that leave the row buffers and the thread alone.
LEMMA QuietSteps ==
  ASSUME [Next]_vars,
         \A F \in SUBSET Range(batch) : ~BeginChanged(F),
         ~EndQuiet, ~EndDue, ~Select, ~Publish, ~RebuildMeta, ~SidebandFails
  PROVE  UNCHANGED <<occ, count, ploc, meta, reqStep, pending, tpc, snap>>
<1>1. ASSUME NEW r \in Reqs, Prealloc(r) \/ Commit(r) \/ Merge(r) \/ StoreRow(r) \/ TransferLands(r)
      PROVE  UNCHANGED <<rowVars, threadVars>>
  BY <1>1, Zenon DEF Prealloc, Commit, Merge, StoreRow, TransferLands
<1>2. ASSUME NEW F \in SUBSET Range(batch), BeginSame(F) \/ Result(F) PROVE UNCHANGED <<rowVars, threadVars>>
  BY <1>2, Zenon DEF BeginSame, Result
<1>3. CASE Remap \/ ReadDone \/ EndInline \/ Recall \/ Idle \/ UNCHANGED vars
  BY <1>3, Zenon DEF Remap, ReadDone, EndInline, Recall, Idle, vars, rowVars, threadVars
<1> QED
  BY <1>1, <1>2, <1>3, Zenon DEF Next, Scheduler, Sideband, rowVars, threadVars

\* Where the scheduler thread goes.
LEMMA SchedulerPlaces ==
  ASSUME BuffersOK, [Next]_vars
  PROVE  mpc' \in {"queue", "store", "read", "end", "inline", "result", "crashed"}
<1>1. ASSUME NEW r \in Reqs, Prealloc(r) \/ Commit(r) \/ Merge(r) \/ StoreRow(r) \/ TransferLands(r)
      PROVE  mpc' = mpc
  BY <1>1, Zenon DEF Prealloc, Commit, Merge, StoreRow, TransferLands
<1>2. ASSUME NEW F \in SUBSET Range(batch), BeginSame(F) \/ BeginChanged(F) \/ Result(F)
      PROVE  mpc' \in {"store", "queue"}
  BY <1>2, Zenon DEF BeginSame, BeginChanged, Result
<1>3. CASE Remap \/ ReadDone \/ EndQuiet \/ EndDue \/ EndInline
  BY <1>3, Zenon DEF Remap, ReadDone, EndQuiet, EndDue, EndInline
<1>4. CASE Sideband \/ Idle \/ UNCHANGED vars
  BY <1>4, Zenon DEF BuffersOK, Sideband, Select, Recall, Publish, RebuildMeta, SidebandFails, Idle, vars
<1> QED
  BY <1>1, <1>2, <1>3, <1>4, Zenon DEF Next, Scheduler, BuffersOK

\* What a forward translates is a row of the batch, a chunk and a cell.
LEMMA RemapReads ==
  ASSUME RowsOK, EngineTypeOK, Remap
  PROVE  reads' \subseteq [row : RowIds, chunk : Chunks, cell : Cells]
<1>1. \A k \in RowsNow : k \in RowIds
  BY ServerAssumption DEF RowsOK, RowsNow, RowIds
<1>2. \A k \in RowIds : \A c \in ploc[k] : c \in Chunks /\ (lut[c] # NoCell => lut[c] \in Cells)
  BY Zenon DEF RowsOK, EngineTypeOK
<1> SUFFICES ASSUME NEW e \in reads' PROVE e \in [row : RowIds, chunk : Chunks, cell : Cells]
  OBVIOUS
<1>3. PICK k \in {i \in RowsNow : count[i]} :
        e \in {[row |-> k, chunk |-> c, cell |-> lut[c]] : c \in {d \in ploc[k] : lut[d] # NoCell}}
  BY Zenon DEF Remap
<1>4. PICK c \in ploc[k] : lut[c] # NoCell /\ e = [row |-> k, chunk |-> c, cell |-> lut[c]]
  BY <1>3, Zenon
<1> QED
  BY <1>1, <1>2, <1>3, <1>4

\* The types of the buffers, through every step.
LEMMA BuffersStep ==
  ASSUME ServerInv, EngineTypeOK, BuffersOK, [Next]_vars
  PROVE  BuffersOK'
<1>1. mpc' \in {"queue", "store", "read", "end", "inline", "result", "crashed"}
  BY SchedulerPlaces, Zenon
<1>2. tpc' \in {"none", "select", "recall", "meta"}
  <2>1. ASSUME NEW F \in SUBSET Range(batch), BeginChanged(F) PROVE tpc' = tpc
    BY <2>1, Zenon DEF BeginChanged, threadVars
  <2>2. CASE EndQuiet \/ EndDue \/ Select \/ Publish \/ RebuildMeta \/ SidebandFails
    BY <2>2, Zenon DEF BuffersOK, EndQuiet, EndDue, Select, Publish, RebuildMeta, SidebandFails, threadVars
  <2> QED
    BY <2>1, <2>2, QuietSteps, Zenon DEF BuffersOK
<1>3. count' \in [RowIds -> BOOLEAN] /\ meta' \in [RowIds -> BOOLEAN] /\ pending' \subseteq RowIds
  <2>1. ASSUME NEW F \in SUBSET Range(batch), BeginChanged(F)
        PROVE  count' \in [RowIds -> BOOLEAN] /\ meta' \in [RowIds -> BOOLEAN] /\ pending' \subseteq RowIds
    <3>1. /\ count' = [k \in RowIds |-> IF k \in ChangedRows \cup TailRows THEN FALSE ELSE count[k]]
          /\ meta' = count' /\ pending' = pending \ ChangedRows
      BY <2>1, Zenon DEF BeginChanged, ResetRows
    <3>2. count' \in [RowIds -> BOOLEAN]
      BY <3>1, Zenon DEF BuffersOK
    <3> QED
      BY <3>1, <3>2, Zenon DEF BuffersOK
  <2>2. ASSUME EndQuiet \/ EndDue \/ SidebandFails PROVE UNCHANGED <<count, meta, pending>>
    BY <2>2, Zenon DEF EndQuiet, EndDue, SidebandFails, rowVars
  <2>3. CASE Select
    <3>1. UNCHANGED <<count, meta>> /\ pending' = pending \cup {s.row : s \in snap}
      BY <2>3, Zenon DEF Select
    <3>2. \A s \in snap : s.row \in RowIds
      BY Zenon DEF ServerInv, SnapOK
    <3> QED
      BY <3>1, <3>2, Zenon DEF BuffersOK
  <2>4. CASE Publish \/ RebuildMeta
    BY <2>4, Zenon DEF BuffersOK, Publish, RebuildMeta
  <2> QED
    BY <2>1, <2>2, <2>3, <2>4, QuietSteps, Zenon DEF BuffersOK
<1>4. reqStep' \in [PoolIdx -> 0 .. Interval - 1]
  <2>0. 0 \in 0 .. Interval - 1 /\ \A n \in 0 .. Interval - 1 : (n + 1) % Interval \in 0 .. Interval - 1
    BY ServerAssumption
  <2>1. ASSUME NEW F \in SUBSET Range(batch), BeginChanged(F) PROVE reqStep' \in [PoolIdx -> 0 .. Interval - 1]
    BY <2>0, <2>1, Zenon DEF BuffersOK, BeginChanged, ResetRows
  <2>2. CASE EndQuiet \/ EndDue
    BY <2>0, <2>2, Zenon DEF BuffersOK, EndQuiet, EndDue, AdvanceSteps
  <2>3. CASE Select \/ Publish \/ RebuildMeta \/ SidebandFails
    BY <2>3, Zenon DEF BuffersOK, Select, Publish, RebuildMeta, SidebandFails, rowVars
  <2> QED
    BY <2>1, <2>2, <2>3, QuietSteps, Zenon DEF BuffersOK
<1>5. reads' \subseteq [row : RowIds, chunk : Chunks, cell : Cells]
  <2>1. CASE Remap
    BY <2>1, RemapReads, Zenon DEF ServerInv
  <2>2. CASE ReadDone
    BY <2>2, Zenon DEF ReadDone
  <2>3. ASSUME NEW r \in Reqs, Prealloc(r) \/ Commit(r) \/ Merge(r) \/ StoreRow(r) \/ TransferLands(r)
        PROVE  UNCHANGED reads
    BY <2>3, Zenon DEF Prealloc, Commit, Merge, StoreRow, TransferLands
  <2>4. ASSUME NEW F \in SUBSET Range(batch), BeginSame(F) \/ BeginChanged(F) \/ Result(F) PROVE UNCHANGED reads
    BY <2>4, Zenon DEF BeginSame, BeginChanged, Result
  <2>5. CASE EndQuiet \/ EndDue \/ EndInline \/ Sideband \/ Idle \/ UNCHANGED vars
    BY <2>5, Zenon DEF EndQuiet, EndDue, EndInline, Sideband, Select, Recall, Publish, RebuildMeta, SidebandFails,
                         Idle, vars, BuffersOK
  <2> QED
    BY <2>1, <2>2, <2>3, <2>4, <2>5, Zenon DEF Next, Scheduler, BuffersOK
<1> QED
  BY <1>1, <1>2, <1>3, <1>4, <1>5, Zenon DEF BuffersOK

\* The buffers are empty when the capturer starts.
LEMMA BuffersInit == ServerInit => BuffersOK
BY ServerAssumption DEF ServerInit, BuffersOK

\* The engine inside the server has its inductive invariant.
THEOREM ServerEngineInvariant == Spec => []EngineInv
BY ServerUsesEngine, EngineInvariant, PTL DEF UsesEngineByContract

\* The buffers keep their types: an index translated through the lut is a cell
\* (remap_topk_via_lut).
THEOREM BuffersInvariant == Spec => []BuffersOK
<1>1. EngineInv => EngineTypeOK
  BY Zenon DEF EngineInv
<1>2. ServerInv /\ EngineTypeOK /\ BuffersOK /\ [Next]_vars => BuffersOK'
  BY BuffersStep, Zenon
<1> QED
  BY <1>1, <1>2, BuffersInit, ServerInvariant, ServerEngineInvariant, PTL DEF Spec

\* Every variable of the server and of the engine in it has its type, whatever
\* the gates and the sizes are.
THEOREM ServerTypeCorrect == Spec => []TypeOK
<1>1. ServerInv /\ EngineInv /\ BuffersOK => TypeOK
  <2> SUFFICES ASSUME ServerInv, EngineInv, BuffersOK PROVE TypeOK
    OBVIOUS
  <2>1. EngineTypeOK
    BY Zenon DEF EngineInv
  <2>2. \A r \in Reqs : Range(kv[r]) \subseteq Pages
    BY DEF ServerInv, RequestsOK, Range
  <2>3. Range(freeSlots) \subseteq PoolIdx /\ Range(batch) \subseteq Reqs /\ Range(occ) \subseteq PoolIdx
    BY DEF ServerInv, RowsOK, Range
  <2>4. forming \subseteq Reqs /\ ploc \in [RowIds -> SUBSET Chunks]
    BY Zenon DEF ServerInv, RowsOK
  <2>5. \A s \in snap : s.row \in RowIds /\ s.idx \in PoolIdx /\ s.n \in 1 .. MaxChunks
    BY Zenon DEF ServerInv, SnapOK
  <2> QED
    BY <2>1, <2>2, <2>3, <2>4, <2>5, Zenon DEF ServerInv, RequestsOK, BuffersOK, TypeOK
<1> QED
  BY <1>1, ServerInvariant, ServerEngineInvariant, BuffersInvariant, PTL

-----------------------------------------------------------------------------
(* The schedule of the score kernel.                                       *)

\* Only between publishing the counts and rebuilding the schedule do the two
\* differ; without ASYNC_RECALL the side-band runs inside on_forward_end.
ScheduleInv ==
  /\ tpc # "meta" => meta = count
  /\ ~Async /\ tpc # "none" => mpc = "inline"

\* The schedule and the threads' places, through every step.
LEMMA ScheduleStep ==
  ASSUME ScheduleInv, [Next]_vars
  PROVE  ScheduleInv'
<1>1. tpc' # "meta" => meta' = count'
  <2>1. ASSUME NEW F \in SUBSET Range(batch), BeginChanged(F) PROVE meta' = count'
    BY <2>1, Zenon DEF BeginChanged, ResetRows
  <2>2. CASE EndQuiet \/ EndDue \/ Select \/ SidebandFails
    BY <2>2, Zenon DEF ScheduleInv, EndQuiet, EndDue, Select, SidebandFails, rowVars, threadVars
  <2>3. CASE Publish \/ RebuildMeta
    BY <2>3, Zenon DEF Publish, RebuildMeta
  <2> QED
    BY <2>1, <2>2, <2>3, QuietSteps, Zenon DEF ScheduleInv
<1>2. ASSUME ~Async, tpc' # "none" PROVE mpc' = "inline"
  <2>1. CASE EndDue
    BY <1>2, <2>1, Zenon DEF EndDue
  <2>2. ASSUME ~EndDue PROVE tpc # "none" /\ (tpc' = tpc \/ Sideband)
    <3>1. ASSUME NEW F \in SUBSET Range(batch), BeginChanged(F) PROVE tpc' = tpc
      BY <3>1, Zenon DEF BeginChanged, threadVars
    <3>2. CASE EndQuiet
      BY <1>2, <3>2, Zenon DEF EndQuiet, threadVars
    <3>3. ASSUME Select \/ Publish \/ RebuildMeta \/ SidebandFails PROVE Sideband /\ tpc # "none"
      BY <3>3, Zenon DEF Sideband, Select, Publish, RebuildMeta, SidebandFails
    <3> QED
      BY <1>2, <2>2, <3>1, <3>2, <3>3, QuietSteps, Zenon
  <2>3. ASSUME ~EndDue PROVE mpc = "inline" /\ tpc # "none"
    BY <1>2, <2>2, <2>3, Zenon DEF ScheduleInv
  <2>4. ASSUME mpc = "inline", tpc # "none", ~Sideband PROVE mpc' = "inline"
    <3>1. ASSUME NEW r \in Reqs PROVE ~Prealloc(r) /\ ~Commit(r) /\ ~Merge(r) /\ ~StoreRow(r)
      BY <2>4, Zenon DEF Prealloc, Commit, Merge, StoreRow
    <3>2. ASSUME NEW F \in SUBSET Range(batch) PROVE ~BeginSame(F) /\ ~BeginChanged(F) /\ ~Result(F)
      BY <2>4, Zenon DEF BeginSame, BeginChanged, ReadyToDecode, Result
    <3>3. ~Remap /\ ~ReadDone /\ ~EndQuiet /\ ~EndDue /\ ~EndInline
      BY <2>4, Zenon DEF Remap, ReadDone, EndQuiet, EndDue, EndInline
    <3>4. ASSUME (\E r \in Reqs : TransferLands(r)) \/ Idle \/ UNCHANGED vars PROVE mpc' = mpc
      BY <3>4, Zenon DEF TransferLands, Idle, vars
    <3> QED
      BY <2>4, <3>1, <3>2, <3>3, <3>4, Zenon DEF Next, Scheduler
  <2>5. ASSUME mpc = "inline", Sideband PROVE mpc' = "inline"
    <3>1. CASE SidebandFails
      BY <1>2, <3>1, Zenon DEF SidebandFails
    <3>2. CASE Select \/ Recall \/ Publish \/ RebuildMeta
      BY <2>5, <3>2, Zenon DEF Select, Recall, Publish, RebuildMeta
    <3> QED
      BY <2>5, <3>1, <3>2, Zenon DEF Sideband
  <2> QED
    BY <2>1, <2>3, <2>4, <2>5, Zenon
<1> QED
  BY <1>1, <1>2, Zenon DEF ScheduleInv

\* The schedule is the one of the counts except between _publish_pending and
\* _rebuild_resident_dg_meta; without ASYNC_RECALL both run while the scheduler
\* waits.
THEOREM ScheduleInvariant == Spec => []ScheduleInv
<1>1. ServerInit => ScheduleInv
  BY Zenon DEF ServerInit, ScheduleInv
<1>2. ScheduleInv /\ [Next]_vars => ScheduleInv'
  BY ScheduleStep, Zenon
<1> QED
  BY <1>1, <1>2, PTL DEF Spec

\* Without ASYNC_RECALL no forward runs the persistent score kernel with a
\* schedule built from other counts than the ones it reads
\* (_rebuild_resident_dg_meta, _reset_changed_rows).
THEOREM ScheduleMatchesCounts ==
  ASSUME ~Async
  PROVE  Spec => []MetaMatchesCount
<1>1. ScheduleInv => MetaMatchesCount
  BY Zenon DEF ScheduleInv, MetaMatchesCount
<1> QED
  BY <1>1, ScheduleInvariant, PTL

-----------------------------------------------------------------------------
(* Rows past the batch.                                                    *)

\* A cycle has one snapshot per row, and a thread that is not running has none.
SnapRows ==
  /\ \A s, t \in snap : s.row = t.row => s = t
  /\ tpc = "none" => snap = {}

\* The snapshots, through every step (_launch_sideband).
LEMMA SnapRowsStep ==
  ASSUME SnapRows, [Next]_vars
  PROVE  SnapRows'
<1>1. ASSUME NEW F \in SUBSET Range(batch), BeginChanged(F) PROVE UNCHANGED <<snap, tpc>>
  BY <1>1, Zenon DEF BeginChanged, threadVars
<1>2. CASE EndDue
  <2>1. /\ tpc' = "select"
        /\ snap' = {[row |-> k, idx |-> ReqIds[k], pages |-> kv[batch[k]], n |-> len[batch[k]]] : k \in Due}
    BY <1>2, Zenon DEF EndDue
  <2>2. \A s \in snap' : s = [row |-> s.row, idx |-> ReqIds[s.row], pages |-> kv[batch[s.row]], n |-> len[batch[s.row]]]
    BY <2>1
  <2> QED
    BY <2>1, <2>2, Zenon DEF SnapRows
<1>3. CASE RebuildMeta \/ SidebandFails
  BY <1>3, Zenon DEF SnapRows, RebuildMeta, SidebandFails
<1>4. CASE EndQuiet \/ Select \/ Publish
  BY <1>4, Zenon DEF SnapRows, EndQuiet, Select, Publish, threadVars
<1> QED
  BY <1>1, <1>2, <1>3, <1>4, QuietSteps, Zenon DEF SnapRows

\* From on_forward_begin to the results the last occupants are the batch.
InForward == mpc \in {"store", "read", "end", "inline", "result"}

\* Counts, staged counts and snapshots are of rows of the last batch, and a
\* count is staged only while its cycle runs or after an inline cycle raised.
StagedInv ==
  /\ \A k \in RowIds : count[k] => k <= Len(occ)
  /\ \A k \in pending : k <= Len(occ)
  /\ \A s \in snap : s.row <= Len(occ)
  /\ tpc # "recall" /\ mpc # "crashed" => pending = {}
  /\ InForward => occ = ReqIds

\* What on_forward_begin leaves: the pool indices of the batch as occupants.
LEMMA OccupantsStep ==
  ASSUME InForward => occ = ReqIds, [Next]_vars
  PROVE  InForward' => occ' = ReqIds'
<1> SUFFICES ASSUME InForward' PROVE occ' = ReqIds'
  OBVIOUS
<1>0. ASSUME UNCHANGED <<batch, idx>> PROVE ReqIds' = ReqIds
  BY <1>0, Zenon DEF ReqIds, RowsNow
<1>1. ASSUME NEW F \in SUBSET Range(batch), BeginSame(F) \/ BeginChanged(F) PROVE occ' = ReqIds'
  <2>1. UNCHANGED <<batch, idx>> /\ occ' = ReqIds
    BY <1>1, Zenon DEF BeginSame, BeginChanged, PrepareForDecode, ResetRows, rowVars
  <2> QED
    BY <1>0, <2>1, Zenon
<1>2. ASSUME NEW r \in Reqs PROVE ~Prealloc(r) /\ ~Commit(r) /\ ~Merge(r)
  BY Zenon DEF Prealloc, Commit, Merge, InForward
<1>3. ASSUME NEW F \in SUBSET Range(batch) PROVE ~Result(F)
  BY Zenon DEF Result, InForward
<1>4. ASSUME (\E r \in Reqs : StoreRow(r) \/ TransferLands(r)) \/ Remap \/ ReadDone \/ EndQuiet \/ EndDue \/ EndInline
             \/ Sideband \/ Idle \/ UNCHANGED vars
      PROVE  UNCHANGED <<batch, idx, occ>> /\ InForward
  <2>1. ASSUME NEW r \in Reqs, StoreRow(r) \/ TransferLands(r) PROVE UNCHANGED <<batch, idx, occ, mpc>>
    BY <2>1, Zenon DEF StoreRow, TransferLands, schedVars, rowVars
  <2>2. CASE Remap \/ ReadDone \/ EndQuiet \/ EndDue \/ EndInline
    BY <2>2, Zenon DEF Remap, ReadDone, EndQuiet, EndDue, EndInline, schedVars, rowVars, InForward
  <2>3. CASE Sideband \/ Idle \/ UNCHANGED vars
    BY <2>3, Zenon DEF Sideband, Select, Recall, Publish, RebuildMeta, SidebandFails, Idle, vars, schedVars, rowVars,
                       InForward
  <2> QED
    BY <1>4, <2>1, <2>2, <2>3, Zenon DEF InForward
<1> QED
  BY <1>0, <1>1, <1>2, <1>3, <1>4, Zenon DEF Next, Scheduler

\* A crashed scheduler stays crashed.
LEMMA CrashedStays ==
  ASSUME mpc = "crashed", [Next]_vars
  PROVE  mpc' = "crashed"
<1>1. ASSUME NEW r \in Reqs PROVE ~Prealloc(r) /\ ~Commit(r) /\ ~Merge(r) /\ ~StoreRow(r)
  BY Zenon DEF Prealloc, Commit, Merge, StoreRow
<1>2. ASSUME NEW F \in SUBSET Range(batch) PROVE ~BeginSame(F) /\ ~BeginChanged(F) /\ ~Result(F)
  BY Zenon DEF BeginSame, BeginChanged, ReadyToDecode, Result
<1>3. ~Remap /\ ~ReadDone /\ ~EndQuiet /\ ~EndDue /\ ~EndInline
  BY Zenon DEF Remap, ReadDone, EndQuiet, EndDue, EndInline
<1>4. CASE (\E r \in Reqs : TransferLands(r)) \/ Sideband \/ Idle \/ UNCHANGED vars
  BY <1>4, Zenon DEF TransferLands, Idle, vars, Sideband, Select, Recall, Publish, RebuildMeta, SidebandFails
<1> QED
  BY <1>1, <1>2, <1>3, <1>4, Zenon DEF Next, Scheduler

\* on_forward_begin after a change: rows past the batch lose their counts, and
\* with the thread joined nothing is staged.
LEMMA StagedBegin ==
  ASSUME RequestsOK, RowsOK, SnapRows, StagedInv, NEW F \in SUBSET Range(batch), BeginChanged(F)
  PROVE  /\ \A k \in RowIds : count'[k] => k <= Len(occ')
         /\ pending' = {} /\ snap' = {} /\ mpc' # "crashed"
<1>1. /\ mpc = "queue" /\ tpc = "none" /\ snap' = snap /\ mpc' = "store"
      /\ count' = [k \in RowIds |-> IF k \in ChangedRows \cup TailRows THEN FALSE ELSE count[k]]
      /\ pending' = pending \ ChangedRows /\ occ' = ReqIds
  BY Zenon DEF BeginChanged, ReadyToDecode, ResetRows, threadVars
<1>2. pending' = {} /\ snap' = {}
  BY <1>1, Zenon DEF StagedInv, SnapRows
<1>3. Len(occ') = Len(batch)
  BY <1>1, ReqIdsFacts, Zenon
<1>4. \A k \in RowIds : count'[k] => k \notin TailRows
  BY <1>1, Zenon
<1>5. \A k \in RowIds : k \notin TailRows => k <= Len(batch)
  BY DEF TailRows, RowIds, RowsOK
<1> QED
  BY <1>1, <1>2, <1>3, <1>4, <1>5, Zenon

\* The bounds on rows, through every step.
LEMMA StagedStep ==
  ASSUME ServerInv, BuffersOK, SnapRows, StagedInv, [Next]_vars,
         SidebandFails => ~Async
  PROVE  StagedInv'
<1>1. InForward' => occ' = ReqIds'
  BY OccupantsStep, Zenon DEF StagedInv
<1> DEFINE Bounds == /\ \A k \in RowIds : count[k] => k <= Len(occ)
                     /\ \A k \in pending : k <= Len(occ)
                     /\ \A s \in snap : s.row <= Len(occ)
           Quiet == tpc # "recall" /\ mpc # "crashed" => pending = {}
<1>2. ASSUME NEW F \in SUBSET Range(batch), BeginChanged(F) PROVE Bounds' /\ Quiet'
  <2>1. /\ \A k \in RowIds : count'[k] => k <= Len(occ')
        /\ pending' = {} /\ snap' = {}
    BY <1>2, StagedBegin, Zenon DEF ServerInv
  <2> QED
    BY <2>1, Zenon
<1>3. ASSUME EndQuiet PROVE Bounds' /\ Quiet'
  BY <1>3, Zenon DEF StagedInv, EndQuiet, threadVars
<1>4. ASSUME EndDue PROVE Bounds' /\ Quiet'
  <2>1. /\ mpc = "end" /\ tpc = "none" /\ UNCHANGED <<occ, count, pending>>
        /\ snap' = {[row |-> k, idx |-> ReqIds[k], pages |-> kv[batch[k]], n |-> len[batch[k]]] : k \in Due}
    BY <1>4, Zenon DEF EndDue
  <2>2. pending = {} /\ occ = ReqIds
    BY <2>1, Zenon DEF StagedInv, InForward
  <2>3. \A s \in snap' : s.row \in RowsNow
    BY <2>1 DEF Due
  <2>4. \A k \in RowsNow : k <= Len(occ)
    BY <2>2, ReqIdsFacts DEF RowsNow, ServerInv, RowsOK
  <2> QED
    BY <2>1, <2>2, <2>3, <2>4, Zenon DEF StagedInv
<1>5. ASSUME Select PROVE Bounds' /\ Quiet'
  <2>1. UNCHANGED <<occ, count, snap>> /\ tpc' = "recall" /\ pending' = pending \cup {s.row : s \in snap}
    BY <1>5, Zenon DEF Select
  <2> QED
    BY <2>1, Zenon DEF StagedInv
<1>6. ASSUME Publish PROVE Bounds' /\ Quiet'
  <2>1. UNCHANGED <<occ, snap>> /\ pending' = {} /\ count' = [k \in RowIds |-> count[k] \/ k \in pending]
    BY <1>6, Zenon DEF Publish
  <2> QED
    BY <2>1, Zenon DEF StagedInv
<1>7. ASSUME RebuildMeta PROVE Bounds' /\ Quiet'
  BY <1>7, Zenon DEF StagedInv, RebuildMeta
<1>8. ASSUME SidebandFails PROVE Bounds' /\ Quiet'
  BY <1>8, Zenon DEF StagedInv, SidebandFails, rowVars
<1>9. ASSUME \A F \in SUBSET Range(batch) : ~BeginChanged(F),
             ~EndQuiet, ~EndDue, ~Select, ~Publish, ~RebuildMeta, ~SidebandFails
      PROVE  Bounds' /\ Quiet'
  BY <1>9, QuietSteps, CrashedStays, Zenon DEF StagedInv
<1>10. Bounds' /\ Quiet'
  BY <1>2, <1>3, <1>4, <1>5, <1>6, <1>7, <1>8, <1>9, Zenon
<1> QED
  BY <1>1, <1>10, Zenon DEF StagedInv

-----------------------------------------------------------------------------
(* Pool indices.                                                           *)

\* The requests that hold a pool index and pages.
Live == {r \in Reqs : phase[r] \in {"prealloc", "landed", "waiting", "running"}}

\* free_slots is a queue of distinct indices, none held by a live request; live
\* requests hold different ones, and the batch is running requests, each once.
SlotsInv ==
  /\ \A i, j \in 1 .. Len(freeSlots) : freeSlots[i] = freeSlots[j] => i = j
  /\ \A r \in Live : \A i \in 1 .. Len(freeSlots) : freeSlots[i] # idx[r]
  /\ \A r, q \in Live : idx[r] = idx[q] => r = q
  /\ \A k \in RowsNow : phase[batch[k]] = "running"
  /\ \A j, k \in RowsNow : batch[j] = batch[k] => j = k

\* The steps that change a request, a slot or the batch.
LEMMA SchedSteps ==
  ASSUME [Next]_vars,
         \A r \in Reqs : ~Prealloc(r) /\ ~TransferLands(r) /\ ~Commit(r) /\ ~Merge(r),
         \A F \in SUBSET Range(batch) : ~BeginSame(F) /\ ~BeginChanged(F) /\ ~Result(F)
  PROVE  UNCHANGED schedVars
<1>1. CASE Remap \/ ReadDone \/ EndQuiet \/ EndDue \/ EndInline \/ \E r \in Reqs : StoreRow(r)
  BY <1>1, Zenon DEF Remap, ReadDone, EndQuiet, EndDue, EndInline, StoreRow
<1>2. CASE Sideband \/ Idle \/ UNCHANGED vars
  BY <1>2, Zenon DEF Sideband, Select, Recall, Publish, RebuildMeta, SidebandFails, Idle, vars
<1> QED
  BY <1>1, <1>2, Zenon DEF Next, Scheduler

\* _pre_alloc takes the first free slot.
LEMMA SlotsPrealloc ==
  ASSUME RequestsOK, RowsOK, SlotsInv, NEW r \in Reqs, Prealloc(r)
  PROVE  SlotsInv'
<1>1. /\ phase[r] = "new" /\ freeSlots # <<>> /\ freeSlots' = Tail(freeSlots)
      /\ idx' = [idx EXCEPT ![r] = Head(freeSlots)] /\ phase' = [phase EXCEPT ![r] = "prealloc"]
      /\ UNCHANGED batch
  BY Zenon DEF Prealloc
<1>2. /\ Len(freeSlots) \in Nat /\ Len(freeSlots') = Len(freeSlots) - 1 /\ idx'[r] = freeSlots[1]
      /\ \A i \in 1 .. Len(freeSlots') : i + 1 \in 1 .. Len(freeSlots) /\ freeSlots'[i] = freeSlots[i + 1]
      /\ 1 \in 1 .. Len(freeSlots)
  BY <1>1 DEF RowsOK, RequestsOK
<1>3. Live' = Live \cup {r} /\ r \notin Live /\ \A q \in Live : idx'[q] = idx[q]
  BY <1>1, Zenon DEF Live, RequestsOK
<1>4. \A i, j \in 1 .. Len(freeSlots') : freeSlots'[i] = freeSlots'[j] => i = j
  BY <1>2 DEF SlotsInv
<1>5. \A i \in 1 .. Len(freeSlots') : freeSlots'[i] # idx'[r]
  BY <1>2 DEF SlotsInv
<1>6. \A q \in Live : idx'[q] # idx'[r] /\ \A i \in 1 .. Len(freeSlots') : freeSlots'[i] # idx'[q]
  BY <1>2, <1>3 DEF SlotsInv
<1>7. \A q, p \in Live' : idx'[q] = idx'[p] => q = p
  BY <1>3, <1>6 DEF SlotsInv
<1>8. RowsNow' = RowsNow /\ \A k \in RowsNow : phase'[batch'[k]] = "running"
  <2>1. \A k \in RowsNow : batch[k] \in Reqs
    BY DEF RowsNow, RowsOK
  <2> QED
    BY <1>1, <2>1, Zenon DEF RowsNow, SlotsInv, RequestsOK
<1> QED
  BY <1>1, <1>3, <1>4, <1>5, <1>6, <1>7, <1>8 DEF SlotsInv

\* The rest of the admission path keeps every index where it is.
LEMMA SlotsAdmission ==
  ASSUME RequestsOK, RowsOK, SlotsInv, NEW r \in Reqs, TransferLands(r) \/ Commit(r) \/ Merge(r)
  PROVE  SlotsInv'
<1>1. /\ UNCHANGED <<idx, freeSlots>> /\ r \in Live /\ phase[r] # "running"
      /\ \E w \in {"landed", "waiting", "running"} : phase' = [phase EXCEPT ![r] = w]
  BY Zenon DEF TransferLands, Commit, Merge, Live
<1>2. Live' = Live
  BY <1>1, Zenon DEF Live, RequestsOK
<1>3. CASE UNCHANGED batch
  <2>1. RowsNow' = RowsNow /\ \A k \in RowsNow : phase'[batch'[k]] = "running"
    <3>1. \A k \in RowsNow : batch[k] \in Reqs
      BY DEF RowsNow, RowsOK
    <3> QED
      BY <1>1, <1>3, <3>1, Zenon DEF RowsNow, SlotsInv, RequestsOK
  <2> QED
    BY <1>1, <1>2, <1>3, <2>1, Zenon DEF SlotsInv
<1>4. CASE Merge(r)
  <2>1. batch' = Append(batch, r) /\ phase' = [phase EXCEPT ![r] = "running"]
    BY <1>4, Zenon DEF Merge
  <2>2. /\ Len(batch) \in Nat /\ Len(batch') = Len(batch) + 1
        /\ \A k \in RowsNow : batch[k] \in Reqs /\ batch[k] # r
        /\ \A k \in RowsNow' : (k \in RowsNow /\ batch'[k] = batch[k]) \/ (k = Len(batch) + 1 /\ batch'[k] = r)
    BY <1>1, <2>1 DEF RowsOK, RowsNow, SlotsInv
  <2>3. \A k \in RowsNow' : phase'[batch'[k]] = "running"
    BY <2>1, <2>2, Zenon DEF SlotsInv, RequestsOK
  <2>4. \A j, k \in RowsNow' : batch'[j] = batch'[k] => j = k
    BY <2>2, Zenon DEF SlotsInv
  <2> QED
    BY <1>1, <1>2, <2>3, <2>4, Zenon DEF SlotsInv
<1> QED
  BY <1>3, <1>4, Zenon DEF TransferLands, Commit

\* An increasing list of rows has each row once.
LEMMA IncreasingOnce ==
  ASSUME NEW n \in Nat, NEW f, \A i \in 1 .. n : f[i] \in Nat, \A i, j \in 1 .. n : i < j => f[i] < f[j]
  PROVE  \A i, j \in 1 .. n : f[i] = f[j] => i = j
<1> SUFFICES ASSUME NEW i \in 1 .. n, NEW j \in 1 .. n, f[i] = f[j], i # j PROVE FALSE
  OBVIOUS
<1>1. i < j \/ j < i
  OBVIOUS
<1>2. f[i] < f[j] \/ f[j] < f[i]
  BY <1>1, Zenon
<1> QED
  BY <1>2

\* free_slots with the indices f after it.
LEMMA SlotsAppended ==
  ASSUME NEW f \in Seq(PoolIdx), freeSlots \in Seq(PoolIdx), freeSlots' = freeSlots \o f
  PROVE  /\ Len(freeSlots') = Len(freeSlots) + Len(f)
         /\ \A i \in 1 .. Len(freeSlots) : freeSlots'[i] = freeSlots[i]
         /\ \A i \in 1 .. Len(f) : freeSlots'[Len(freeSlots) + i] = f[i]
OBVIOUS

\* Results put the slots of the finished rows at the end of the queue.
LEMMA SlotsResult ==
  ASSUME RequestsOK, RowsOK, SlotsInv, NEW Fin \in SUBSET Range(batch), Result(Fin)
  PROVE  SlotsInv'
<1>1. Len(batch) \in Nat /\ \A k \in RowsNow : batch[k] \in Reqs /\ batch[k] \in Live
  BY DEF RowsOK, RowsNow, SlotsInv, Live
<1>2. PICK gone \in RowLists({k \in RowsNow : batch[k] \in Fin}) :
        freeSlots' = freeSlots \o [k \in DOMAIN gone |-> idx[batch[gone[k]]]]
  BY Zenon DEF Result
<1>3. PICK m \in 0 .. Len(batch) :
        gone \in [1 .. m -> {k \in RowsNow : batch[k] \in Fin}] /\ \A i, j \in 1 .. m : i < j => gone[i] < gone[j]
  BY <1>2, Zenon DEF RowLists
<1>4. PICK stay \in RowLists({k \in RowsNow : batch[k] \notin Fin}) :
        batch' = [k \in DOMAIN stay |-> batch[stay[k]]]
  BY Zenon DEF Result
<1>5. PICK n \in 0 .. Len(batch) :
        stay \in [1 .. n -> {k \in RowsNow : batch[k] \notin Fin}] /\ \A i, j \in 1 .. n : i < j => stay[i] < stay[j]
  BY <1>4, Zenon DEF RowLists
<1>6. phase' = [r \in Reqs |-> IF r \in Fin THEN "done" ELSE phase[r]] /\ UNCHANGED idx
  BY Zenon DEF Result
<1>7. Live' = Live \ Fin
  BY <1>6, Zenon DEF Live
<1>8. /\ \A i \in 1 .. m : gone[i] \in RowsNow /\ batch[gone[i]] \in Fin /\ gone[i] \in Nat
      /\ \A i, j \in 1 .. m : gone[i] = gone[j] => i = j
  <2>1. m \in Nat /\ \A i \in 1 .. m : gone[i] \in RowsNow /\ batch[gone[i]] \in Fin /\ gone[i] \in Nat
    BY <1>1, <1>3 DEF RowsNow
  <2> QED
    BY <1>3, <2>1, IncreasingOnce, Zenon
<1>9. /\ \A k \in 1 .. n : stay[k] \in RowsNow /\ batch[stay[k]] \notin Fin /\ stay[k] \in Nat
      /\ \A i, j \in 1 .. n : stay[i] = stay[j] => i = j
  <2>1. n \in Nat /\ \A k \in 1 .. n : stay[k] \in RowsNow /\ batch[stay[k]] \notin Fin /\ stay[k] \in Nat
    BY <1>1, <1>5 DEF RowsNow
  <2> QED
    BY <1>5, <2>1, IncreasingOnce, Zenon
<1>10. /\ \A k \in RowsNow' : phase'[batch'[k]] = "running"
       /\ \A j, k \in RowsNow' : batch'[j] = batch'[k] => j = k
  <2>1. RowsNow' = 1 .. n /\ \A k \in 1 .. n : batch'[k] = batch[stay[k]]
    BY <1>4, <1>5 DEF RowsNow
  <2>2. \A k \in 1 .. n : phase'[batch'[k]] = "running"
    BY <1>1, <1>6, <1>9, <2>1, Zenon DEF SlotsInv
  <2>3. \A j, k \in 1 .. n : batch'[j] = batch'[k] => j = k
    BY <1>9, <2>1 DEF SlotsInv
  <2> QED
    BY <2>1, <2>2, <2>3, Zenon
<1> DEFINE freed == [k \in 1 .. m |-> idx[batch[gone[k]]]]
           N == Len(freeSlots)
<1>11. /\ N \in Nat /\ m \in Nat /\ Len(freeSlots') = N + m
       /\ \A i \in 1 .. N : freeSlots'[i] = freeSlots[i]
       /\ \A i \in 1 .. m : freeSlots'[N + i] = idx[batch[gone[i]]]
  <2>1. \A i \in 1 .. m : idx[batch[gone[i]]] \in PoolIdx
    BY <1>1, <1>8, Zenon DEF RequestsOK, RowsOK
  <2>2. DOMAIN gone = 1 .. m /\ m \in Nat /\ N \in Nat
    BY <1>1, <1>3 DEF RowsOK
  <2>3. freed \in Seq(PoolIdx) /\ Len(freed) = m
    BY <2>1, <2>2
  <2>4. freeSlots' = freeSlots \o freed /\ freeSlots \in Seq(PoolIdx)
    BY <1>2, <2>2, Zenon DEF RowsOK
  <2>5. \A i \in 1 .. m : freed[i] = idx[batch[gone[i]]]
    BY Zenon
  <2> HIDE DEF freed
  <2>6. /\ Len(freeSlots') = Len(freeSlots) + Len(freed)
        /\ \A i \in 1 .. Len(freeSlots) : freeSlots'[i] = freeSlots[i]
        /\ \A i \in 1 .. Len(freed) : freeSlots'[Len(freeSlots) + i] = freed[i]
    BY <2>3, <2>4, SlotsAppended, Zenon
  <2> HIDE DEF N
  <2>7. N = Len(freeSlots)
    BY Zenon DEF N
  <2> QED
    BY <2>2, <2>3, <2>5, <2>6, <2>7, Zenon
<1> HIDE DEF freed, N
<1>12. \A i, j \in 1 .. m : idx[batch[gone[i]]] = idx[batch[gone[j]]] => i = j
  BY <1>1, <1>8, Zenon DEF SlotsInv
<1>13. \A i \in 1 .. N, j \in 1 .. m : freeSlots[i] # idx[batch[gone[j]]]
  BY <1>1, <1>8, Zenon DEF SlotsInv, N
<1>14. \A i \in 1 .. N + m : i \in 1 .. N \/ \E j \in 1 .. m : i = N + j
  BY <1>11
<1>15. \A i, j \in 1 .. N + m : freeSlots'[i] = freeSlots'[j] => i = j
  <2> SUFFICES ASSUME NEW i \in 1 .. N + m, NEW j \in 1 .. N + m, freeSlots'[i] = freeSlots'[j] PROVE i = j
    OBVIOUS
  <2>1. CASE i \in 1 .. N /\ j \in 1 .. N
    <3>1. freeSlots[i] = freeSlots[j]
      BY <1>11, <2>1, Zenon
    <3> QED
      BY <2>1, <3>1, Zenon DEF SlotsInv, N
  <2>2. ASSUME NEW a \in 1 .. m, NEW b \in 1 .. m, i = N + a, j = N + b PROVE i = j
    BY <1>11, <1>12, <2>2, Zenon
  <2>3. ASSUME i \in 1 .. N, NEW b \in 1 .. m, j = N + b PROVE FALSE
    <3>1. freeSlots'[i] = freeSlots[i] /\ freeSlots'[j] = idx[batch[gone[b]]]
      BY <1>11, <2>3, Zenon
    <3>2. freeSlots[i] # idx[batch[gone[b]]]
      BY <1>13, <2>3, Zenon
    <3> QED
      BY <3>1, <3>2, Zenon
  <2>4. ASSUME j \in 1 .. N, NEW a \in 1 .. m, i = N + a PROVE FALSE
    <3>1. freeSlots'[j] = freeSlots[j] /\ freeSlots'[i] = idx[batch[gone[a]]]
      BY <1>11, <2>4, Zenon
    <3>2. freeSlots[j] # idx[batch[gone[a]]]
      BY <1>13, <2>4, Zenon
    <3> QED
      BY <3>1, <3>2, Zenon
  <2> QED
    BY <1>14, <2>1, <2>2, <2>3, <2>4, Zenon
<1>16. ASSUME NEW r \in Live', NEW i \in 1 .. N + m PROVE freeSlots'[i] # idx'[r]
  <2>1. r \in Live /\ r \notin Fin
    BY <1>7, Zenon
  <2>2. \A j \in 1 .. m : idx[batch[gone[j]]] # idx[r]
    BY <1>1, <1>8, <2>1, Zenon DEF SlotsInv
  <2>3. idx'[r] = idx[r]
    BY <1>6, Zenon
  <2>4. CASE i \in 1 .. N
    <3>1. freeSlots'[i] = freeSlots[i]
      BY <1>11, <2>4, Zenon
    <3> QED
      BY <2>1, <2>3, <2>4, <3>1, Zenon DEF SlotsInv, N
  <2>5. ASSUME NEW j \in 1 .. m, i = N + j PROVE freeSlots'[i] # idx'[r]
    <3>1. freeSlots'[i] = idx[batch[gone[j]]]
      BY <1>11, <2>5, Zenon
    <3> QED
      BY <2>2, <2>3, <3>1, Zenon
  <2> QED
    BY <1>14, <2>4, <2>5, Zenon
<1>17. ASSUME NEW r \in Live', NEW q \in Live', idx'[r] = idx'[q] PROVE r = q
  <2>1. r \in Live /\ q \in Live /\ idx[r] = idx[q]
    BY <1>6, <1>7, <1>17, Zenon
  <2> QED
    BY <2>1, Zenon DEF SlotsInv
<1> QED
  BY <1>10, <1>11, <1>15, <1>16, <1>17, Zenon DEF SlotsInv

\* The pool indices, through every step.
LEMMA SlotsStep ==
  ASSUME RequestsOK, RowsOK, SlotsInv, [Next]_vars
  PROVE  SlotsInv'
<1>1. ASSUME NEW r \in Reqs, Prealloc(r) \/ TransferLands(r) \/ Commit(r) \/ Merge(r) PROVE SlotsInv'
  BY <1>1, SlotsPrealloc, SlotsAdmission, Zenon
<1>2. ASSUME NEW F \in SUBSET Range(batch), Result(F) PROVE SlotsInv'
  BY <1>2, SlotsResult, Zenon
<1>3. ASSUME NEW F \in SUBSET Range(batch), BeginSame(F) \/ BeginChanged(F) PROVE UNCHANGED <<phase, idx, freeSlots, batch>>
  BY <1>3, Zenon DEF BeginSame, BeginChanged, PrepareForDecode
<1>4. ASSUME UNCHANGED <<phase, idx, freeSlots, batch>> PROVE SlotsInv'
  BY <1>4, Zenon DEF SlotsInv, Live, RowsNow
<1> QED
  BY <1>1, <1>2, <1>3, <1>4, SchedSteps, Zenon DEF schedVars

\* Slots are handed out one at a time and come back once: no two requests that
\* hold pages have the same pool index (DecodeReqToTokenPool.alloc and free).
THEOREM SlotsInvariant ==
  ASSUME IsInjective(FirstSlots)
  PROVE  Spec => []SlotsInv
<1>1. ServerInit => SlotsInv
  <2> SUFFICES ASSUME ServerInit PROVE SlotsInv
    OBVIOUS
  <2>1. Live = {}
    BY Zenon DEF ServerInit, Live
  <2>2. RowsNow = {}
    BY DEF ServerInit, RowsNow
  <2>3. freeSlots = FirstSlots /\ DOMAIN FirstSlots = 1 .. Len(FirstSlots)
    BY ServerAssumption DEF ServerInit
  <2> QED
    BY <2>1, <2>2, <2>3, Zenon DEF SlotsInv, IsInjective
<1>2. ServerInv /\ SlotsInv /\ [Next]_vars => SlotsInv'
  BY SlotsStep, Zenon DEF ServerInv
<1> QED
  BY <1>1, <1>2, ServerInvariant, PTL DEF Spec

-----------------------------------------------------------------------------
(* A recall that fits.                                                     *)

\* A recall in flight fits, and has not raised.
RecallFits ==
  /\ rpc # "idle" => IsFiniteSet(sel) /\ Cardinality(sel) <= MaxBlocks
  /\ rpc # "failed"

\* Whatever the rows of the cycle select fits the recall region.
SelectionsFit ==
  \A L \in [snap -> SUBSET (1 .. PagesFor(MaxChunks))] : \A S \in SUBSET Pages :
    /\ \A s \in snap : L[s] \in Selections(s)
    /\ \A p \in S : \E s \in snap : \E l \in L[s] : p = s.pages[l]
    => IsFiniteSet(S) /\ Cardinality(S) <= MaxBlocks

\* The fit of a recall, through every step: only Start chooses what to recall,
\* and a fitting one does not raise.
LEMMA RecallFitsStep ==
  ASSUME ServerInv, EngineInv, RecallFits, [Next]_vars,
         SelectionsFit, rpc = "alloc" => \A p \in todo : ~AllocFail(p)
  PROVE  RecallFits'
<1>1. CASE Select
  <2>1. PICK L \in [snap -> SUBSET (1 .. PagesFor(MaxChunks))] :
          /\ \A s \in snap : L[s] \in Selections(s)
          /\ LET own == [i \in PoolIdx |->
                          UNION {RecalledPages(s, L[s]) : s \in {s \in snap : s.idx = i}}]
             IN Start(own, UNION {own[i] : i \in PoolIdx})
    BY <1>1, Zenon DEF Select
  <2> DEFINE own == [i \in PoolIdx |-> UNION {RecalledPages(s, L[s]) : s \in {s \in snap : s.idx = i}}]
             S == UNION {own[i] : i \in PoolIdx}
  <2>2. Start(own, S)
    BY <2>1, Zenon
  <2>3. ASSUME NEW p \in S PROVE \E s \in snap : \E l \in L[s] : p = s.pages[l]
    <3>1. PICK i \in PoolIdx : p \in UNION {RecalledPages(s, L[s]) : s \in {s \in snap : s.idx = i}}
      BY Zenon
    <3>2. PICK s \in snap : p \in RecalledPages(s, L[s])
      BY <3>1, Zenon
    <3> QED
      BY <3>2, Zenon DEF RecalledPages
  <2> HIDE DEF own, S
  <2>4. CASE rpc' = "idle"
    BY <2>4, Zenon DEF RecallFits
  <2>5. CASE rpc' # "idle"
    <3>1. rpc' = "alloc" /\ sel' = S
      BY <2>2, <2>5, Zenon DEF Start, RecallMiss, recallVars
    <3>2. EngineNext
      BY <1>1, SelectIsStart, Zenon DEF ServerInv
    <3>3. S \in SUBSET Pages
      BY <3>1, <3>2, InvNext, Zenon DEF EngineInv, EngineTypeOK
    <3>4. IsFiniteSet(S) /\ Cardinality(S) <= MaxBlocks
      BY <2>1, <2>3, <3>3, Zenon DEF SelectionsFit
    <3> QED
      BY <3>1, <3>4, Zenon DEF RecallFits
  <2> QED
    BY <2>4, <2>5, Zenon
<1>2. CASE Recall
  <2>1. CASE Alloc
    <3>1. PICK p \in todo : AllocMapped(p) \/ AllocFree(p) \/ AllocNext(p) \/ AllocEvict(p) \/ AllocFail(p)
      BY <2>1, Zenon DEF Alloc, RecallAlloc
    <3>2. rpc = "alloc"
      BY <2>1, Zenon DEF Alloc, RecallAlloc
    <3>3. ~AllocFail(p)
      BY <3>1, <3>2, Zenon
    <3>4. rpc' = rpc /\ sel' = sel
      BY <3>1, <3>3, Zenon DEF AllocMapped, AllocFree, AllocNext, AllocEvict, Assign
    <3> QED
      BY <3>4, Zenon DEF RecallFits
  <2>2. CASE Guard \/ Copy \/ Scatter
    BY <2>2, Zenon DEF RecallFits, Guard, RecallGuard, Copy, RecallCopy, Scatter, RecallScatter, RecallReturns
  <2> QED
    BY <1>2, <2>1, <2>2, Zenon DEF Recall
<1>3. CASE SidebandFails
  BY <1>3, Zenon DEF RecallFits, SidebandFails, Raised, RecallRaised
<1>4. ASSUME NEW r \in Reqs, Prealloc(r) \/ Commit(r) \/ Merge(r) \/ StoreRow(r) \/ TransferLands(r)
      PROVE  UNCHANGED <<rpc, sel>>
  BY <1>4, Zenon DEF Prealloc, Commit, Admit, Merge, StoreRow, Store, TransferLands, Land, recallVars, engineVars
<1>5. ASSUME NEW F \in SUBSET Range(batch), BeginSame(F) \/ BeginChanged(F) \/ Result(F)
      PROVE  UNCHANGED <<rpc, sel>>
  BY <1>5, Zenon DEF BeginSame, BeginChanged, ReleaseAtBegin, ReleaseOwned, Release, Result, recallVars, engineVars
<1>6. ASSUME Remap \/ ReadDone \/ EndQuiet \/ EndDue \/ EndInline \/ Publish \/ RebuildMeta \/ Idle \/ UNCHANGED vars
      PROVE  UNCHANGED <<rpc, sel>>
  BY <1>6, Zenon DEF Remap, ReadDone, EndQuiet, EndDue, EndInline, Publish, RebuildMeta, Idle, vars, engineVars
<1> QED
  BY <1>1, <1>2, <1>3, <1>4, <1>5, <1>6, Zenon DEF RecallFits, Next, Scheduler, Sideband

\* Pages that different rows select have different places among the selections.
LEMMA PageIndices ==
  ASSUME SnapOK, SnapRows, NEW S, NEW L,
         \A p \in S : \E s \in snap : \E l \in L[s] : p = s.pages[l],
         \A s \in snap : \E h \in [L[s] -> 1 .. KMax] : \A x, y \in L[s] : h[x] = h[y] => x = y
  PROVE  \E f \in [S -> RowIds \X (1 .. KMax)] : \A p, q \in S : f[p] = f[q] => p = q
<1> DEFINE Index == [s \in snap |-> CHOOSE h \in [L[s] -> 1 .. KMax] : \A x, y \in L[s] : h[x] = h[y] => x = y]
           From == [p \in S |-> CHOOSE s \in snap : \E l \in L[s] : p = s.pages[l]]
           At == [p \in S |-> CHOOSE l \in L[From[p]] : p = From[p].pages[l]]
           f == [p \in S |-> <<From[p].row, Index[From[p]][At[p]]>>]
<1>1. \A s \in snap : /\ Index[s] \in [L[s] -> 1 .. KMax]
                      /\ \A x, y \in L[s] : Index[s][x] = Index[s][y] => x = y
  BY Zenon
<1>2. \A p \in S : From[p] \in snap /\ \E l \in L[From[p]] : p = From[p].pages[l]
  BY Zenon
<1> HIDE DEF Index, From
<1>3. \A p \in S : At[p] \in L[From[p]] /\ p = From[p].pages[At[p]]
  BY <1>2, Zenon
<1> HIDE DEF At
<1>4. \A p \in S : f[p] = <<From[p].row, Index[From[p]][At[p]]>>
  BY Zenon
<1>5. f \in [S -> RowIds \X (1 .. KMax)]
  <2>1. \A p \in S : From[p].row \in RowIds
    BY <1>2, Zenon DEF SnapOK
  <2>2. \A p \in S : Index[From[p]] \in [L[From[p]] -> 1 .. KMax]
    BY <1>1, <1>2, Zenon
  <2>3. \A p \in S : Index[From[p]][At[p]] \in 1 .. KMax
    BY <1>3, <2>2
  <2>4. ASSUME NEW p \in S PROVE <<From[p].row, Index[From[p]][At[p]]>> \in RowIds \X (1 .. KMax)
    BY <2>1, <2>3, Zenon
  <2> QED
    BY <2>4, Zenon
<1> HIDE DEF f
<1>6. ASSUME NEW p \in S, NEW q \in S, f[p] = f[q] PROVE p = q
  <2>1. From[p].row = From[q].row /\ Index[From[p]][At[p]] = Index[From[q]][At[q]]
    BY <1>4, <1>6
  <2>2. From[p] = From[q]
    BY <1>2, <2>1, Zenon DEF SnapRows
  <2>3. At[p] = At[q]
    <3>1. At[p] \in L[From[p]] /\ At[q] \in L[From[p]] /\ Index[From[p]][At[p]] = Index[From[p]][At[q]]
      BY <1>3, <2>1, <2>2, Zenon
    <3> QED
      BY <1>1, <1>2, <3>1, Zenon
  <2>4. p = From[p].pages[At[p]] /\ q = From[q].pages[At[q]]
    BY <1>3, Zenon
  <2> QED
    BY <2>2, <2>3, <2>4
<1> QED
  BY <1>5, <1>6, Zenon

-----------------------------------------------------------------------------
(* Pool indices handed out once.                                           *)

\* A pool index is not handed out again while the capturer still has it as the
\* occupant of a row.  free_slots is a queue, so this fails only when it runs
\* empty between two steps: then a new request in the row of the old one looks
\* like it to _reset_changed_rows.
FreshIndex == \A r \in Reqs : phase[r] = "new" /\ phase'[r] = "prealloc" => idx'[r] \notin Range(occ)

\* At least as many slots are free as the batch has rows.
SpareSlots == Len(freeSlots) >= MaxRunning

\* free_slots is a queue: the free indices that the capturer still has as
\* occupants of rows are those the last results appended, a batch's worth at its
\* end.  In a forward there is none.
FreedLast ==
  /\ InForward => occ = ReqIds
  /\ \A i \in 1 .. Len(freeSlots) : freeSlots[i] \in Range(occ) => Len(freeSlots) < i + MaxRunning

\* The index at the head of a queue that stays long enough is in no row.
LEMMA FreedLastPrealloc ==
  ASSUME RequestsOK, RowsOK, FreedLast, SpareSlots', NEW r \in Reqs, Prealloc(r)
  PROVE  /\ \A i \in 1 .. Len(freeSlots') : freeSlots'[i] \in Range(occ') => Len(freeSlots') < i + MaxRunning
         /\ idx'[r] \notin Range(occ)
<1>1. /\ freeSlots # <<>> /\ freeSlots' = Tail(freeSlots) /\ idx' = [idx EXCEPT ![r] = Head(freeSlots)]
      /\ UNCHANGED occ
  BY Zenon DEF Prealloc, rowVars
<1>2. /\ Len(freeSlots) \in Nat /\ Len(freeSlots) = Len(freeSlots') + 1 /\ MaxRunning \in Nat
      /\ \A i \in 1 .. Len(freeSlots') : i + 1 \in 1 .. Len(freeSlots) /\ freeSlots'[i] = freeSlots[i + 1]
  BY <1>1, ServerAssumption DEF RowsOK
<1>3. ASSUME NEW i \in 1 .. Len(freeSlots'), freeSlots'[i] \in Range(occ')
      PROVE  Len(freeSlots') < i + MaxRunning
  <2>1. i + 1 \in 1 .. Len(freeSlots) /\ freeSlots[i + 1] \in Range(occ)
    BY <1>1, <1>2, <1>3, Zenon
  <2>2. Len(freeSlots) < (i + 1) + MaxRunning
    BY <2>1, Zenon DEF FreedLast
  <2> QED
    BY <1>2, <2>2
<1>4. idx'[r] \notin Range(occ)
  <2>1. idx'[r] = freeSlots[1]
    BY <1>1 DEF RequestsOK, RowsOK
  <2>2. 1 \in 1 .. Len(freeSlots) /\ ~(Len(freeSlots) < 1 + MaxRunning)
    BY <1>2 DEF SpareSlots
  <2> QED
    BY <2>1, <2>2, Zenon DEF FreedLast
<1> QED
  BY <1>3, <1>4, Zenon

\* Indices of live requests are not free.
LEMMA BatchNotFree ==
  ASSUME RequestsOK, RowsOK, SlotsInv, NEW i \in 1 .. Len(freeSlots)
  PROVE  freeSlots[i] \notin Range(ReqIds)
<1>1. \A k \in RowsNow : batch[k] \in Live
  BY DEF RowsOK, RowsNow, SlotsInv, Live
<1>2. Range(ReqIds) = {idx[batch[k]] : k \in RowsNow}
  BY Zenon DEF Range, ReqIds
<1> QED
  BY <1>1, <1>2, Zenon DEF SlotsInv

\* Results append no more than a batch of indices.
LEMMA FreedLastResult ==
  ASSUME RequestsOK, RowsOK, SlotsInv, FreedLast, NEW F \in SUBSET Range(batch), Result(F)
  PROVE  \A i \in 1 .. Len(freeSlots') : freeSlots'[i] \in Range(occ') => Len(freeSlots') < i + MaxRunning
<1>1. occ' = occ /\ occ = ReqIds
  BY Zenon DEF Result, rowVars, FreedLast, InForward
<1>2. PICK t \in Seq(PoolIdx) : freeSlots' = freeSlots \o t /\ Len(t) <= Len(batch)
  <2>1. PICK gone \in RowLists({k \in RowsNow : batch[k] \in F}) :
          freeSlots' = freeSlots \o [k \in DOMAIN gone |-> idx[batch[gone[k]]]]
    BY Zenon DEF Result
  <2>2. PICK m \in 0 .. Len(batch) : gone \in [1 .. m -> {k \in RowsNow : batch[k] \in F}]
    BY <2>1, Zenon DEF RowLists
  <2>3. \A k \in RowsNow : idx[batch[k]] \in PoolIdx
    BY DEF RequestsOK, RowsOK, RowsNow
  <2> DEFINE t == [k \in DOMAIN gone |-> idx[batch[gone[k]]]]
  <2>4. t \in Seq(PoolIdx) /\ Len(t) = m
    BY <2>2, <2>3
  <2>5. Len(t) <= Len(batch)
    BY <2>2, <2>4 DEF RowsOK
  <2> QED
    BY <2>1, <2>4, <2>5, Zenon
<1>3. /\ Len(freeSlots') = Len(freeSlots) + Len(t)
      /\ \A i \in 1 .. Len(freeSlots) : freeSlots'[i] = freeSlots[i]
  BY <1>2, SlotsAppended, Zenon DEF RowsOK
<1>4. ASSUME NEW i \in 1 .. Len(freeSlots'), freeSlots'[i] \in Range(occ')
      PROVE  Len(freeSlots') < i + MaxRunning
  <2>1. i \notin 1 .. Len(freeSlots)
    BY <1>1, <1>3, <1>4, BatchNotFree, Zenon
  <2>2. Len(freeSlots) \in Nat /\ Len(t) \in Nat /\ Len(batch) \in Nat /\ MaxRunning \in Nat /\ Len(batch) <= MaxRunning
    BY <1>2, ServerAssumption DEF RowsOK
  <2> QED
    BY <1>2, <1>3, <2>1, <2>2
<1> QED
  BY <1>4, Zenon

\* Through every step, as long as the queue stays that long.
LEMMA FreedLastStep ==
  ASSUME RequestsOK, RowsOK, SlotsInv, FreedLast, SpareSlots', [Next]_vars
  PROVE  FreedLast' /\ FreshIndex
<1>0. InForward' => occ' = ReqIds'
  BY OccupantsStep, Zenon DEF FreedLast
<1> DEFINE Last == \A i \in 1 .. Len(freeSlots) : freeSlots[i] \in Range(occ) => Len(freeSlots) < i + MaxRunning
<1>1. ASSUME NEW r \in Reqs, Prealloc(r) PROVE Last' /\ FreshIndex
  <2>1. Last' /\ idx'[r] \notin Range(occ)
    BY <1>1, FreedLastPrealloc, Zenon
  <2>2. \A q \in Reqs : q # r => phase'[q] = phase[q]
    BY <1>1, Zenon DEF Prealloc, RequestsOK
  <2> QED
    BY <2>1, <2>2, Zenon DEF FreshIndex
<1>2. ASSUME NEW r \in Reqs, TransferLands(r) \/ Commit(r) \/ Merge(r)
      PROVE  UNCHANGED <<freeSlots, occ>> /\ \A q \in Reqs : phase'[q] # "prealloc" \/ phase[q] # "new"
  <2>1. /\ UNCHANGED <<freeSlots, occ>>
        /\ \E w \in {"landed", "waiting", "running"} : phase' = [phase EXCEPT ![r] = w]
    BY <1>2, Zenon DEF TransferLands, Commit, Merge, rowVars
  <2> QED
    BY <2>1, Zenon DEF RequestsOK
<1>3. ASSUME NEW F \in SUBSET Range(batch), BeginSame(F)
      PROVE  UNCHANGED <<freeSlots, occ>> /\ \A q \in Reqs : phase'[q] # "prealloc" \/ phase[q] # "new"
  BY <1>3, Zenon DEF BeginSame, PrepareForDecode, rowVars
<1>4. ASSUME UNCHANGED <<freeSlots, occ>>, \A q \in Reqs : phase'[q] # "prealloc" \/ phase[q] # "new"
      PROVE  Last' /\ FreshIndex
  BY <1>4, Zenon DEF FreedLast, FreshIndex
<1>5. ASSUME NEW F \in SUBSET Range(batch), BeginChanged(F) PROVE Last' /\ FreshIndex
  <2>1. occ' = ReqIds /\ UNCHANGED <<phase, freeSlots>>
    BY <1>5, Zenon DEF BeginChanged, ResetRows, PrepareForDecode
  <2> QED
    BY <2>1, BatchNotFree, Zenon DEF FreshIndex
<1>6. ASSUME NEW F \in SUBSET Range(batch), Result(F) PROVE Last' /\ FreshIndex
  <2>1. Last'
    BY <1>6, FreedLastResult, Zenon
  <2>2. phase' = [r \in Reqs |-> IF r \in F THEN "done" ELSE phase[r]]
    BY <1>6, Zenon DEF Result
  <2> QED
    BY <2>1, <2>2, Zenon DEF FreshIndex
<1>7. ASSUME UNCHANGED schedVars, \A F \in SUBSET Range(batch) : ~BeginChanged(F)
      PROVE  UNCHANGED <<freeSlots, occ>> /\ \A q \in Reqs : phase'[q] # "prealloc" \/ phase[q] # "new"
  <2>1. ASSUME EndQuiet \/ EndDue \/ Select \/ Publish \/ RebuildMeta \/ SidebandFails PROVE UNCHANGED occ
    BY <2>1, Zenon DEF EndQuiet, EndDue, Select, Publish, RebuildMeta, SidebandFails, rowVars
  <2>2. UNCHANGED occ
    BY <1>7, <2>1, QuietSteps, Zenon
  <2> QED
    BY <1>7, <2>2, Zenon DEF schedVars
<1> HIDE DEF Last
<1>8. Last' /\ FreshIndex
  BY <1>1, <1>2, <1>3, <1>4, <1>5, <1>6, <1>7, SchedSteps, Zenon
<1> QED
  BY <1>0, <1>8, Zenon DEF FreedLast, Last

-----------------------------------------------------------------------------
(* Decode slots handed out once.                                           *)

\* Only transfers write the mirror, and only commits register a request.
LEMMA MirrorSteps ==
  ASSUME [Next]_vars, \A r \in Reqs : ~TransferLands(r) /\ ~Commit(r)
  PROVE  UNCHANGED <<mirror, prefillChunks, decodeSlot, nextSlot>>
<1>1. ASSUME NEW r \in Reqs, Prealloc(r) \/ Merge(r) \/ StoreRow(r)
      PROVE  UNCHANGED <<mirror, prefillChunks, decodeSlot, nextSlot>>
  BY <1>1, Zenon DEF Prealloc, Merge, StoreRow, Store, engineVars, decodeVars
<1>2. ASSUME NEW F, BeginSame(F) \/ Result(F) PROVE UNCHANGED <<mirror, prefillChunks, decodeSlot, nextSlot>>
  BY <1>2, Zenon DEF BeginSame, Result, engineVars
<1>3. ASSUME NEW F, BeginChanged(F) PROVE UNCHANGED <<mirror, prefillChunks, decodeSlot, nextSlot>>
  BY <1>3, Zenon DEF BeginChanged, ReleaseAtBegin, Release, ReleaseOwned, engineVars, decodeVars
<1>4. ASSUME Remap \/ ReadDone \/ EndQuiet \/ EndDue \/ EndInline \/ Publish \/ RebuildMeta \/ UNCHANGED vars
      PROVE  UNCHANGED <<mirror, prefillChunks, decodeSlot, nextSlot>>
  BY <1>4, Zenon DEF Remap, ReadDone, EndQuiet, EndDue, EndInline, Publish, RebuildMeta, vars, engineVars
<1>5. ASSUME Select \/ Recall \/ SidebandFails PROVE UNCHANGED <<mirror, prefillChunks, decodeSlot, nextSlot>>
  BY <1>5, Zenon DEF Select, Start, Recall, Alloc, Guard, Copy, Scatter, SidebandFails, Raised, decodeVars
<1> QED
  BY <1>1, <1>2, <1>3, <1>4, <1>5, Zenon DEF Next, Scheduler, Sideband, Idle

\* The pool indices that have a decode slot.
Given == {i \in PoolIdx : decodeSlot[i] # -1}

\* Different pool indices have different decode slots.
DecodeSlotsApart ==
  \A i, j \in PoolIdx : decodeSlot[i] \in Slots /\ decodeSlot[i] = decodeSlot[j] => i = j

\* Until the slots have been handed out once, the counter is their number.
GivenInv ==
  /\ nextSlot = Cardinality(Given)
  /\ \A i \in Given : decodeSlot[i] < nextSlot
  /\ DecodeSlotsApart

\* While the counter has not wrapped, a slot handed out is a new one
\* (register_decode_req).
LEMMA RegisterKeeps ==
  ASSUME EngineTypeOK, GivenInv, NEW i \in PoolIdx, NEW n, RegisterDecodeReq(i, n),
         i \notin Given => nextSlot < MaxConc /\ Cardinality(Given \cup {i}) = Cardinality(Given) + 1
  PROVE  GivenInv'
<1>1. decodeSlot \in [PoolIdx -> Slots \cup {-1}] /\ nextSlot \in Nat /\ MaxConc \in Nat \ {0}
  BY SizesAssumption, Zenon DEF EngineTypeOK
<1>2. \A k \in PoolIdx : decodeSlot[k] < 0 <=> decodeSlot[k] = -1
  BY <1>1 DEF Slots
<1>3. CASE ~(decodeSlot[i] < 0)
  <2>1. UNCHANGED <<decodeSlot, nextSlot>>
    BY <1>3, Zenon DEF RegisterDecodeReq
  <2> QED
    BY <2>1, Zenon DEF GivenInv, Given, DecodeSlotsApart
<1>4. CASE decodeSlot[i] < 0
  <2>1. i \notin Given /\ decodeSlot[i] = -1
    BY <1>2, <1>4, Zenon DEF Given
  <2>2. Cardinality(Given \cup {i}) = Cardinality(Given) + 1
    BY <2>1, Zenon
  <2>3. nextSlot = Cardinality(Given)
    BY Zenon DEF GivenInv
  <2>4. nextSlot < MaxConc
    BY <2>1, Zenon
  <2>5. nextSlot % MaxConc = nextSlot
    BY <1>1, <2>4
  <2>6. decodeSlot' = [decodeSlot EXCEPT ![i] = nextSlot] /\ nextSlot' = nextSlot + 1
    BY <1>4, <2>5, Zenon DEF RegisterDecodeReq
  <2>7. decodeSlot'[i] = nextSlot /\ \A k \in PoolIdx : k # i => decodeSlot'[k] = decodeSlot[k]
    BY <1>1, <2>6, Zenon
  <2>8. nextSlot # -1
    BY <1>1
  <2>9. Given' = Given \cup {i}
    BY <2>7, <2>8, Zenon DEF Given
  <2>10. nextSlot' = Cardinality(Given)'
    BY <2>2, <2>3, <2>6, <2>9, Zenon
  <2>11. ASSUME NEW k \in Given' PROVE decodeSlot'[k] < nextSlot'
    <3>1. CASE k = i
      BY <1>1, <2>6, <2>7, <3>1
    <3>2. CASE k # i
      <4>1. k \in PoolIdx /\ k \in Given /\ decodeSlot'[k] = decodeSlot[k]
        BY <2>7, <2>9, <2>11, <3>2, Zenon DEF Given
      <4>2. decodeSlot[k] < nextSlot /\ decodeSlot[k] \in Slots \cup {-1}
        BY <1>1, <4>1, Zenon DEF GivenInv
      <4>3. decodeSlot[k] \in Int
        BY <4>2 DEF Slots
      <4> QED
        BY <1>1, <2>6, <4>1, <4>2, <4>3
    <3> QED
      BY <3>1, <3>2, Zenon
  <2>12. ASSUME NEW k \in PoolIdx, k # i PROVE decodeSlot'[k] # nextSlot
    <3>1. decodeSlot'[k] = decodeSlot[k] /\ decodeSlot[k] \in Slots \cup {-1}
      BY <1>1, <2>7, <2>12, Zenon
    <3>2. decodeSlot[k] # -1 => decodeSlot[k] < nextSlot
      BY <2>12, Zenon DEF GivenInv, Given
    <3> QED
      BY <1>1, <3>1, <3>2 DEF Slots
  <2>13. ASSUME NEW a \in PoolIdx, NEW b \in PoolIdx, decodeSlot'[a] \in Slots, decodeSlot'[a] = decodeSlot'[b]
         PROVE  a = b
    <3>1. CASE a = i
      BY <2>7, <2>12, <2>13, <3>1, Zenon
    <3>2. CASE b = i
      BY <2>7, <2>12, <2>13, <3>2, Zenon
    <3>3. CASE a # i /\ b # i
      BY <2>7, <2>13, <3>3, Zenon DEF GivenInv, DecodeSlotsApart
    <3> QED
      BY <3>1, <3>2, <3>3, Zenon
  <2> QED
    BY <2>10, <2>11, <2>13, Zenon DEF GivenInv, DecodeSlotsApart
<1> QED
  BY <1>3, <1>4, Zenon

\* The decode slots, through every step.
LEMMA GivenStep ==
  ASSUME ServerInv, EngineInv, GivenInv, [Next]_vars,
         \A i \in PoolIdx : i \notin Given =>
           nextSlot < MaxConc /\ Cardinality(Given \cup {i}) = Cardinality(Given) + 1
  PROVE  GivenInv'
<1>1. ASSUME NEW r \in Reqs, Commit(r) PROVE GivenInv'
  <2>1. idx[r] \in PoolIdx /\ RegisterDecodeReq(idx[r], PrefillLen[r])
    BY <1>1, Zenon DEF Commit, Admit, ServerInv, RequestsOK
  <2> QED
    BY <2>1, RegisterKeeps, Zenon DEF EngineInv
<1>2. ASSUME UNCHANGED <<decodeSlot, nextSlot>> PROVE GivenInv'
  BY <1>2, Zenon DEF GivenInv, Given, DecodeSlotsApart
<1>3. ASSUME NEW r \in Reqs, TransferLands(r) PROVE UNCHANGED <<decodeSlot, nextSlot>>
  BY <1>3, Zenon DEF TransferLands, Land, decodeVars
<1> QED
  BY <1>1, <1>2, <1>3, MirrorSteps, Zenon

-----------------------------------------------------------------------------
(* Pages at the end of a prefill.                                          *)

\* Chunk j of r was decoded into a page that also has prefill chunks.
OnBoundary(r, j) == PrefillLen[r] <= j /\ PS * (j \div PS) < PrefillLen[r]

\* While the cycle runs the scheduler waits: only transfers fall in between.
LEMMA InlineSteps ==
  ASSUME ~Async, ScheduleInv, tpc # "none", [Next]_vars
  PROVE  (\E r \in Reqs : TransferLands(r)) \/ Sideband \/ UNCHANGED vars
<1>1. mpc = "inline"
  BY Zenon DEF ScheduleInv
<1>2. ASSUME NEW r \in Reqs PROVE ~Prealloc(r) /\ ~Commit(r) /\ ~Merge(r) /\ ~StoreRow(r)
  BY <1>1, Zenon DEF Prealloc, Commit, Merge, StoreRow
<1>3. ~Remap /\ ~ReadDone /\ ~EndQuiet /\ ~EndDue /\ ~EndInline
  BY <1>1, Zenon DEF Remap, ReadDone, EndQuiet, EndDue, EndInline
<1>4. \A F : ~BeginSame(F) /\ ~BeginChanged(F) /\ ~Result(F)
  BY <1>1, Zenon DEF BeginSame, BeginChanged, ReadyToDecode, Result
<1> QED
  BY <1>2, <1>3, <1>4, Zenon DEF Next, Scheduler, Idle

===============================================================================
