--------------------------- MODULE DecodeServerRows ---------------------------
(***************************************************************************)
(* Whose chunks a row of the resident-mask capturer describes, who holds   *)
(* which pages, what a release takes, and what a transfer brings: for any  *)
(* number of requests, rows, pages and blocks.                             *)
(***************************************************************************)
EXTENDS DecodeServerProofs

-----------------------------------------------------------------------------
(* Whose chunks a row describes.                                           *)

SnapChunks(s) == {ChunkAt(s.pages, j) : j \in 0 .. s.n - 1}

\* What a row's buffer or a snapshot lists is of the live request that has the
\* row's pool index.
OccupantsInv ==
  /\ \A k \in RowIds : k <= Len(occ) =>
       \A r \in Live : idx[r] = occ[k] => ploc[k] \subseteq ChunksOf(r)
  /\ \A s \in snap : /\ s.row <= Len(occ) /\ s.idx = occ[s.row]
                     /\ \A r \in Live : idx[r] = s.idx => SnapChunks(s) \subseteq ChunksOf(r)
  /\ InForward => occ = ReqIds

\* A request's chunks stay its chunks while it grows.
LEMMA ChunksGrow ==
  ASSUME RequestsOK, NEW F, PrepareForDecode(F), NEW r \in Reqs
  PROVE  ChunksOf(r) \subseteq ChunksOf(r)'
<1>1. PICK f \in [{q \in F : NeedsPage(q)} -> FreePages] :
        kv' = [q \in Reqs |-> IF q \in DOMAIN f THEN Append(kv[q], f[q]) ELSE kv[q]]
  BY Zenon DEF PrepareForDecode
<1>2. kv[r] \in Seq(Pages) /\ Len(kv[r]) \in Nat /\ len[r] \in Nat /\ len[r] <= PS * Len(kv[r])
  BY SizesAssumption DEF RequestsOK
<1>3. len'[r] \in Int /\ len'[r] >= len[r]
  <2>1. len'[r] = IF r \in F THEN len[r] + 1 ELSE len[r]
    BY Zenon DEF PrepareForDecode
  <2> QED
    BY <1>2, <2>1
<1>4. \A i \in 1 .. Len(kv[r]) : kv'[r][i] = kv[r][i]
  <2>1. kv'[r] = kv[r] \/ kv'[r] = Append(kv[r], f[r])
    BY <1>1, Zenon
  <2> QED
    BY <1>2, <2>1
<1>5. ASSUME NEW j \in 0 .. len[r] - 1 PROVE ChunkAt(kv[r], j) \in ChunksOf(r)'
  <2>1. j \in Nat /\ j < PS * Len(kv[r]) /\ j \in 0 .. len'[r] - 1
    BY <1>2, <1>3, SizesAssumption
  <2>2. j \div PS + 1 \in 1 .. Len(kv[r])
    BY <1>2, <2>1, PageOfChunk, Zenon
  <2>3. ChunkAt(kv'[r], j) = ChunkAt(kv[r], j)
    BY <1>4, <2>2, Zenon DEF ChunkAt
  <2> QED
    BY <2>1, <2>3, Zenon DEF ChunksOf
<1> QED
  BY <1>5, Zenon DEF ChunksOf

\* on_forward_begin resets the rows with a new occupant; the rest describe
\* the requests they described.
LEMMA OccupantsBegin ==
  ASSUME RequestsOK, RowsOK, SnapRows, SlotsInv, OccupantsInv, NEW F \in SUBSET Range(batch), BeginChanged(F)
  PROVE  OccupantsInv'
<1>1. /\ tpc = "none" /\ snap' = snap /\ occ' = ReqIds /\ PrepareForDecode(F)
      /\ ploc' = [k \in RowIds |-> IF k \in ChangedRows \cup TailRows THEN {} ELSE ploc[k]]
  BY Zenon DEF BeginChanged, ResetRows, threadVars
<1>2. snap' = {}
  BY <1>1, Zenon DEF SnapRows
<1>3. UNCHANGED <<phase, idx, batch>> /\ Live' = Live /\ ReqIds' = ReqIds
  BY <1>1, Zenon DEF PrepareForDecode, Live, ReqIds, RowsNow
<1>4. Len(occ') = Len(batch) /\ Len(batch) \in Nat /\ Len(occ) \in Nat
  BY <1>1, ReqIdsFacts DEF RowsOK
<1>5. ASSUME NEW k \in RowIds, k <= Len(occ'), NEW r \in Live', idx'[r] = occ'[k]
      PROVE  ploc'[k] \subseteq ChunksOf(r)'
  <2>1. CASE k \in ChangedRows \cup TailRows
    BY <1>1, <2>1, Zenon
  <2>2. CASE k \notin ChangedRows \cup TailRows
    <3>1. k \in RowsNow
      BY <1>4, <1>5 DEF RowsNow, RowIds
    <3>2. ~(k > Len(occ)) /\ occ[k] = ReqIds[k]
      BY <2>2, <3>1, Zenon DEF ChangedRows
    <3>3. k <= Len(occ)
      BY <1>4, <3>2 DEF RowIds
    <3>4. ploc[k] \subseteq ChunksOf(r)
      BY <1>1, <1>3, <1>5, <3>2, <3>3, Zenon DEF OccupantsInv
    <3>5. ChunksOf(r) \subseteq ChunksOf(r)'
      BY <1>1, <1>3, ChunksGrow, Zenon DEF Live
    <3> QED
      BY <1>1, <2>2, <3>4, <3>5, Zenon
  <2> QED
    BY <2>1, <2>2, Zenon
<1> QED
  BY <1>1, <1>2, <1>3, <1>5, Zenon DEF OccupantsInv

\* Steps after which the live requests are live before, with the same indices
\* and at least the same chunks, and the buffers are as they were.
LEMMA OccupantsKept ==
  ASSUME OccupantsInv, UNCHANGED <<occ, ploc>>, snap' \subseteq snap, InForward' => occ' = ReqIds',
         \A r \in Live' : r \in Live /\ idx'[r] = idx[r] /\ ChunksOf(r) \subseteq ChunksOf(r)'
  PROVE  OccupantsInv'
<1>1. \A k \in RowIds : k <= Len(occ') => \A r \in Live' : idx'[r] = occ'[k] => ploc'[k] \subseteq ChunksOf(r)'
  BY Zenon DEF OccupantsInv
<1>2. \A s \in snap' : s.row <= Len(occ') /\ s.idx = occ'[s.row]
  BY Zenon DEF OccupantsInv
<1>3. \A s \in snap' : \A r \in Live' : idx'[r] = s.idx => SnapChunks(s) \subseteq ChunksOf(r)'
  BY Zenon DEF OccupantsInv
<1> QED
  BY <1>1, <1>2, <1>3, Zenon DEF OccupantsInv, SnapChunks

\* A cycle is handed the rows of the batch, whose requests are the only live
\* ones with their indices.
LEMMA OccupantsEndDue ==
  ASSUME RequestsOK, RowsOK, SlotsInv, OccupantsInv, EndDue
  PROVE  OccupantsInv'
<1>1. /\ mpc = "end" /\ UNCHANGED schedVars /\ UNCHANGED <<occ, ploc>>
      /\ snap' = {[row |-> k, idx |-> ReqIds[k], pages |-> kv[batch[k]], n |-> len[batch[k]]] : k \in Due}
  BY Zenon DEF EndDue
<1>2. occ = ReqIds /\ Len(ReqIds) = Len(batch)
  BY <1>1, ReqIdsFacts, Zenon DEF OccupantsInv, InForward
<1>3. Live' = Live /\ ReqIds' = ReqIds /\ \A r : ChunksOf(r)' = ChunksOf(r)
  BY <1>1, Zenon DEF schedVars, Live, ReqIds, RowsNow, ChunksOf
<1>4. ASSUME NEW s \in snap'
      PROVE  /\ s.row <= Len(occ') /\ s.idx = occ'[s.row]
             /\ \A r \in Live : idx[r] = s.idx => SnapChunks(s) \subseteq ChunksOf(r)
  <2>1. PICK k \in Due : s = [row |-> k, idx |-> ReqIds[k], pages |-> kv[batch[k]], n |-> len[batch[k]]]
    BY <1>1, Zenon
  <2>2. s.row = k /\ s.idx = ReqIds[k] /\ s.pages = kv[batch[k]] /\ s.n = len[batch[k]]
    BY <2>1
  <2>3. k \in RowsNow /\ k <= Len(batch) /\ ReqIds[k] = idx[batch[k]] /\ batch[k] \in Live
    BY DEF Due, RowsNow, ReqIds, RowsOK, SlotsInv, Live
  <2>4. SnapChunks(s) = ChunksOf(batch[k])
    BY <2>2, Zenon DEF SnapChunks, ChunksOf
  <2>5. \A r \in Live : idx[r] = s.idx => r = batch[k]
    BY <2>2, <2>3, Zenon DEF SlotsInv
  <2> QED
    BY <1>1, <1>2, <2>2, <2>3, <2>4, <2>5, Zenon
<1>5. \A s \in snap' : \A r \in Live' : idx'[r] = s.idx => SnapChunks(s) \subseteq ChunksOf(r)'
  BY <1>1, <1>3, <1>4, Zenon DEF schedVars
<1>6. \A k \in RowIds : k <= Len(occ') => \A r \in Live' : idx'[r] = occ'[k] => ploc'[k] \subseteq ChunksOf(r)'
  BY <1>1, <1>3, Zenon DEF OccupantsInv, schedVars
<1> QED
  BY <1>1, <1>2, <1>3, <1>4, <1>5, <1>6, Zenon DEF OccupantsInv, SnapChunks

\* The selection of a snapshot is chunks of the snapshot.
LEMMA OccupantsSelect ==
  ASSUME SnapRows, OccupantsInv, Select
  PROVE  OccupantsInv'
<1>1. UNCHANGED schedVars /\ UNCHANGED <<occ, snap, mpc>>
  BY Zenon DEF Select
<1>2. PICK L \in [snap -> SUBSET (1 .. PagesFor(MaxChunks))] :
        ploc' = [k \in RowIds |->
                   IF \E s \in snap : s.row = k
                   THEN LET s == CHOOSE s \in snap : s.row = k IN SelectedChunks(s, L[s])
                   ELSE ploc[k]]
  BY Zenon DEF Select
<1>3. Live' = Live /\ ReqIds' = ReqIds /\ \A r : ChunksOf(r)' = ChunksOf(r)
  BY <1>1, Zenon DEF schedVars, Live, ReqIds, RowsNow, ChunksOf
<1>4. ASSUME NEW k \in RowIds, k <= Len(occ), NEW r \in Live, idx[r] = occ[k] PROVE ploc'[k] \subseteq ChunksOf(r)
  <2>1. CASE \E s \in snap : s.row = k
    <3>1. PICK s \in snap : s.row = k /\ ploc'[k] = SelectedChunks(s, L[s])
      BY <1>2, <2>1, Zenon
    <3>2. SelectedChunks(s, L[s]) \subseteq SnapChunks(s)
      BY Zenon DEF SelectedChunks, SnapChunks
    <3>3. SnapChunks(s) \subseteq ChunksOf(r)
      BY <1>4, <3>1, Zenon DEF OccupantsInv
    <3> QED
      BY <3>1, <3>2, <3>3, Zenon
  <2>2. CASE ~\E s \in snap : s.row = k
    BY <1>2, <1>4, <2>2, Zenon DEF OccupantsInv
  <2> QED
    BY <2>1, <2>2, Zenon
<1>5. \A k \in RowIds : k <= Len(occ') => \A r \in Live' : idx'[r] = occ'[k] => ploc'[k] \subseteq ChunksOf(r)'
  BY <1>1, <1>3, <1>4, Zenon DEF schedVars
<1>6. \A s \in snap' : /\ s.row <= Len(occ') /\ s.idx = occ'[s.row]
                       /\ \A r \in Live' : idx'[r] = s.idx => SnapChunks(s) \subseteq ChunksOf(r)'
  BY <1>1, <1>3, Zenon DEF OccupantsInv, schedVars
<1> QED
  BY <1>1, <1>3, <1>5, <1>6, Zenon DEF OccupantsInv, SnapChunks, InForward

\* Whose chunks the rows list, through every step.
LEMMA OccupantsInvStep ==
  ASSUME ServerInv, SnapRows, SlotsInv, OccupantsInv, [Next]_vars, [FreshIndex]_vars
  PROVE  OccupantsInv'
<1> USE DEF ServerInv
<1>0. InForward' => occ' = ReqIds'
  BY OccupantsStep, Zenon DEF OccupantsInv
<1>1. ASSUME NEW r \in Reqs, Prealloc(r) PROVE OccupantsInv'
  <2>1. /\ idx' = [idx EXCEPT ![r] = Head(freeSlots)] /\ phase[r] = "new"
        /\ phase' = [phase EXCEPT ![r] = "prealloc"] /\ len' = [len EXCEPT ![r] = PrefillLen[r]]
        /\ UNCHANGED <<occ, ploc, snap, mpc>> /\ mpc = "queue"
        /\ \E ps : kv' = [kv EXCEPT ![r] = ps]
    BY <1>1, Zenon DEF Prealloc, rowVars, threadVars
  <2>2. ASSUME NEW q \in Live', q # r PROVE q \in Live /\ idx'[q] = idx[q] /\ ChunksOf(q)' = ChunksOf(q)
    <3>1. /\ q \in Reqs /\ phase'[q] \in {"prealloc", "landed", "waiting", "running"} /\ phase'[q] = phase[q]
          /\ idx'[q] = idx[q] /\ kv'[q] = kv[q] /\ len'[q] = len[q]
      BY <2>1, <2>2, Zenon DEF Live, RequestsOK
    <3> QED
      BY <3>1, Zenon DEF Live, ChunksOf
  <2>3. idx'[r] \notin Range(occ)
    <3>1. phase'[r] = "prealloc" /\ phase' # phase
      BY <2>1, Zenon DEF RequestsOK
    <3>2. FreshIndex
      BY <3>1, Zenon DEF vars, schedVars
    <3> QED
      BY <2>1, <3>1, <3>2, Zenon DEF FreshIndex
  <2>4. \A k \in 1 .. Len(occ) : occ[k] # idx'[r]
    BY <2>3 DEF RowsOK, Range
  <2>5. ASSUME NEW k \in RowIds, k <= Len(occ'), NEW q \in Live', idx'[q] = occ'[k] PROVE ploc'[k] \subseteq ChunksOf(q)'
    <3>1. k \in 1 .. Len(occ)
      BY <2>1, <2>5 DEF RowIds, RowsOK
    <3>2. q # r
      BY <2>1, <2>4, <2>5, <3>1, Zenon
    <3> QED
      BY <2>1, <2>2, <2>5, <3>2, Zenon DEF OccupantsInv
  <2>6. ASSUME NEW s \in snap'
        PROVE  /\ s.row <= Len(occ') /\ s.idx = occ'[s.row]
               /\ \A q \in Live' : idx'[q] = s.idx => SnapChunks(s) \subseteq ChunksOf(q)'
    <3>1. s \in snap /\ s.row <= Len(occ) /\ s.idx = occ[s.row] /\ s.row \in RowIds
      BY <2>1, Zenon DEF OccupantsInv, SnapOK
    <3>2. s.row \in 1 .. Len(occ)
      BY <3>1 DEF RowIds, RowsOK
    <3>3. s.idx # idx'[r]
      BY <2>4, <3>1, <3>2, Zenon
    <3>4. \A q \in Live : idx[q] = s.idx => SnapChunks(s) \subseteq ChunksOf(q)
      BY <3>1, Zenon DEF OccupantsInv
    <3>5. ASSUME NEW q \in Live', idx'[q] = s.idx PROVE SnapChunks(s) \subseteq ChunksOf(q)'
      <4>1. q \in Live /\ idx[q] = s.idx /\ ChunksOf(q)' = ChunksOf(q)
        BY <2>2, <3>3, <3>5, Zenon
      <4> QED
        BY <3>4, <4>1, Zenon
    <3> QED
      BY <2>1, <3>1, <3>5, Zenon
  <2> QED
    BY <1>0, <2>5, <2>6, Zenon DEF OccupantsInv, SnapChunks
<1>2. ASSUME NEW F \in SUBSET Range(batch), BeginChanged(F) PROVE OccupantsInv'
  BY <1>2, OccupantsBegin, Zenon
<1>3. CASE EndDue
  BY <1>3, OccupantsEndDue, Zenon
<1>4. CASE Select
  BY <1>4, OccupantsSelect, Zenon
<1>5. ASSUME \A r \in Reqs : ~Prealloc(r), \A F \in SUBSET Range(batch) : ~BeginChanged(F), ~EndDue, ~Select
      PROVE  UNCHANGED <<occ, ploc>> /\ snap' \subseteq snap
  <2>1. ASSUME EndQuiet \/ Publish \/ RebuildMeta \/ SidebandFails PROVE UNCHANGED <<occ, ploc>> /\ snap' \subseteq snap
    BY <2>1, Zenon DEF EndQuiet, Publish, RebuildMeta, SidebandFails, rowVars, threadVars
  <2> QED
    BY <1>5, <2>1, QuietSteps, Zenon
<1>6. ASSUME \A r \in Reqs : ~Prealloc(r), \A F \in SUBSET Range(batch) : ~BeginChanged(F), NEW q \in Live'
      PROVE  q \in Live /\ idx'[q] = idx[q] /\ ChunksOf(q) \subseteq ChunksOf(q)'
  <2>1. ASSUME NEW r \in Reqs, TransferLands(r) \/ Commit(r) \/ Merge(r)
        PROVE  q \in Live /\ UNCHANGED <<idx, kv, len>>
    <3>1. /\ phase[r] \in {"prealloc", "landed", "waiting"} /\ UNCHANGED <<idx, kv, len>>
          /\ \E w : phase' = [phase EXCEPT ![r] = w]
      BY <2>1, Zenon DEF TransferLands, Commit, Merge
    <3> QED
      BY <1>6, <3>1, Zenon DEF Live, RequestsOK
  <2>2. ASSUME NEW F \in SUBSET Range(batch), Result(F) PROVE q \in Live /\ UNCHANGED <<idx, kv, len>>
    <3>1. UNCHANGED <<idx, kv, len>> /\ phase' = [r \in Reqs |-> IF r \in F THEN "done" ELSE phase[r]]
      BY <2>2, Zenon DEF Result
    <3> QED
      BY <1>6, <3>1, Zenon DEF Live
  <2>3. ASSUME NEW F \in SUBSET Range(batch), BeginSame(F)
        PROVE  q \in Live /\ idx'[q] = idx[q] /\ ChunksOf(q) \subseteq ChunksOf(q)'
    <3>1. PrepareForDecode(F) /\ UNCHANGED <<phase, idx>>
      BY <2>3, Zenon DEF BeginSame, PrepareForDecode
    <3>2. q \in Live /\ q \in Reqs
      BY <1>6, <3>1, Zenon DEF Live
    <3> QED
      BY <3>1, <3>2, ChunksGrow, Zenon
  <2>4. ASSUME UNCHANGED schedVars PROVE q \in Live /\ UNCHANGED <<idx, kv, len>>
    BY <1>6, <2>4, Zenon DEF schedVars, Live
  <2>5. ASSUME UNCHANGED <<idx, kv, len>> PROVE idx'[q] = idx[q] /\ ChunksOf(q) \subseteq ChunksOf(q)'
    BY <2>5, Zenon DEF ChunksOf
  <2> QED
    BY <1>6, <2>1, <2>2, <2>3, <2>4, <2>5, SchedSteps, Zenon
<1> QED
  BY <1>0, <1>1, <1>2, <1>3, <1>4, <1>5, <1>6, OccupantsKept, Zenon

\* While a forward runs, the locs the indexer may pick for a row are chunks of
\* the request in that row, through compaction, churn and cycles in flight,
\* as long as no pool index is handed out again before its row is reset.
THEOREM RowsDescribeOccupants ==
  ASSUME IsInjective(FirstSlots)
  PROVE  Spec /\ [][FreshIndex]_vars => []PublishedRowIsOccupants
<1>1. ServerInit => SnapRows /\ OccupantsInv
  <2> SUFFICES ASSUME ServerInit PROVE SnapRows /\ OccupantsInv
    OBVIOUS
  <2>1. Live = {}
    BY Zenon DEF ServerInit, Live
  <2> QED
    BY <2>1, Zenon DEF ServerInit, SnapRows, OccupantsInv, InForward
<1>2. ServerInv /\ SlotsInv /\ (SnapRows /\ OccupantsInv) /\ [Next]_vars /\ [FreshIndex]_vars
        => (SnapRows /\ OccupantsInv)'
  BY SnapRowsStep, OccupantsInvStep, Zenon
<1>3. ServerInv /\ SlotsInv /\ OccupantsInv => PublishedRowIsOccupants
  <2> SUFFICES ASSUME ServerInv, SlotsInv, OccupantsInv, mpc \in {"store", "read"}, NEW k \in RowsNow
               PROVE  ploc[k] \subseteq ChunksOf(batch[k])
    BY Zenon DEF PublishedRowIsOccupants
  <2>1. occ = ReqIds /\ Len(ReqIds) = Len(batch)
    BY ReqIdsFacts, Zenon DEF OccupantsInv, InForward, ServerInv
  <2>2. k \in RowIds /\ k <= Len(batch) /\ ReqIds[k] = idx[batch[k]] /\ batch[k] \in Live
    BY ServerAssumption DEF ServerInv, RowsOK, RowsNow, RowIds, ReqIds, SlotsInv, Live
  <2> QED
    BY <2>1, <2>2, Zenon DEF OccupantsInv
<1> QED
  BY <1>1, <1>2, <1>3, ServerInvariant, SlotsInvariant, PTL DEF Spec

-----------------------------------------------------------------------------
(* Pages.                                                                  *)

\* Live requests hold different pages, and each of them a page once.
PagesInv ==
  /\ \A r, q \in Live : \A p \in Range(kv[r]) : p \in Range(kv[q]) => r = q
  /\ \A r \in Live : \A a, b \in 1 .. Len(kv[r]) : kv[r][a] = kv[r][b] => a = b

\* The steps between admission and results leave what a live request has.
LEMMA LiveSteps ==
  ASSUME RequestsOK, [Next]_vars,
         \A r \in Reqs : ~Prealloc(r),
         \A F \in SUBSET Range(batch) : ~BeginSame(F) /\ ~BeginChanged(F)
  PROVE  UNCHANGED <<kv, len, idx>> /\ Live' \subseteq Live
<1>1. ASSUME NEW r \in Reqs, TransferLands(r) \/ Commit(r) \/ Merge(r)
      PROVE  UNCHANGED <<kv, len, idx>> /\ Live' \subseteq Live
  <2>1. /\ phase[r] \in {"prealloc", "landed", "waiting"} /\ UNCHANGED <<idx, kv, len>>
        /\ \E w : phase' = [phase EXCEPT ![r] = w]
    BY <1>1, Zenon DEF TransferLands, Commit, Merge
  <2> QED
    BY <2>1, Zenon DEF Live, RequestsOK
<1>2. ASSUME NEW F \in SUBSET Range(batch), Result(F)
      PROVE  UNCHANGED <<kv, len, idx>> /\ Live' \subseteq Live
  <2>1. UNCHANGED <<idx, kv, len>> /\ phase' = [r \in Reqs |-> IF r \in F THEN "done" ELSE phase[r]]
    BY <1>2, Zenon DEF Result
  <2> QED
    BY <2>1, Zenon DEF Live
<1>3. ASSUME UNCHANGED schedVars PROVE UNCHANGED <<kv, len, idx>> /\ Live' \subseteq Live
  BY <1>3, Zenon DEF schedVars, Live
<1> QED
  BY <1>1, <1>2, <1>3, SchedSteps, Zenon

\* A free page is no live request's.
LEMMA FreePageFacts ==
  ASSUME NEW p \in FreePages
  PROVE  p \in Pages /\ \A r \in Live : p \notin Range(kv[r])
BY Zenon DEF FreePages, Held, Live

\* A list of pages with one more at its end.
LEMMA PageAppended ==
  ASSUME NEW s \in Seq(Pages), NEW p \in Pages
  PROVE  /\ Len(s) \in Nat /\ Len(Append(s, p)) = Len(s) + 1
         /\ \A a \in 1 .. Len(s) : Append(s, p)[a] = s[a]
         /\ Append(s, p)[Len(s) + 1] = p
OBVIOUS

\* The elements of a list are those at its positions.
LEMMA PageListed ==
  ASSUME NEW s \in Seq(Pages), NEW p
  PROVE  p \in Range(s) <=> \E a \in 1 .. Len(s) : s[a] = p
BY DEF Range

\* prepare_for_decode: who grows by a page gets a free one of its own.
LEMMA PrepareGrows ==
  ASSUME RequestsOK, NEW F, PrepareForDecode(F)
  PROVE  \E f : /\ \A r, q \in DOMAIN f : f[r] = f[q] => r = q
                /\ \A r \in DOMAIN f : f[r] \in FreePages
                /\ \A r \in Reqs :
                     /\ Len(kv[r]) \in Nat
                     /\ r \notin DOMAIN f => kv'[r] = kv[r]
                     /\ r \in DOMAIN f => /\ Len(kv'[r]) = Len(kv[r]) + 1
                                          /\ \A a \in 1 .. Len(kv[r]) : kv'[r][a] = kv[r][a]
                                          /\ kv'[r][Len(kv[r]) + 1] = f[r]
<1>1. PICK f \in [{q \in F : NeedsPage(q)} -> FreePages] :
        IsInjective(f) /\ kv' = [q \in Reqs |-> IF q \in DOMAIN f THEN Append(kv[q], f[q]) ELSE kv[q]]
  BY Zenon DEF PrepareForDecode
<1>2. \A r, q \in DOMAIN f : f[r] = f[q] => r = q
  BY <1>1, Zenon DEF IsInjective
<1>3. \A r \in DOMAIN f : f[r] \in FreePages
  BY <1>1, Zenon
<1>4. ASSUME NEW r \in Reqs
      PROVE  /\ Len(kv[r]) \in Nat
             /\ r \notin DOMAIN f => kv'[r] = kv[r]
             /\ r \in DOMAIN f => /\ Len(kv'[r]) = Len(kv[r]) + 1
                                  /\ \A a \in 1 .. Len(kv[r]) : kv'[r][a] = kv[r][a]
                                  /\ kv'[r][Len(kv[r]) + 1] = f[r]
  <2>1. kv[r] \in Seq(Pages) /\ Len(kv[r]) \in Nat
    BY DEF RequestsOK
  <2>2. CASE r \notin DOMAIN f
    BY <1>1, <2>1, <2>2, Zenon
  <2>3. CASE r \in DOMAIN f
    <3>1. f[r] \in Pages /\ kv'[r] = Append(kv[r], f[r])
      BY <1>1, <1>3, <2>3, FreePageFacts, Zenon
    <3>2. /\ Len(Append(kv[r], f[r])) = Len(kv[r]) + 1
          /\ \A a \in 1 .. Len(kv[r]) : Append(kv[r], f[r])[a] = kv[r][a]
          /\ Append(kv[r], f[r])[Len(kv[r]) + 1] = f[r]
      BY <2>1, <3>1, PageAppended, Zenon
    <3> QED
      BY <2>1, <2>3, <3>1, <3>2
  <2> QED
    BY <2>2, <2>3, Zenon
<1> QED
  BY <1>2, <1>3, <1>4, Zenon

\* So its pages stay its pages, in their places, and new ones were free.
LEMMA PrepareKeeps ==
  ASSUME RequestsOK, RequestsOK', NEW F, PrepareForDecode(F), NEW r \in Reqs
  PROVE  /\ \A a \in 1 .. Len(kv[r]) : a \in 1 .. Len(kv'[r]) /\ kv'[r][a] = kv[r][a]
         /\ Range(kv[r]) \subseteq Range(kv'[r])
         /\ \A p \in Range(kv'[r]) : p \in Range(kv[r]) \/ p \in FreePages
<1>1. PICK f : /\ \A q \in DOMAIN f : f[q] \in FreePages
               /\ Len(kv[r]) \in Nat
               /\ r \notin DOMAIN f => kv'[r] = kv[r]
               /\ r \in DOMAIN f => /\ Len(kv'[r]) = Len(kv[r]) + 1
                                    /\ \A a \in 1 .. Len(kv[r]) : kv'[r][a] = kv[r][a]
                                    /\ kv'[r][Len(kv[r]) + 1] = f[r]
  BY PrepareGrows, Zenon
<1>2. kv[r] \in Seq(Pages) /\ kv'[r] \in Seq(Pages)
  BY Zenon DEF RequestsOK
<1>3. CASE r \notin DOMAIN f
  BY <1>1, <1>3, Zenon
<1>4. CASE r \in DOMAIN f
  <2>1. \A a \in 1 .. Len(kv[r]) + 1 : a \in 1 .. Len(kv[r]) \/ a = Len(kv[r]) + 1
    BY <1>1
  <2>2. \A a \in 1 .. Len(kv[r]) : a \in 1 .. Len(kv[r]) + 1
    BY <1>1
  <2>3. \A a \in 1 .. Len(kv[r]) : a \in 1 .. Len(kv'[r]) /\ kv'[r][a] = kv[r][a]
    BY <1>1, <1>4, <2>2, Zenon
  <2>4. ASSUME NEW p \in Range(kv[r]) PROVE p \in Range(kv'[r])
    <3>1. PICK a \in 1 .. Len(kv[r]) : kv[r][a] = p
      BY <1>2, PageListed, Zenon
    <3>2. a \in 1 .. Len(kv'[r]) /\ kv'[r][a] = p
      BY <2>3, <3>1, Zenon
    <3> QED
      BY <1>2, <3>2, PageListed, Zenon
  <2>5. ASSUME NEW p \in Range(kv'[r]) PROVE p \in Range(kv[r]) \/ p \in FreePages
    <3>1. PICK a \in 1 .. Len(kv'[r]) : kv'[r][a] = p
      BY <1>2, PageListed, Zenon
    <3>2. CASE a \in 1 .. Len(kv[r])
      BY <1>2, <2>3, <3>1, <3>2, PageListed, Zenon
    <3>3. CASE a = Len(kv[r]) + 1
      BY <1>1, <1>4, <3>1, <3>3, Zenon
    <3> QED
      BY <1>1, <1>4, <2>1, <3>1, <3>2, <3>3, Zenon
  <2> QED
    BY <2>3, <2>4, <2>5, Zenon
<1> QED
  BY <1>3, <1>4, Zenon

\* _pre_alloc takes pages that are free, each once.
LEMMA PagesPrealloc ==
  ASSUME RequestsOK, PagesInv, NEW r \in Reqs, Prealloc(r)
  PROVE  /\ PagesInv' /\ Live' = Live \cup {r} /\ r \notin Live
         /\ \A p \in Range(kv'[r]) : p \in FreePages
         /\ \A q \in Live : kv'[q] = kv[q] /\ len'[q] = len[q] /\ idx'[q] = idx[q]
<1> DEFINE n == PagesFor(PrefillLen[r])
<1>1. PICK ps \in [1 .. n -> FreePages] : IsInjective(ps) /\ kv' = [kv EXCEPT ![r] = ps]
  BY Zenon DEF Prealloc
<1>2. n \in Nat
  BY PagesForFacts, ServerAssumption
<1>3. /\ phase[r] = "new" /\ phase' = [phase EXCEPT ![r] = "prealloc"]
      /\ len' = [len EXCEPT ![r] = PrefillLen[r]] /\ idx' = [idx EXCEPT ![r] = Head(freeSlots)]
  BY Zenon DEF Prealloc
<1>4. Live' = Live \cup {r} /\ r \notin Live
  BY <1>3, Zenon DEF Live, RequestsOK
<1>5. kv'[r] = ps /\ \A q \in Live : kv'[q] = kv[q] /\ len'[q] = len[q] /\ idx'[q] = idx[q]
  BY <1>1, <1>3, <1>4, Zenon DEF RequestsOK, Live
<1>6. Len(ps) = n /\ DOMAIN ps = 1 .. n
  BY <1>2
<1>7. \A p \in Range(kv'[r]) : p \in FreePages
  BY <1>5, Zenon DEF Range
<1> HIDE DEF n
<1>8. \A a, b \in 1 .. Len(kv'[r]) : kv'[r][a] = kv'[r][b] => a = b
  <2>1. \A a, b \in DOMAIN ps : ps[a] = ps[b] => a = b
    BY <1>1, Zenon DEF IsInjective
  <2> QED
    BY <1>5, <1>6, <2>1, Zenon
<1>9. ASSUME NEW s \in Live', NEW q \in Live', NEW p \in Range(kv'[s]), p \in Range(kv'[q]) PROVE s = q
  <2>1. CASE s \in Live /\ q \in Live
    BY <1>5, <1>9, <2>1, Zenon DEF PagesInv
  <2>2. CASE s = r /\ q \in Live
    BY <1>5, <1>7, <1>9, <2>2, FreePageFacts, Zenon
  <2>3. CASE q = r /\ s \in Live
    BY <1>5, <1>7, <1>9, <2>3, FreePageFacts, Zenon
  <2> QED
    BY <1>4, <2>1, <2>2, <2>3, Zenon
<1>10. ASSUME NEW q \in Live' PROVE \A a, b \in 1 .. Len(kv'[q]) : kv'[q][a] = kv'[q][b] => a = b
  BY <1>4, <1>5, <1>8, Zenon DEF PagesInv
<1>11. PagesInv'
  BY <1>9, <1>10, Zenon DEF PagesInv
<1> QED
  BY <1>4, <1>5, <1>7, <1>11, Zenon

\* prepare_for_decode keeps pages apart.
LEMMA PagesPrepare ==
  ASSUME RequestsOK, RequestsOK', PagesInv, NEW F, PrepareForDecode(F)
  PROVE  PagesInv' /\ Live' = Live
<1>1. Live' = Live
  BY Zenon DEF PrepareForDecode, Live
<1>2. PICK f : /\ \A r, q \in DOMAIN f : f[r] = f[q] => r = q
               /\ \A r \in DOMAIN f : f[r] \in FreePages
               /\ \A r \in Reqs :
                    /\ Len(kv[r]) \in Nat
                    /\ r \notin DOMAIN f => kv'[r] = kv[r]
                    /\ r \in DOMAIN f => /\ Len(kv'[r]) = Len(kv[r]) + 1
                                         /\ \A a \in 1 .. Len(kv[r]) : kv'[r][a] = kv[r][a]
                                         /\ kv'[r][Len(kv[r]) + 1] = f[r]
  BY PrepareGrows, Zenon
<1>3. ASSUME NEW r \in Live, NEW a \in 1 .. Len(kv'[r])
      PROVE  \/ a \in 1 .. Len(kv[r]) /\ kv'[r][a] = kv[r][a] /\ kv[r][a] \in Range(kv[r])
             \/ r \in DOMAIN f /\ a = Len(kv[r]) + 1 /\ kv'[r][a] = f[r] /\ f[r] \in FreePages
  <2>1. r \in Reqs /\ kv[r] \in Seq(Pages)
    BY Zenon DEF Live, RequestsOK
  <2>2. \A b \in 1 .. Len(kv[r]) : kv[r][b] \in Range(kv[r])
    BY <2>1, PageListed, Zenon
  <2>3. CASE r \notin DOMAIN f
    BY <1>2, <2>1, <2>2, <2>3, Zenon
  <2>4. CASE r \in DOMAIN f
    <3>1. a \in 1 .. Len(kv[r]) \/ a = Len(kv[r]) + 1
      BY <1>2, <2>1, <2>4
    <3> QED
      BY <1>2, <2>1, <2>2, <2>4, <3>1, Zenon
  <2> QED
    BY <2>3, <2>4, Zenon
<1>4. ASSUME NEW r \in Live, NEW q \in Live, NEW p \in Range(kv'[r]), p \in Range(kv'[q]) PROVE r = q
  <2>1. kv'[r] \in Seq(Pages) /\ kv'[q] \in Seq(Pages)
    BY Zenon DEF RequestsOK, Live
  <2>2. PICK a \in 1 .. Len(kv'[r]) : kv'[r][a] = p
    BY <2>1, PageListed, Zenon
  <2>3. PICK b \in 1 .. Len(kv'[q]) : kv'[q][b] = p
    BY <1>4, <2>1, PageListed, Zenon
  <2>4. p \in Range(kv[r]) \/ (r \in DOMAIN f /\ p = f[r] /\ p \in FreePages)
    BY <1>3, <2>2, Zenon
  <2>5. p \in Range(kv[q]) \/ (q \in DOMAIN f /\ p = f[q] /\ p \in FreePages)
    BY <1>3, <2>3, Zenon
  <2>6. p \in FreePages => p \notin Range(kv[r]) /\ p \notin Range(kv[q])
    BY FreePageFacts, Zenon
  <2>7. CASE p \in FreePages
    BY <1>2, <2>4, <2>5, <2>6, <2>7, Zenon
  <2>8. CASE p \notin FreePages
    BY <2>4, <2>5, <2>8, Zenon DEF PagesInv
  <2> QED
    BY <2>7, <2>8, Zenon
<1>5. ASSUME NEW r \in Live, NEW a \in 1 .. Len(kv'[r]), NEW b \in 1 .. Len(kv'[r]), kv'[r][a] = kv'[r][b] PROVE a = b
  <2>1. \/ a \in 1 .. Len(kv[r]) /\ kv'[r][a] = kv[r][a] /\ kv[r][a] \in Range(kv[r])
        \/ a = Len(kv[r]) + 1 /\ kv'[r][a] \in FreePages
    BY <1>3, Zenon
  <2>2. \/ b \in 1 .. Len(kv[r]) /\ kv'[r][b] = kv[r][b] /\ kv[r][b] \in Range(kv[r])
        \/ b = Len(kv[r]) + 1 /\ kv'[r][b] \in FreePages
    BY <1>3, Zenon
  <2>3. \A p \in FreePages : p \notin Range(kv[r])
    BY FreePageFacts, Zenon
  <2> QED
    BY <1>5, <2>1, <2>2, <2>3, Zenon DEF PagesInv
<1> QED
  BY <1>1, <1>4, <1>5, Zenon DEF PagesInv

\* Pages, through every step.
LEMMA PagesStep ==
  ASSUME RequestsOK, RequestsOK', PagesInv, [Next]_vars
  PROVE  PagesInv'
<1>1. ASSUME NEW r \in Reqs, Prealloc(r) PROVE PagesInv'
  BY <1>1, PagesPrealloc, Zenon
<1>2. ASSUME NEW F \in SUBSET Range(batch), BeginSame(F) \/ BeginChanged(F) PROVE PagesInv'
  <2>1. PrepareForDecode(F)
    BY <1>2, Zenon DEF BeginSame, BeginChanged
  <2> QED
    BY <2>1, PagesPrepare, Zenon
<1>3. ASSUME UNCHANGED <<kv, len, idx>>, Live' \subseteq Live PROVE PagesInv'
  BY <1>3, Zenon DEF PagesInv
<1> QED
  BY <1>1, <1>2, <1>3, LiveSteps, Zenon

\* No page is held by two requests, and none twice by one: what prepare_for_decode
\* and _pre_alloc hand out, in any interleaving with results.
THEOREM PagesInvariant == Spec => []PagesInv
<1>1. ServerInit => PagesInv
  BY Zenon DEF ServerInit, PagesInv, Live
<1>2. ServerInv /\ ServerInv' /\ PagesInv /\ [Next]_vars => PagesInv'
  BY PagesStep, Zenon DEF ServerInv
<1> QED
  BY <1>1, <1>2, ServerInvariant, PTL DEF Spec

-----------------------------------------------------------------------------
(* Pages by owner.                                                         *)

\* Page p is recorded for pool index i, or the thread is about to record it.
Recorded(i, p) == p \in owned[i] \/ \E s \in snap : s.idx = i /\ p \in Range(s.pages)

\* It is a page of the request that has the index; once that request has left,
\* whoever got the page has an index the capturer has not seen.
OwnedInv ==
  /\ ~OwnerRelease => \A i \in PoolIdx : owned[i] = {}
  /\ \A i \in PoolIdx, p \in Pages : Recorded(i, p) =>
       /\ i \in Range(occ)
       /\ \A q \in Live : /\ idx[q] = i => p \in Range(kv[q])
                          /\ p \in Range(kv[q]) => idx[q] = i \/ idx[q] \notin Range(occ)

\* Steps that record nothing new and leave the requests their pages.
LEMMA OwnedKept ==
  ASSUME OwnedInv, UNCHANGED <<occ, kv, idx>>, Live' \subseteq Live,
         ~OwnerRelease => owned' = owned,
         \A i \in PoolIdx, p \in Pages : Recorded(i, p)' => Recorded(i, p)
  PROVE  OwnedInv'
<1>1. ~OwnerRelease => \A i \in PoolIdx : owned'[i] = {}
  BY Zenon DEF OwnedInv
<1>2. ASSUME NEW i \in PoolIdx, NEW p \in Pages, Recorded(i, p)'
      PROVE  /\ i \in Range(occ')
             /\ \A q \in Live' : /\ idx'[q] = i => p \in Range(kv'[q])
                                 /\ p \in Range(kv'[q]) => idx'[q] = i \/ idx'[q] \notin Range(occ')
  <2>1. Recorded(i, p)
    BY <1>2, Zenon
  <2>2. /\ i \in Range(occ)
        /\ \A q \in Live : /\ idx[q] = i => p \in Range(kv[q])
                           /\ p \in Range(kv[q]) => idx[q] = i \/ idx[q] \notin Range(occ)
    BY <2>1, Zenon DEF OwnedInv
  <2> QED
    BY <2>2, Zenon
<1> QED
  BY <1>1, <1>2, Zenon DEF OwnedInv

\* The batch as a set: who is in it has its index among the rows'.
LEMMA InBatch ==
  ASSUME RequestsOK, RowsOK, SlotsInv
  PROVE  /\ \A r \in Range(batch) : r \in Live /\ idx[r] \in Range(ReqIds)
         /\ \A i \in Range(ReqIds) : \E r \in Range(batch) : idx[r] = i
<1>1. \A r \in Range(batch) : \E k \in RowsNow : batch[k] = r
  BY DEF RowsOK, RowsNow, Range
<1>2. \A k \in RowsNow : batch[k] \in Range(batch) /\ batch[k] \in Reqs
  BY DEF RowsOK, RowsNow, Range
<1>3. \A k \in RowsNow : batch[k] \in Live
  BY <1>2, Zenon DEF SlotsInv, Live
<1>4. DOMAIN ReqIds = RowsNow /\ \A k \in RowsNow : ReqIds[k] = idx[batch[k]]
  BY Zenon DEF ReqIds
<1>5. ASSUME NEW r \in Range(batch) PROVE r \in Live /\ idx[r] \in Range(ReqIds)
  <2>1. PICK k \in RowsNow : batch[k] = r
    BY <1>1, Zenon
  <2>2. ReqIds[k] \in Range(ReqIds)
    BY <1>4, Zenon DEF Range
  <2> QED
    BY <1>3, <1>4, <2>1, <2>2, Zenon
<1>6. ASSUME NEW i \in Range(ReqIds) PROVE \E r \in Range(batch) : idx[r] = i
  <2>1. PICK k \in RowsNow : ReqIds[k] = i
    BY <1>4, Zenon DEF Range
  <2> QED
    BY <1>2, <1>4, <2>1, Zenon
<1> QED
  BY <1>5, <1>6, Zenon

\* _pre_alloc: the new request has an index no row has, and pages that were free.
LEMMA OwnedPrealloc ==
  ASSUME RequestsOK, PagesInv, OwnedInv, NEW r \in Reqs, Prealloc(r), idx'[r] \notin Range(occ)
  PROVE  OwnedInv'
<1>1. UNCHANGED <<occ, owned, snap>>
  BY Zenon DEF Prealloc, rowVars, threadVars, engineVars
<1>2. Live' = Live \cup {r} /\ \A q \in Live : kv'[q] = kv[q] /\ idx'[q] = idx[q]
  BY PagesPrealloc, Zenon
<1>3. ~OwnerRelease => \A i \in PoolIdx : owned'[i] = {}
  BY <1>1, Zenon DEF OwnedInv
<1>4. ASSUME NEW i \in PoolIdx, NEW p \in Pages, Recorded(i, p)'
      PROVE  /\ i \in Range(occ')
             /\ \A q \in Live' : /\ idx'[q] = i => p \in Range(kv'[q])
                                 /\ p \in Range(kv'[q]) => idx'[q] = i \/ idx'[q] \notin Range(occ')
  <2>1. Recorded(i, p)
    BY <1>1, <1>4, Zenon DEF Recorded
  <2>2. /\ i \in Range(occ)
        /\ \A q \in Live : /\ idx[q] = i => p \in Range(kv[q])
                           /\ p \in Range(kv[q]) => idx[q] = i \/ idx[q] \notin Range(occ)
    BY <2>1, Zenon DEF OwnedInv
  <2>3. ASSUME NEW q \in Live'
        PROVE  /\ idx'[q] = i => p \in Range(kv'[q])
               /\ p \in Range(kv'[q]) => idx'[q] = i \/ idx'[q] \notin Range(occ)
    <3>1. CASE q = r
      BY <2>2, <3>1, Zenon
    <3>2. CASE q \in Live
      BY <1>2, <2>2, <3>2, Zenon
    <3> QED
      BY <1>2, <3>1, <3>2, Zenon
  <2> QED
    BY <1>1, <2>2, <2>3, Zenon
<1> QED
  BY <1>3, <1>4, Zenon DEF OwnedInv

\* A page recorded for an index of the batch is held, so prepare_for_decode
\* gives it to nobody else.
LEMMA OwnedPrepare ==
  ASSUME RequestsOK, RequestsOK', RowsOK, SlotsInv, PagesInv, NEW F, PrepareForDecode(F),
         NEW i \in Range(ReqIds), NEW p,
         \A q \in Live : idx[q] = i => p \in Range(kv[q])
  PROVE  \A q \in Live' : (idx'[q] = i => p \in Range(kv'[q])) /\ (p \in Range(kv'[q]) => idx'[q] = i)
<1>1. Live' = Live /\ idx' = idx
  BY Zenon DEF PrepareForDecode, Live
<1>2. PICK r \in Live : idx[r] = i
  BY InBatch, Zenon
<1>3. p \in Range(kv[r])
  BY <1>2, Zenon
<1>4. p \notin FreePages
  BY <1>3, FreePageFacts, Zenon
<1>5. ASSUME NEW q \in Live PROVE (idx[q] = i => p \in Range(kv'[q])) /\ (p \in Range(kv'[q]) => idx[q] = i)
  <2>1. q \in Reqs
    BY Zenon DEF Live
  <2>2. Range(kv[q]) \subseteq Range(kv'[q]) /\ \A x \in Range(kv'[q]) : x \in Range(kv[q]) \/ x \in FreePages
    BY <2>1, PrepareKeeps, Zenon
  <2>3. p \in Range(kv[q]) => q = r
    BY <1>3, Zenon DEF PagesInv
  <2> QED
    BY <1>2, <1>4, <2>2, <2>3, Zenon
<1> QED
  BY <1>1, <1>5, Zenon

\* on_forward_begin: with no change everything stays recorded; after one, what
\* is left is recorded for requests of the batch.
LEMMA OwnedBegin ==
  ASSUME RequestsOK, RequestsOK', RowsOK, SnapRows, SlotsInv, PagesInv, OwnedInv, NEW F,
         BeginSame(F) \/ BeginChanged(F)
  PROVE  OwnedInv'
<1>1. PrepareForDecode(F) /\ idx' = idx /\ batch' = batch
  BY Zenon DEF BeginSame, BeginChanged, PrepareForDecode
<1>2. occ' = ReqIds
  BY Zenon DEF BeginSame, BeginChanged, ResetRows, rowVars
<1>3. owned' = owned \/ (OwnerRelease /\ owned' = [i \in PoolIdx |-> IF i \in Range(occ) \ Range(ReqIds) THEN {} ELSE owned[i]])
  <2>1. CASE UNCHANGED engineVars
    BY <2>1, Zenon DEF engineVars
  <2>2. CASE OwnerRelease /\ ReleaseOwned(Range(occ) \ Range(ReqIds))
    BY <2>2, Zenon DEF ReleaseOwned, ReleaseOwnedPages
  <2>3. CASE Release({c[1] : c \in RowReleased})
    BY <2>3, Zenon DEF Release
  <2> QED
    BY <2>1, <2>2, <2>3, Zenon DEF BeginSame, BeginChanged, ReleaseAtBegin
<1>4. ~OwnerRelease => \A i \in PoolIdx : owned'[i] = {}
  BY <1>3, Zenon DEF OwnedInv
<1>5. ASSUME NEW i \in PoolIdx, NEW p \in Pages, Recorded(i, p)'
      PROVE  Recorded(i, p) /\ i \in Range(ReqIds)
  <2>1. CASE BeginSame(F)
    <3>1. ReqIds = occ /\ owned' = owned /\ snap' = snap
      BY <2>1, Zenon DEF BeginSame, engineVars, threadVars
    <3>2. Recorded(i, p)
      BY <1>5, <3>1, Zenon DEF Recorded
    <3> QED
      BY <3>1, <3>2, Zenon DEF OwnedInv
  <2>2. CASE BeginChanged(F)
    <3>1. snap' = {}
      BY <2>2, Zenon DEF BeginChanged, threadVars, SnapRows
    <3>2. p \in owned'[i]
      BY <1>5, <3>1, Zenon DEF Recorded
    <3>3. p \in owned[i] /\ ~(OwnerRelease /\ i \in Range(occ) \ Range(ReqIds))
      <4>1. CASE OwnerRelease
        <5>1. owned' = [j \in PoolIdx |-> IF j \in Range(occ) \ Range(ReqIds) THEN {} ELSE owned[j]]
          BY <2>2, <4>1, Zenon DEF BeginChanged, ReleaseAtBegin, ReleaseOwned, ReleaseOwnedPages
        <5> QED
          BY <3>2, <5>1, Zenon
      <4>2. CASE ~OwnerRelease
        BY <1>4, <3>2, <4>2, Zenon
      <4> QED
        BY <4>1, <4>2, Zenon
    <3>4. Recorded(i, p)
      BY <3>3, Zenon DEF Recorded
    <3>5. OwnerRelease
      BY <3>3, Zenon DEF OwnedInv
    <3>6. i \in Range(occ)
      BY <3>4, Zenon DEF OwnedInv
    <3> QED
      BY <3>3, <3>4, <3>5, <3>6, Zenon
  <2> QED
    BY <2>1, <2>2, Zenon
<1>6. ASSUME NEW i \in PoolIdx, NEW p \in Pages, Recorded(i, p)'
      PROVE  /\ i \in Range(occ')
             /\ \A q \in Live' : /\ idx'[q] = i => p \in Range(kv'[q])
                                 /\ p \in Range(kv'[q]) => idx'[q] = i \/ idx'[q] \notin Range(occ')
  <2>1. Recorded(i, p) /\ i \in Range(ReqIds)
    BY <1>5, <1>6, Zenon
  <2>2. \A q \in Live : idx[q] = i => p \in Range(kv[q])
    BY <2>1, Zenon DEF OwnedInv
  <2>3. \A q \in Live' : (idx'[q] = i => p \in Range(kv'[q])) /\ (p \in Range(kv'[q]) => idx'[q] = i)
    BY <1>1, <2>1, <2>2, OwnedPrepare, Zenon
  <2> QED
    BY <1>2, <2>1, <2>3, Zenon
<1> QED
  BY <1>4, <1>6, Zenon DEF OwnedInv

\* A cycle is handed the pages of the requests in the batch.
LEMMA OwnedEndDue ==
  ASSUME RequestsOK, RowsOK, SlotsInv, PagesInv, OwnedInv, InForward => occ = ReqIds, EndDue
  PROVE  OwnedInv'
<1>1. UNCHANGED <<occ, owned, kv, idx, phase, batch>> /\ occ = ReqIds
  BY Zenon DEF EndDue, engineVars, schedVars, InForward
<1>2. Live' = Live
  BY <1>1, Zenon DEF Live
<1>3. \A s \in snap' : \E k \in RowsNow : s.idx = ReqIds[k] /\ s.pages = kv[batch[k]]
  BY DEF EndDue, Due
<1>4. ~OwnerRelease => \A i \in PoolIdx : owned'[i] = {}
  BY <1>1, Zenon DEF OwnedInv
<1>5. ASSUME NEW i \in PoolIdx, NEW p \in Pages, Recorded(i, p)'
      PROVE  /\ i \in Range(occ)
             /\ \A q \in Live : /\ idx[q] = i => p \in Range(kv[q])
                                /\ p \in Range(kv[q]) => idx[q] = i \/ idx[q] \notin Range(occ)
  <2>1. CASE p \in owned'[i]
    <3>1. Recorded(i, p)
      BY <1>1, <2>1, Zenon DEF Recorded
    <3> QED
      BY <3>1, Zenon DEF OwnedInv
  <2>2. CASE \E s \in snap' : s.idx = i /\ p \in Range(s.pages)
    <3>1. PICK k \in RowsNow : i = ReqIds[k] /\ p \in Range(kv[batch[k]])
      BY <1>3, <2>2, Zenon
    <3>2. ReqIds[k] = idx[batch[k]] /\ k \in DOMAIN ReqIds
      BY Zenon DEF ReqIds
    <3>3. i \in Range(occ)
      BY <1>1, <3>1, <3>2, Zenon DEF Range
    <3>4. batch[k] \in Range(batch)
      BY DEF RowsOK, RowsNow, Range
    <3>5. batch[k] \in Live
      BY <3>4, InBatch, Zenon
    <3> QED
      BY <3>1, <3>2, <3>3, <3>5, Zenon DEF PagesInv, SlotsInv
  <2> QED
    BY <1>5, <2>1, <2>2, Zenon DEF Recorded
<1> QED
  BY <1>1, <1>2, <1>4, <1>5, Zenon DEF OwnedInv

\* The thread records pages of its snapshots.
LEMMA OwnedSelect ==
  ASSUME SnapOK, OwnedInv, Select
  PROVE  OwnedInv'
<1>1. UNCHANGED <<occ, kv, idx, phase, snap>>
  BY Zenon DEF Select, schedVars
<1>2. Live' = Live
  BY <1>1, Zenon DEF Live
<1>3. PICK L \in [snap -> SUBSET (1 .. PagesFor(MaxChunks))] :
        /\ \A s \in snap : L[s] \in Selections(s)
        /\ RecordOwnedPages([i \in PoolIdx |-> UNION {RecalledPages(s, L[s]) : s \in {s \in snap : s.idx = i}}])
  BY Zenon DEF Select, Start
<1>4. ~OwnerRelease => \A i \in PoolIdx : owned'[i] = owned[i]
  BY <1>3, Zenon DEF RecordOwnedPages
<1>5. ASSUME NEW s \in snap, NEW p \in RecalledPages(s, L[s]) PROVE p \in Range(s.pages)
  <2>1. PICK l \in L[s] : p = s.pages[l]
    BY Zenon DEF RecalledPages
  <2>2. L[s] \subseteq 1 .. PagesFor(s.n)
    BY <1>3, Zenon DEF Selections
  <2>3. s.n \in Nat /\ s.pages \in Seq(Pages) /\ Len(s.pages) \in Nat /\ s.n <= PS * Len(s.pages)
    BY DEF SnapOK
  <2>4. PagesFor(s.n) \in Nat /\ PagesFor(s.n) <= Len(s.pages)
    BY <2>3, PagesForFacts, Zenon
  <2>5. l \in 1 .. PagesFor(s.n)
    BY <2>2, Zenon
  <2>6. l \in 1 .. Len(s.pages)
    BY <2>3, <2>4, <2>5
  <2> QED
    BY <2>1, <2>3, <2>6, PageListed, Zenon
<1>6. ASSUME NEW i \in PoolIdx, NEW p \in Pages, Recorded(i, p)' PROVE Recorded(i, p)
  <2>1. p \in owned'[i] => p \in owned[i] \/ \E s \in snap : s.idx = i /\ p \in RecalledPages(s, L[s])
    BY <1>3, Zenon DEF RecordOwnedPages
  <2> QED
    BY <1>1, <1>5, <1>6, <2>1, Zenon DEF Recorded
<1>7. ~OwnerRelease => \A i \in PoolIdx : owned'[i] = {}
  BY <1>4, Zenon DEF OwnedInv
<1>8. ASSUME NEW i \in PoolIdx, NEW p \in Pages, Recorded(i, p)'
      PROVE  /\ i \in Range(occ)
             /\ \A q \in Live : /\ idx[q] = i => p \in Range(kv[q])
                                /\ p \in Range(kv[q]) => idx[q] = i \/ idx[q] \notin Range(occ)
  BY <1>6, <1>8, Zenon DEF OwnedInv
<1> QED
  BY <1>1, <1>2, <1>7, <1>8, Zenon DEF OwnedInv

\* A forward begins in on_forward_begin only.
LEMMA BeginsForward ==
  ASSUME [Next]_vars, mpc = "queue", mpc' = "store"
  PROVE  \E F \in SUBSET Range(batch) : BeginSame(F) \/ BeginChanged(F)
<1>1. ASSUME NEW r \in Reqs PROVE ~Prealloc(r) /\ ~TransferLands(r) /\ ~Commit(r) /\ ~Merge(r) /\ ~StoreRow(r)
  BY Zenon DEF Prealloc, TransferLands, Commit, Merge, StoreRow
<1>2. ~Remap /\ ~ReadDone /\ ~EndQuiet /\ ~EndDue /\ ~EndInline
  BY Zenon DEF Remap, ReadDone, EndQuiet, EndDue, EndInline
<1>3. \A F : ~Result(F)
  BY Zenon DEF Result
<1>4. ~Sideband
  BY Zenon DEF Sideband, Select, Recall, Publish, RebuildMeta, SidebandFails
<1>5. ~Idle /\ ~UNCHANGED vars
  BY Zenon DEF Idle, vars
<1> QED
  BY <1>1, <1>2, <1>3, <1>4, <1>5, Zenon DEF Next, Scheduler

\* The chunks of a request are in its pages.
LEMMA ChunkOfRequest ==
  ASSUME RequestsOK, NEW r \in Reqs, NEW c \in ChunksOf(r)
  PROVE  c \in Chunks /\ c[1] \in Range(kv[r])
<1>1. kv[r] \in Seq(Pages) /\ len[r] \in Nat /\ len[r] <= PS * Len(kv[r]) /\ Len(kv[r]) \in Nat
  BY DEF RequestsOK
<1>2. PICK j \in 0 .. len[r] - 1 : c = ChunkAt(kv[r], j)
  BY Zenon DEF ChunksOf
<1>3. j \in Nat /\ j < PS * Len(kv[r])
  BY <1>1, SizesAssumption
<1>4. c \in Chunks /\ c \in Range(kv[r]) \X Offs
  BY <1>1, <1>2, <1>3, ChunkAtFacts, Zenon
<1> QED
  BY <1>4, Zenon

\* Steps that touch neither the owners nor the snapshots.
LEMMA OwnedQuiet ==
  ASSUME [Next]_vars, ~Select, ~EndDue, \A F \in SUBSET Range(batch) : ~BeginSame(F) /\ ~BeginChanged(F)
  PROVE  owned' = owned /\ occ' = occ /\ snap' \subseteq snap
<1>1. ASSUME NEW r \in Reqs, Prealloc(r) \/ TransferLands(r) \/ Commit(r) \/ Merge(r) \/ StoreRow(r)
      PROVE  UNCHANGED <<owned, occ, snap>>
  BY <1>1, Zenon DEF Prealloc, TransferLands, Land, Commit, Admit, Merge, StoreRow, Store,
                     engineVars, rowVars, threadVars
<1>2. ASSUME NEW F, Result(F) PROVE UNCHANGED <<owned, occ, snap>>
  BY <1>2, Zenon DEF Result, engineVars, rowVars, threadVars
<1>3. ASSUME Remap \/ ReadDone \/ EndQuiet \/ EndInline \/ Idle PROVE UNCHANGED <<owned, occ, snap>>
  BY <1>3, Zenon DEF Remap, ReadDone, EndQuiet, EndInline, Idle, vars, engineVars, rowVars, threadVars
<1>4. ASSUME Recall \/ Publish PROVE UNCHANGED <<owned, occ, snap>>
  BY <1>4, Zenon DEF Recall, Alloc, Guard, Copy, Scatter, Publish, engineVars, rowVars, threadVars
<1>5. ASSUME RebuildMeta \/ SidebandFails PROVE owned' = owned /\ occ' = occ /\ snap' = {}
  BY <1>5, Zenon DEF RebuildMeta, SidebandFails, Raised, engineVars, rowVars
<1>6. ASSUME UNCHANGED vars PROVE UNCHANGED <<owned, occ, snap>>
  BY <1>6, Zenon DEF vars, engineVars, rowVars, threadVars
<1> QED
  BY <1>1, <1>2, <1>3, <1>4, <1>5, <1>6, Zenon DEF Next, Scheduler, Sideband

\* The owners, through every step.
LEMMA OwnedStep ==
  ASSUME ServerInv, ServerInv', SnapRows, SlotsInv, PagesInv, OwnedInv, InForward => occ = ReqIds,
         [Next]_vars, [FreshIndex]_vars
  PROVE  OwnedInv'
<1> USE DEF ServerInv
<1>1. CASE Select
  BY <1>1, OwnedSelect, Zenon
<1>2. CASE EndDue
  BY <1>2, OwnedEndDue, Zenon
<1>3. ASSUME NEW F \in SUBSET Range(batch), BeginSame(F) \/ BeginChanged(F) PROVE OwnedInv'
  BY <1>3, OwnedBegin, Zenon
<1>4. ASSUME NEW r \in Reqs, Prealloc(r) PROVE OwnedInv'
  <2>1. phase[r] = "new" /\ phase'[r] = "prealloc"
    BY <1>4, Zenon DEF Prealloc, RequestsOK
  <2>2. idx'[r] \notin Range(occ)
    BY <2>1, Zenon DEF FreshIndex, vars, schedVars
  <2> QED
    BY <1>4, <2>2, OwnedPrealloc, Zenon
<1>5. CASE /\ ~Select /\ ~EndDue /\ \A r \in Reqs : ~Prealloc(r)
           /\ \A F \in SUBSET Range(batch) : ~BeginSame(F) /\ ~BeginChanged(F)
  <2>1. owned' = owned /\ occ' = occ /\ snap' \subseteq snap
    BY <1>5, OwnedQuiet, Zenon
  <2>2. UNCHANGED <<kv, len, idx>> /\ Live' \subseteq Live
    BY <1>5, LiveSteps, Zenon
  <2>3. \A i \in PoolIdx, p \in Pages : Recorded(i, p)' => Recorded(i, p)
    BY <2>1, Zenon DEF Recorded
  <2> QED
    BY <2>1, <2>2, <2>3, OwnedKept, Zenon
<1> QED
  BY <1>1, <1>2, <1>3, <1>4, <1>5, Zenon

\* The pages recorded for an index are its request's, as long as no index is
\* handed out again before its row is reset (record_owned_pages).
THEOREM OwnersInvariant ==
  ASSUME IsInjective(FirstSlots)
  PROVE  Spec /\ [][FreshIndex]_vars => []OwnedInv
<1>1. ServerInit => OwnedInv /\ SnapRows /\ (InForward => occ = ReqIds)
  BY Zenon DEF ServerInit, EngineInit, OwnedInv, Recorded, SnapRows, InForward
<1>2. /\ ServerInv /\ ServerInv' /\ SnapRows /\ SlotsInv /\ PagesInv /\ OwnedInv /\ (InForward => occ = ReqIds)
      /\ [Next]_vars /\ [FreshIndex]_vars
      => OwnedInv' /\ SnapRows' /\ (InForward => occ = ReqIds)'
  BY OwnedStep, SnapRowsStep, OccupantsStep, Zenon
<1>3. Spec => []SlotsInv
  BY SlotsInvariant, Zenon
<1> QED
  BY <1>1, <1>2, <1>3, ServerInvariant, PagesInvariant, PTL DEF Spec

\* on_forward_begin by owner clears no page of a request that stays.
LEMMA BeginKeepsLut ==
  ASSUME OwnerRelease \/ NoRowRelease,
         RequestsOK, RowsOK, SlotsInv, OwnedInv, EngineTypeOK, NEW F, BeginSame(F) \/ BeginChanged(F),
         NEW r \in Range(batch), idx[r] \in Range(occ), NEW c \in Chunks, c[1] \in Range(kv[r])
  PROVE  lut'[c] = lut[c]
<1>1. CASE UNCHANGED engineVars
  BY <1>1, Zenon DEF engineVars
<1>2. CASE ReleaseOwned(Range(occ) \ Range(ReqIds))
  <2>1. lut' = LutWithout(UNION {owned[i] : i \in Range(occ) \ Range(ReqIds)})
    BY <1>2, Zenon DEF ReleaseOwned, ReleaseOwnedPages
  <2>2. ASSUME NEW i \in Range(occ) \ Range(ReqIds), c[1] \in owned[i] PROVE FALSE
    <3>1. r \in Live /\ idx[r] \in Range(ReqIds)
      BY InBatch, Zenon
    <3>2. i \in PoolIdx /\ c[1] \in Pages /\ Recorded(i, c[1])
      <4>1. i \in PoolIdx
        BY DEF RowsOK, Range
      <4>2. c[1] \in Pages
        BY ChunkParts, Zenon
      <4> QED
        BY <2>2, <4>1, <4>2, Zenon DEF Recorded
    <3>3. idx[r] = i
      BY <3>1, <3>2, Zenon DEF OwnedInv
    <3> QED
      BY <3>1, <3>3, Zenon
  <2>3. c[1] \notin UNION {owned[i] : i \in Range(occ) \ Range(ReqIds)}
    BY <2>2, Zenon
  <2> QED
    BY <2>1, <2>3, Zenon DEF LutWithout
<1> QED
  BY <1>1, <1>2, Zenon DEF BeginSame, BeginChanged, ReleaseAtBegin

\* With releases by owner, or none by rows, on_forward_begin never takes
\* residency from a request that stays in the batch, whatever the thread does
\* between the steps, as long as no pool index is handed out again before its
\* row is reset.
THEOREM StayingRequestsKeepResidency ==
  ASSUME OwnerRelease \/ NoRowRelease, IsInjective(FirstSlots)
  PROVE  Spec /\ [][FreshIndex]_vars => LiveRequestsKeepTheirLut
<1> DEFINE Keeps == mpc = "queue" /\ mpc' = "store" =>
             \A r \in Range(batch) : occ # <<>> /\ idx[r] \in Range(occ) =>
               \A c \in ChunksOf(r) : lut'[c] = lut[c]
<1>1. ServerInv /\ SlotsInv /\ OwnedInv /\ EngineInv /\ [Next]_vars => [Keeps]_vars
  <2> SUFFICES ASSUME ServerInv, SlotsInv, OwnedInv, EngineInv, [Next]_vars,
                      mpc = "queue", mpc' = "store",
                      NEW r \in Range(batch), idx[r] \in Range(occ), NEW c \in ChunksOf(r)
               PROVE  lut'[c] = lut[c]
    OBVIOUS
  <2>1. \E F \in SUBSET Range(batch) : BeginSame(F) \/ BeginChanged(F)
    BY BeginsForward, Zenon
  <2>2. c \in Chunks /\ c[1] \in Range(kv[r])
    <3>1. r \in Reqs
      BY DEF ServerInv, RowsOK, Range
    <3> QED
      BY <3>1, ChunkOfRequest, Zenon DEF ServerInv
  <2> QED
    BY <2>1, <2>2, BeginKeepsLut, Zenon DEF ServerInv, EngineInv
<1>2. Spec => []SlotsInv
  BY SlotsInvariant, Zenon
<1>3. Spec /\ [][FreshIndex]_vars => []OwnedInv
  BY OwnersInvariant, Zenon
<1> QED
  BY <1>1, <1>2, <1>3, ServerInvariant, ServerEngineInvariant, PTL DEF Spec, LiveRequestsKeepTheirLut

-----------------------------------------------------------------------------
(* Lengths.                                                                *)

\* The running requests are the batch, chunks form while a forward stores, and
\* a request has decoded only once the capturer has seen it in a row.
LengthsInv ==
  /\ \A r \in Reqs : phase[r] = "running" => r \in Range(batch)
  /\ \A r \in forming : mpc = "store" /\ r \in Range(batch) /\ PrefillLen[r] < len[r]
  /\ \A r \in Live : /\ PrefillLen[r] <= len[r]
                     /\ phase[r] # "running" \/ idx[r] \notin Range(occ) => len[r] = PrefillLen[r]

\* A batch with one more row.
LEMMA BatchAppended ==
  ASSUME NEW s \in Seq(Reqs), NEW r \in Reqs
  PROVE  r \in Range(Append(s, r)) /\ Range(s) \subseteq Range(Append(s, r))
<1>1. Len(s) \in Nat /\ DOMAIN s = 1 .. Len(s) /\ DOMAIN Append(s, r) = 1 .. Len(s) + 1
  OBVIOUS
<1>2. Append(s, r)[Len(s) + 1] = r /\ \A k \in 1 .. Len(s) : Append(s, r)[k] = s[k]
  OBVIOUS
<1>3. Len(s) + 1 \in 1 .. Len(s) + 1 /\ \A k \in 1 .. Len(s) : k \in 1 .. Len(s) + 1
  BY <1>1
<1> QED
  BY <1>1, <1>2, <1>3, Zenon DEF Range

\* Admission: a request joins the batch as it was transferred.
LEMMA LengthsAdmission ==
  ASSUME RequestsOK, RowsOK, SlotsInv, LengthsInv, NEW r \in Reqs,
         Prealloc(r) \/ TransferLands(r) \/ Commit(r) \/ Merge(r)
  PROVE  LengthsInv'
<1>1. UNCHANGED <<mpc, forming, occ>>
  BY Zenon DEF Prealloc, TransferLands, Commit, Merge, rowVars
<1>2. /\ \A q \in Reqs : q # r => phase'[q] = phase[q] /\ len'[q] = len[q] /\ idx'[q] = idx[q]
      /\ phase[r] # "running"
      /\ phase'[r] = "running" => r \in Range(batch')
      /\ Range(batch) \subseteq Range(batch')
  <2>1. CASE Prealloc(r)
    BY <2>1, Zenon DEF Prealloc, RequestsOK
  <2>2. CASE TransferLands(r) \/ Commit(r)
    BY <2>2, Zenon DEF TransferLands, Commit, RequestsOK
  <2>3. CASE Merge(r)
    <3>1. r \in Range(batch') /\ Range(batch) \subseteq Range(batch')
      BY <2>3, BatchAppended, Zenon DEF Merge, RowsOK
    <3> QED
      BY <2>3, <3>1, Zenon DEF Merge, RequestsOK
  <2> QED
    BY <2>1, <2>2, <2>3, Zenon
<1>3. len'[r] = PrefillLen[r] /\ PrefillLen[r] <= PrefillLen[r]
  <2>1. PrefillLen[r] <= PrefillLen[r]
    BY ServerAssumption
  <2>2. CASE Prealloc(r)
    BY <2>1, <2>2, Zenon DEF Prealloc, RequestsOK
  <2>3. CASE TransferLands(r) \/ Commit(r) \/ Merge(r)
    <3>1. len' = len /\ phase[r] \in {"prealloc", "landed", "waiting"}
      BY <2>3, Zenon DEF TransferLands, Commit, Merge
    <3> QED
      BY <2>1, <3>1, Zenon DEF LengthsInv, Live
  <2> QED
    BY <2>2, <2>3, Zenon
<1>4. \A q \in Reqs : phase'[q] = "running" => q \in Range(batch')
  BY <1>2, Zenon DEF LengthsInv
<1>5. ASSUME NEW q \in forming' PROVE mpc' = "store" /\ q \in Range(batch') /\ PrefillLen[q] < len'[q]
  <2>1. mpc = "store" /\ q \in Range(batch) /\ PrefillLen[q] < len[q]
    BY <1>1, Zenon DEF LengthsInv
  <2>2. q \in Reqs /\ \E k \in RowsNow : batch[k] = q
    BY <2>1 DEF RowsOK, RowsNow, Range
  <2>3. q \in Reqs /\ phase[q] = "running"
    BY <2>2, Zenon DEF SlotsInv
  <2> QED
    BY <1>1, <1>2, <2>1, <2>3, Zenon
<1>6. ASSUME NEW q \in Live'
      PROVE  /\ PrefillLen[q] <= len'[q]
             /\ phase'[q] # "running" \/ idx'[q] \notin Range(occ') => len'[q] = PrefillLen[q]
  BY <1>1, <1>2, <1>3, Zenon DEF LengthsInv, Live
<1> QED
  BY <1>4, <1>5, <1>6, Zenon DEF LengthsInv

\* A forward begins: only requests of the batch grow, and on_forward_begin sees
\* all of them.
LEMMA LengthsBegin ==
  ASSUME RequestsOK, RowsOK, SlotsInv, LengthsInv, NEW F \in SUBSET Range(batch),
         BeginSame(F) \/ BeginChanged(F)
  PROVE  LengthsInv'
<1>1. PrepareForDecode(F) /\ mpc' = "store"
  BY Zenon DEF BeginSame, BeginChanged
<1>2. occ' = ReqIds
  BY Zenon DEF BeginSame, BeginChanged, ResetRows, rowVars
<1>3. /\ len' = [r \in Reqs |-> IF r \in F THEN len[r] + 1 ELSE len[r]]
      /\ forming' = F /\ UNCHANGED <<phase, idx, freeSlots, batch>>
  BY <1>1, Zenon DEF PrepareForDecode
<1>4. Live' = Live
  BY <1>3, Zenon DEF Live
<1>5. ASSUME NEW r \in Live
      PROVE  /\ PrefillLen[r] <= len'[r]
             /\ phase[r] # "running" \/ idx[r] \notin Range(occ') => len'[r] = PrefillLen[r]
  <2>1. CASE r \in Range(batch)
    <3>1. idx[r] \in Range(occ')
      BY <1>2, <2>1, InBatch, Zenon
    <3>2. \E k \in RowsNow : batch[k] = r
      BY <2>1 DEF RowsOK, RowsNow, Range
    <3>3. phase[r] = "running"
      BY <3>2, Zenon DEF SlotsInv
    <3>4. len'[r] = len[r] \/ len'[r] = len[r] + 1
      BY <1>3, Zenon DEF Live
    <3>5. PrefillLen[r] <= len[r] /\ PrefillLen[r] \in Nat /\ len[r] \in Nat
      BY ServerAssumption DEF LengthsInv, Live, RequestsOK
    <3> QED
      BY <3>1, <3>3, <3>4, <3>5
  <2>2. CASE r \notin Range(batch)
    <3>1. len'[r] = len[r]
      BY <1>3, <2>2, Zenon DEF Live
    <3>2. phase[r] # "running"
      BY <2>2, Zenon DEF LengthsInv, Live
    <3> QED
      BY <3>1, <3>2, Zenon DEF LengthsInv
  <2> QED
    BY <2>1, <2>2, Zenon
<1>6. ASSUME NEW r \in F PROVE r \in Range(batch) /\ PrefillLen[r] < len'[r]
  <2>1. r \in Live /\ r \in Reqs
    BY InBatch, Zenon DEF Live
  <2>2. len'[r] = len[r] + 1
    BY <1>3, <2>1, Zenon
  <2>3. PrefillLen[r] <= len[r] /\ PrefillLen[r] \in Nat /\ len[r] \in Nat
    BY <2>1, ServerAssumption DEF LengthsInv, RequestsOK
  <2> QED
    BY <2>2, <2>3
<1> QED
  BY <1>1, <1>3, <1>4, <1>5, <1>6, Zenon DEF LengthsInv

\* Results: filter_batch keeps the rows of the requests that go on.
LEMMA LengthsResult ==
  ASSUME RequestsOK, RowsOK, LengthsInv, NEW Fin \in SUBSET Range(batch), Result(Fin)
  PROVE  LengthsInv'
<1>1. /\ mpc = "result" /\ UNCHANGED <<kv, len, idx, forming, occ>>
      /\ phase' = [r \in Reqs |-> IF r \in Fin THEN "done" ELSE phase[r]]
  BY Zenon DEF Result, rowVars
<1>2. forming' = {}
  BY <1>1, Zenon DEF LengthsInv
<1>3. PICK stay \in RowLists({k \in RowsNow : batch[k] \notin Fin}) :
        batch' = [k \in DOMAIN stay |-> batch[stay[k]]]
  BY Zenon DEF Result
<1>4. Range(stay) = {k \in RowsNow : batch[k] \notin Fin}
  BY <1>3, Zenon DEF RowLists
<1>5. ASSUME NEW r \in Range(batch), r \notin Fin PROVE r \in Range(batch')
  <2>1. PICK k \in RowsNow : batch[k] = r
    BY DEF RowsOK, RowsNow, Range
  <2>2. k \in Range(stay)
    BY <1>4, <1>5, <2>1, Zenon
  <2>3. PICK n \in DOMAIN stay : stay[n] = k
    BY <2>2, Zenon DEF Range
  <2>4. n \in DOMAIN batch' /\ batch'[n] = r
    BY <1>3, <2>1, <2>3, Zenon
  <2> QED
    BY <2>4, Zenon DEF Range
<1>6. \A r \in Reqs : phase'[r] = "running" => r \in Range(batch')
  BY <1>1, <1>5, Zenon DEF LengthsInv
<1>7. \A r \in Live' : r \in Live /\ phase'[r] = phase[r]
  BY <1>1, Zenon DEF Live
<1> QED
  BY <1>1, <1>2, <1>6, <1>7, Zenon DEF LengthsInv

\* The lengths, through every step.
LEMMA LengthsStep ==
  ASSUME RequestsOK, RowsOK, SlotsInv, ScheduleInv, LengthsInv, [Next]_vars
  PROVE  LengthsInv'
<1>1. ASSUME NEW r \in Reqs, Prealloc(r) \/ TransferLands(r) \/ Commit(r) \/ Merge(r) PROVE LengthsInv'
  BY <1>1, LengthsAdmission, Zenon
<1>2. ASSUME NEW F \in SUBSET Range(batch), BeginSame(F) \/ BeginChanged(F) PROVE LengthsInv'
  BY <1>2, LengthsBegin, Zenon
<1>3. ASSUME NEW F \in SUBSET Range(batch), Result(F) PROVE LengthsInv'
  BY <1>3, LengthsResult, Zenon
<1>4. ASSUME UNCHANGED <<schedVars, occ>>, forming' \subseteq forming, forming' = {} \/ mpc' = mpc PROVE LengthsInv'
  <2>1. UNCHANGED <<phase, kv, len, idx, batch>>
    BY <1>4, Zenon DEF schedVars
  <2>2. Live' = Live
    BY <2>1, Zenon DEF Live
  <2> QED
    BY <1>4, <2>1, <2>2, Zenon DEF LengthsInv
<1>5. mpc # "store" => forming = {}
  BY Zenon DEF LengthsInv
<1>6. ASSUME NEW r \in Reqs, StoreRow(r) PROVE LengthsInv'
  <2>1. UNCHANGED <<schedVars, occ>> /\ forming' \subseteq forming /\ mpc' = mpc
    BY <1>6, Zenon DEF StoreRow, rowVars
  <2> QED
    BY <1>4, <2>1, Zenon
<1>7. ASSUME Remap \/ ReadDone \/ EndQuiet \/ EndDue \/ EndInline PROVE LengthsInv'
  <2>1. UNCHANGED <<schedVars, occ>> /\ forming' = forming /\ forming = {}
    BY <1>5, <1>7, Zenon DEF Remap, ReadDone, EndQuiet, EndDue, EndInline, rowVars
  <2> QED
    BY <1>4, <2>1, Zenon
<1>8. ASSUME Sideband PROVE LengthsInv'
  <2>1. UNCHANGED <<schedVars, occ>> /\ forming' = forming
    BY <1>8, Zenon DEF Sideband, Select, Recall, Publish, RebuildMeta, SidebandFails, rowVars
  <2>2. CASE SidebandFails /\ ~Async
    <3>1. tpc # "none"
      BY <2>2, Zenon DEF SidebandFails
    <3>2. mpc = "inline"
      BY <2>2, <3>1, Zenon DEF ScheduleInv
    <3> QED
      BY <1>4, <1>5, <2>1, <3>2, Zenon
  <2>3. CASE ~(SidebandFails /\ ~Async)
    <3>1. mpc' = mpc
      BY <1>8, <2>3, Zenon DEF Sideband, Select, Recall, Publish, RebuildMeta, SidebandFails
    <3> QED
      BY <1>4, <2>1, <3>1, Zenon
  <2> QED
    BY <2>2, <2>3, Zenon
<1>9. ASSUME UNCHANGED vars PROVE LengthsInv'
  <2>1. UNCHANGED <<schedVars, occ>> /\ forming' = forming /\ mpc' = mpc
    BY <1>9, Zenon DEF vars, rowVars
  <2> QED
    BY <1>4, <2>1, Zenon
<1> QED
  BY <1>1, <1>2, <1>3, <1>6, <1>7, <1>8, <1>9, Zenon DEF Next, Scheduler, Idle

-----------------------------------------------------------------------------
(* Chunks.                                                                 *)

\* A chunk number is its page and its offset.
LEMMA ChunkNumber ==
  ASSUME NEW i \in Nat, NEW j \in Nat, i \div PS = j \div PS, i % PS = j % PS
  PROVE  i = j
<1>1. i \div PS \in Int /\ i % PS = i - PS * (i \div PS)
  BY SizesAssumption
<1>2. j \div PS \in Int /\ j % PS = j - PS * (j \div PS)
  BY SizesAssumption
<1> QED
  BY <1>1, <1>2, SizesAssumption

\* Where chunk j of a request is.
LEMMA ChunkPlace ==
  ASSUME RequestsOK, NEW r \in Reqs, NEW j \in 0 .. len[r] - 1
  PROVE  /\ j \in Nat /\ j \div PS + 1 \in 1 .. Len(kv[r])
         /\ ChunkAt(kv[r], j) \in ChunksOf(r)
         /\ ChunkAt(kv[r], j) \in Chunks
         /\ ChunkAt(kv[r], j)[1] = kv[r][j \div PS + 1] /\ ChunkAt(kv[r], j)[2] = j % PS
         /\ kv[r][j \div PS + 1] \in Range(kv[r]) /\ kv[r][j \div PS + 1] \in Pages
<1>1. kv[r] \in Seq(Pages) /\ len[r] \in Nat /\ len[r] <= PS * Len(kv[r]) /\ Len(kv[r]) \in Nat
  BY DEF RequestsOK
<1>2. j \in Nat /\ j < PS * Len(kv[r])
  BY <1>1, SizesAssumption
<1>3. j \div PS + 1 \in 1 .. Len(kv[r])
  BY <1>1, <1>2, PageOfChunk, Zenon
<1>4. ChunkAt(kv[r], j) \in ChunksOf(r)
  BY Zenon DEF ChunksOf
<1>5. ChunkAt(kv[r], j) \in Chunks
  BY <1>4, ChunkOfRequest, Zenon
<1>6. ChunkAt(kv[r], j)[1] = kv[r][j \div PS + 1] /\ ChunkAt(kv[r], j)[2] = j % PS
  BY Zenon DEF ChunkAt
<1>7. kv[r][j \div PS + 1] \in Range(kv[r]) /\ kv[r][j \div PS + 1] \in Pages
  BY <1>1, <1>3 DEF Range
<1> QED
  BY <1>2, <1>3, <1>4, <1>5, <1>6, <1>7, Zenon

\* No two chunks of live requests are the same one.
LEMMA ChunksApart ==
  ASSUME RequestsOK, PagesInv, NEW r \in Live, NEW q \in Live,
         NEW i \in 0 .. len[r] - 1, NEW j \in 0 .. len[q] - 1,
         ChunkAt(kv[r], i) = ChunkAt(kv[q], j)
  PROVE  r = q /\ i = j
<1>1. r \in Reqs /\ q \in Reqs
  BY Zenon DEF Live
<1>2. /\ i \in Nat /\ i \div PS + 1 \in 1 .. Len(kv[r])
      /\ ChunkAt(kv[r], i)[1] = kv[r][i \div PS + 1] /\ ChunkAt(kv[r], i)[2] = i % PS
      /\ kv[r][i \div PS + 1] \in Range(kv[r])
  BY <1>1, ChunkPlace, Zenon
<1>3. /\ j \in Nat /\ j \div PS + 1 \in 1 .. Len(kv[q])
      /\ ChunkAt(kv[q], j)[1] = kv[q][j \div PS + 1] /\ ChunkAt(kv[q], j)[2] = j % PS
      /\ kv[q][j \div PS + 1] \in Range(kv[q])
  BY <1>1, ChunkPlace, Zenon
<1>4. kv[r][i \div PS + 1] = kv[q][j \div PS + 1] /\ i % PS = j % PS
  BY <1>2, <1>3, Zenon
<1>5. r = q
  BY <1>2, <1>3, <1>4, Zenon DEF PagesInv
<1>6. i \div PS + 1 = j \div PS + 1
  BY <1>2, <1>3, <1>4, <1>5, Zenon DEF PagesInv
<1>7. i \div PS = j \div PS
  BY <1>2, <1>3, <1>6, SizesAssumption
<1>8. i = j
  BY <1>2, <1>3, <1>4, <1>7, ChunkNumber, Zenon
<1> QED
  BY <1>5, <1>8, Zenon

\* A chunk keeps its place while its request grows.
LEMMA ChunkStays ==
  ASSUME RequestsOK, RequestsOK', NEW F, PrepareForDecode(F), NEW r \in Reqs, NEW j \in 0 .. len[r] - 1
  PROVE  ChunkAt(kv'[r], j) = ChunkAt(kv[r], j)
<1>1. j \div PS + 1 \in 1 .. Len(kv[r])
  BY ChunkPlace, Zenon
<1>2. kv'[r][j \div PS + 1] = kv[r][j \div PS + 1]
  BY <1>1, PrepareKeeps, Zenon
<1> QED
  BY <1>2, Zenon DEF ChunkAt

-----------------------------------------------------------------------------
(* The mirror and the registration.                                        *)

Admitted == {r \in Reqs : phase[r] \in {"waiting", "running"}}

\* From its transfer on the mirror has a request's prefill chunks; from its
\* commit on the engine has its prefill length and its decode slot.
TransferredInv ==
  /\ \A r \in Live : phase[r] # "prealloc" =>
       \A j \in 0 .. PrefillLen[r] - 1 : mirror[ChunkAt(kv[r], j)] = <<r, ChunkAt(kv[r], j)>>
  /\ \A r \in Admitted : prefillChunks[idx[r]] = PrefillLen[r] /\ decodeSlot[idx[r]] \in Slots

\* Steps that leave the transferred requests what they have.
LEMMA TransferredKept ==
  ASSUME TransferredInv, UNCHANGED <<mirror, prefillChunks, decodeSlot>>,
         \A q \in Live' : phase'[q] # "prealloc" =>
           /\ q \in Live /\ phase[q] # "prealloc"
           /\ \A j \in 0 .. PrefillLen[q] - 1 : ChunkAt(kv'[q], j) = ChunkAt(kv[q], j),
         \A q \in Admitted' : q \in Admitted /\ idx'[q] = idx[q]
  PROVE  TransferredInv'
<1>1. ASSUME NEW q \in Live', phase'[q] # "prealloc", NEW j \in 0 .. PrefillLen[q] - 1
      PROVE  mirror'[ChunkAt(kv'[q], j)] = <<q, ChunkAt(kv'[q], j)>>
  <2>1. /\ q \in Live /\ phase[q] # "prealloc"
        /\ ChunkAt(kv'[q], j) = ChunkAt(kv[q], j)
    BY <1>1, Zenon
  <2>2. mirror[ChunkAt(kv[q], j)] = <<q, ChunkAt(kv[q], j)>>
    BY <2>1, Zenon DEF TransferredInv
  <2> QED
    BY <2>1, <2>2, Zenon
<1>2. \A q \in Admitted' : prefillChunks'[idx'[q]] = PrefillLen[q] /\ decodeSlot'[idx'[q]] \in Slots
  BY Zenon DEF TransferredInv
<1> QED
  BY <1>1, <1>2, Zenon DEF TransferredInv

\* The prefill chunks of a request are chunks of it.
LEMMA PrefillChunk ==
  ASSUME RequestsOK, LengthsInv, NEW r \in Live, NEW j \in 0 .. PrefillLen[r] - 1
  PROVE  j \in 0 .. len[r] - 1
<1>1. PrefillLen[r] <= len[r] /\ PrefillLen[r] \in Nat /\ len[r] \in Nat
  BY ServerAssumption DEF LengthsInv, Live, RequestsOK
<1> QED
  BY <1>1

\* A transfer writes its own request's rows of the mirror and no other's.
LEMMA TransferredLands ==
  ASSUME RequestsOK, PagesInv, LengthsInv, TransferredInv, NEW r \in Reqs, TransferLands(r)
  PROVE  TransferredInv'
<1>1. /\ phase[r] = "prealloc" /\ phase' = [phase EXCEPT ![r] = "landed"]
      /\ UNCHANGED <<kv, len, idx, prefillChunks, decodeSlot>> /\ NixlWrite(r, Range(kv[r]), ChunksOf(r))
  BY Zenon DEF TransferLands, Land, decodeVars
<1>2. Live' = Live /\ Admitted' = Admitted /\ r \in Live
  BY <1>1, Zenon DEF Live, Admitted, RequestsOK
<1>3. ASSUME NEW q \in Live, phase'[q] # "prealloc", NEW j \in 0 .. PrefillLen[q] - 1
      PROVE  mirror'[ChunkAt(kv[q], j)] = <<q, ChunkAt(kv[q], j)>>
  <2> DEFINE c == ChunkAt(kv[q], j)
  <2>1. j \in 0 .. len[q] - 1 /\ q \in Reqs
    BY PrefillChunk, Zenon DEF Live
  <2>2. c \in Chunks /\ c \in ChunksOf(q) /\ c[1] \in Range(kv[q])
    BY <2>1, ChunkPlace, Zenon
  <2> HIDE DEF c
  <2>3. CASE q = r
    <3>1. mirror'[c] = <<r, c>>
      BY <1>1, <2>2, <2>3, Zenon DEF NixlWrite
    <3> QED
      BY <2>3, <3>1, Zenon DEF c
  <2>4. CASE q # r
    <3>1. c[1] \notin Range(kv[r])
      BY <1>2, <2>2, <2>4, Zenon DEF PagesInv
    <3>2. c \notin ChunksOf(r)
      BY <3>1, ChunkOfRequest, Zenon
    <3>3. mirror'[c] = mirror[c]
      BY <1>1, <2>2, <3>1, <3>2, Zenon DEF NixlWrite
    <3>4. phase[q] # "prealloc"
      BY <1>1, <1>3, <2>1, <2>4, Zenon DEF RequestsOK
    <3>5. mirror[c] = <<q, c>>
      BY <3>4, Zenon DEF TransferredInv, c
    <3> QED
      BY <3>3, <3>5, Zenon DEF c
  <2> QED
    BY <2>3, <2>4, Zenon
<1> QED
  BY <1>1, <1>2, <1>3, Zenon DEF TransferredInv

\* A commit registers the request under its own pool index.
LEMMA TransferredCommit ==
  ASSUME RequestsOK, SlotsInv, EngineTypeOK, TransferredInv, NEW r \in Reqs, Commit(r)
  PROVE  TransferredInv'
<1>1. /\ phase[r] = "landed" /\ phase' = [phase EXCEPT ![r] = "waiting"]
      /\ UNCHANGED <<kv, len, idx, mirror>> /\ RegisterDecodeReq(idx[r], PrefillLen[r])
  BY Zenon DEF Commit, Admit
<1>2. Live' = Live /\ Admitted' = Admitted \cup {r} /\ r \in Live /\ Admitted \subseteq Live /\ r \notin Admitted
  BY <1>1, Zenon DEF Live, Admitted, RequestsOK
<1>3. \A q \in Live' : phase'[q] # "prealloc" => phase[q] # "prealloc"
  BY <1>1, <1>2, Zenon DEF Live, RequestsOK
<1>4. idx[r] \in PoolIdx
  BY <1>1, Zenon DEF RequestsOK
<1>5. prefillChunks'[idx[r]] = PrefillLen[r] /\ decodeSlot'[idx[r]] \in Slots
  <2>1. nextSlot % MaxConc \in Slots
    BY SizesAssumption DEF EngineTypeOK, Slots
  <2>2. decodeSlot[idx[r]] \in Slots \/ decodeSlot[idx[r]] < 0
    BY <1>4 DEF EngineTypeOK
  <2> QED
    BY <1>1, <1>4, <2>1, <2>2, Zenon DEF RegisterDecodeReq, EngineTypeOK
<1>6. ASSUME NEW q \in Admitted PROVE prefillChunks'[idx[q]] = PrefillLen[q] /\ decodeSlot'[idx[q]] \in Slots
  <2>1. idx[q] # idx[r]
    BY <1>2, Zenon DEF SlotsInv
  <2>2. idx[q] \in PoolIdx
    BY Zenon DEF RequestsOK, Admitted
  <2>3. prefillChunks'[idx[q]] = prefillChunks[idx[q]] /\ decodeSlot'[idx[q]] = decodeSlot[idx[q]]
    BY <1>1, <2>1, <2>2, Zenon DEF RegisterDecodeReq, EngineTypeOK
  <2> QED
    BY <2>3, Zenon DEF TransferredInv
<1> QED
  BY <1>1, <1>2, <1>3, <1>5, <1>6, Zenon DEF TransferredInv

\* The transferred requests, through every step.
LEMMA TransferredStep ==
  ASSUME RequestsOK, RequestsOK', SlotsInv, PagesInv, EngineTypeOK, LengthsInv, TransferredInv, [Next]_vars
  PROVE  TransferredInv'
<1>1. ASSUME NEW r \in Reqs, TransferLands(r) PROVE TransferredInv'
  BY <1>1, TransferredLands, Zenon
<1>2. ASSUME NEW r \in Reqs, Commit(r) PROVE TransferredInv'
  BY <1>2, TransferredCommit, Zenon
<1>3. CASE \A r \in Reqs : ~TransferLands(r) /\ ~Commit(r)
  <2>1. UNCHANGED <<mirror, prefillChunks, decodeSlot>>
    BY <1>3, MirrorSteps, Zenon
  <2>2. ASSUME NEW r \in Reqs, Prealloc(r) PROVE TransferredInv'
    <3>1. phase[r] = "new" /\ phase' = [phase EXCEPT ![r] = "prealloc"]
      BY <2>2, Zenon DEF Prealloc
    <3>2. \A q \in Live : kv'[q] = kv[q] /\ idx'[q] = idx[q]
      BY <2>2, PagesPrealloc, Zenon
    <3>3. \A q \in Live' : phase'[q] # "prealloc" => q # r /\ q \in Live /\ phase[q] # "prealloc"
      BY <3>1, Zenon DEF Live, RequestsOK
    <3>4. \A q \in Admitted' : q \in Admitted /\ q \in Live
      BY <3>1, Zenon DEF Live, Admitted, RequestsOK
    <3>5. \A q \in Live' : phase'[q] # "prealloc" =>
            /\ q \in Live /\ phase[q] # "prealloc"
            /\ \A j \in 0 .. PrefillLen[q] - 1 : ChunkAt(kv'[q], j) = ChunkAt(kv[q], j)
      BY <3>2, <3>3, Zenon
    <3> QED
      BY <2>1, <3>2, <3>4, <3>5, TransferredKept, Zenon
  <2>3. ASSUME NEW F \in SUBSET Range(batch), BeginSame(F) \/ BeginChanged(F) PROVE TransferredInv'
    <3>1. PrepareForDecode(F)
      BY <2>3, Zenon DEF BeginSame, BeginChanged
    <3>2. UNCHANGED <<phase, idx>>
      BY <3>1, Zenon DEF PrepareForDecode
    <3>3. Live' = Live /\ Admitted' = Admitted
      BY <3>2, Zenon DEF Live, Admitted
    <3>4. ASSUME NEW q \in Live, NEW j \in 0 .. PrefillLen[q] - 1 PROVE ChunkAt(kv'[q], j) = ChunkAt(kv[q], j)
      <4>1. j \in 0 .. len[q] - 1 /\ q \in Reqs
        BY PrefillChunk, Zenon DEF Live
      <4> QED
        BY <3>1, <4>1, ChunkStays, Zenon
    <3> QED
      BY <2>1, <3>2, <3>3, <3>4, TransferredKept, Zenon
  <2>4. ASSUME UNCHANGED <<kv, len, idx>>, Live' \subseteq Live,
               \A q \in Reqs : (phase'[q] \in {"prealloc", "landed"} => phase'[q] = phase[q])
                               /\ (q \in Admitted' => q \in Admitted)
               PROVE TransferredInv'
    <3>1. \A q \in Live' : phase'[q] # "prealloc" => phase[q] # "prealloc"
      BY <2>4, Zenon DEF Live, Admitted
    <3>2. \A q \in Admitted' : q \in Admitted
      BY <2>4, Zenon DEF Admitted
    <3> QED
      BY <2>1, <2>4, <3>1, <3>2, TransferredKept, Zenon
  <2>5. ASSUME NEW r \in Reqs, Merge(r) PROVE TransferredInv'
    <3>1. phase[r] = "waiting" /\ phase' = [phase EXCEPT ![r] = "running"] /\ UNCHANGED <<kv, len, idx>>
      BY <2>5, Zenon DEF Merge
    <3> QED
      BY <2>4, <3>1, Zenon DEF Live, Admitted, RequestsOK
  <2>6. ASSUME NEW F \in SUBSET Range(batch), Result(F) PROVE TransferredInv'
    <3>1. phase' = [r \in Reqs |-> IF r \in F THEN "done" ELSE phase[r]] /\ UNCHANGED <<kv, len, idx>>
      BY <2>6, Zenon DEF Result
    <3> QED
      BY <2>4, <3>1, Zenon DEF Live, Admitted
  <2>7. ASSUME UNCHANGED schedVars PROVE TransferredInv'
    <3>1. UNCHANGED <<phase, kv, len, idx>>
      BY <2>7, Zenon DEF schedVars
    <3> QED
      BY <2>4, <3>1, Zenon DEF Live, Admitted
  <2> QED
    BY <1>3, <2>2, <2>3, <2>5, <2>6, <2>7, SchedSteps, Zenon
<1> QED
  BY <1>1, <1>2, <1>3, Zenon

-----------------------------------------------------------------------------
(* What a cycle inside on_forward_end works on.                            *)

\* A snapshot is of the rows as they are.
SnapsNow ==
  \A s \in snap : /\ s.row \in RowsNow
                  /\ s.idx = idx[batch[s.row]] /\ s.pages = kv[batch[s.row]] /\ s.n = len[batch[s.row]]

\* A snapshot is taken in on_forward_end only.
LEMMA SnapShrinks ==
  ASSUME [Next]_vars, ~EndDue
  PROVE  snap' \subseteq snap
<1>1. CASE Select
  BY <1>1, Zenon DEF Select
<1>2. ASSUME NEW F, BeginSame(F) \/ BeginChanged(F) PROVE snap' = snap
  BY <1>2, Zenon DEF BeginSame, BeginChanged, threadVars
<1> QED
  BY <1>1, <1>2, OwnedQuiet, Zenon

\* The snapshots, while the scheduler waits for the cycle.
LEMMA SnapsNowStep ==
  ASSUME ~Async, ScheduleInv, SnapRows, SnapsNow, [Next]_vars
  PROVE  SnapsNow'
<1>1. CASE EndDue
  <2>1. UNCHANGED <<batch, kv, len, idx>>
    BY <1>1, Zenon DEF EndDue, schedVars
  <2>2. RowsNow' = RowsNow
    BY <2>1, Zenon DEF RowsNow
  <2>3. ASSUME NEW s \in snap'
        PROVE  /\ s.row \in RowsNow
               /\ s.idx = idx[batch[s.row]] /\ s.pages = kv[batch[s.row]] /\ s.n = len[batch[s.row]]
    <3>1. PICK k \in Due : s = [row |-> k, idx |-> ReqIds[k], pages |-> kv[batch[k]], n |-> len[batch[k]]]
      BY <1>1, <2>3, Zenon DEF EndDue
    <3>2. k \in RowsNow /\ ReqIds[k] = idx[batch[k]]
      BY Zenon DEF Due, ReqIds
    <3>3. s.row = k /\ s.idx = ReqIds[k] /\ s.pages = kv[batch[k]] /\ s.n = len[batch[k]]
      BY <3>1
    <3> QED
      BY <3>2, <3>3, Zenon
  <2> QED
    BY <2>1, <2>2, <2>3, Zenon DEF SnapsNow
<1>2. ASSUME ~EndDue, NEW s \in snap'
      PROVE  /\ s.row \in RowsNow'
             /\ s.idx = idx'[batch'[s.row]] /\ s.pages = kv'[batch'[s.row]] /\ s.n = len'[batch'[s.row]]
  <2>1. s \in snap
    BY <1>2, SnapShrinks, Zenon
  <2>2. tpc # "none"
    BY <2>1, Zenon DEF SnapRows
  <2>3. (\E r \in Reqs : TransferLands(r)) \/ Sideband \/ UNCHANGED vars
    BY <2>2, InlineSteps, Zenon
  <2>4. UNCHANGED <<batch, kv, len, idx>>
    BY <2>3, Zenon DEF TransferLands, Sideband, Select, Recall, Publish, RebuildMeta, SidebandFails, schedVars, vars
  <2>5. RowsNow' = RowsNow
    BY <2>4, Zenon DEF RowsNow
  <2> QED
    BY <2>1, <2>4, <2>5, Zenon DEF SnapsNow
<1> QED
  BY <1>1, <1>2, Zenon DEF SnapsNow

\* A chunk that is not resident is in neither region.
LEMMA MissCell == ~IsDecodeCell(NoCell) /\ ~IsRecallCell(NoCell)
BY Zenon DEF NoCell, IsDecodeCell, IsRecallCell
==============================================================================
