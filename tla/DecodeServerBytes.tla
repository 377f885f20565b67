--------------------------- MODULE DecodeServerBytes --------------------------
(***************************************************************************)
(* Whose bytes a forward reads, with the side-band inside on_forward_end:  *)
(* for any number of requests, rows, pages, blocks and decode slots, every *)
(* cell attention reads holds what the row's request produced for the      *)
(* chunk it selected.                                                      *)
(***************************************************************************)
EXTENDS DecodeServerRows

-----------------------------------------------------------------------------
(* The cycle inside on_forward_end, and what a forward translated.         *)

\* A snapshot is of the rows as they are; what a forward is about to read are
\* chunks of its rows' requests, translated by the lut as it is.
PlacesInv ==
  /\ SnapsNow
  /\ mpc = "read" => \A e \in reads : /\ e.row \in RowsNow /\ e.chunk \in ChunksOf(batch[e.row])
                                      /\ e.cell = lut[e.chunk] /\ e.cell # NoCell

\* Outside on_forward_end there is no cycle.
LEMMA NoCycle ==
  ASSUME ~Async, ScheduleInv, mpc # "inline"
  PROVE  tpc = "none" /\ ~Sideband
BY Zenon DEF ScheduleInv, Sideband, Select, Recall, Publish, RebuildMeta, SidebandFails

\* A forward reads once it has translated, until it is done.
LEMMA ReadingSteps ==
  ASSUME ~Async, ScheduleInv, [Next]_vars, mpc' = "read"
  PROVE  Remap \/ (mpc = "read" /\ ((\E r \in Reqs : TransferLands(r)) \/ UNCHANGED vars))
<1>1. ASSUME NEW r \in Reqs PROVE ~Prealloc(r) /\ ~Commit(r) /\ ~Merge(r) /\ ~StoreRow(r)
  BY Zenon DEF Prealloc, Commit, Merge, StoreRow
<1>2. ~ReadDone /\ ~EndQuiet /\ ~EndDue /\ ~EndInline
  BY Zenon DEF ReadDone, EndQuiet, EndDue, EndInline
<1>3. \A F : ~BeginSame(F) /\ ~BeginChanged(F) /\ ~Result(F)
  BY Zenon DEF BeginSame, BeginChanged, Result
<1>4. ~Sideband
  <2>1. CASE mpc # "inline"
    BY <2>1, NoCycle, Zenon
  <2>2. CASE mpc = "inline"
    BY <2>2, Zenon DEF Sideband, Select, Recall, Publish, RebuildMeta, SidebandFails
  <2> QED
    BY <2>1, <2>2, Zenon
<1>5. (\E r \in Reqs : TransferLands(r)) \/ UNCHANGED vars => mpc = "read"
  BY Zenon DEF TransferLands, vars
<1> QED
  BY <1>1, <1>2, <1>3, <1>4, <1>5, Zenon DEF Next, Scheduler, Idle

\* What a forward translates.
LEMMA RemapPlaces ==
  ASSUME PublishedRowIsOccupants, Remap, NEW e \in reads'
  PROVE  /\ e.row \in RowsNow /\ e.chunk \in ChunksOf(batch[e.row])
         /\ e.cell = lut[e.chunk] /\ e.cell # NoCell
<1>1. PICK k \in {i \in RowsNow : count[i]} :
        e \in {[row |-> k, chunk |-> c, cell |-> lut[c]] : c \in {d \in ploc[k] : lut[d] # NoCell}}
  BY Zenon DEF Remap
<1>2. PICK c \in ploc[k] : lut[c] # NoCell /\ e = [row |-> k, chunk |-> c, cell |-> lut[c]]
  BY <1>1, Zenon
<1>3. mpc = "store"
  BY Zenon DEF Remap
<1>4. c \in ChunksOf(batch[k])
  BY <1>1, <1>3, Zenon DEF PublishedRowIsOccupants
<1>5. e.row = k /\ e.chunk = c /\ e.cell = lut[c]
  BY <1>2
<1> QED
  BY <1>1, <1>2, <1>4, <1>5, Zenon

\* Snapshots and reads, through every step.
LEMMA PlacesStep ==
  ASSUME ~Async, RequestsOK, RowsOK, ScheduleInv, SnapRows, PublishedRowIsOccupants, PlacesInv, [Next]_vars
  PROVE  PlacesInv'
<1>1. SnapsNow'
  BY SnapsNowStep, Zenon DEF PlacesInv
<1>2. ASSUME mpc' = "read", NEW e \in reads'
      PROVE  /\ e.row \in RowsNow' /\ e.chunk \in ChunksOf(batch[e.row])'
             /\ e.cell = lut'[e.chunk] /\ e.cell # NoCell
  <2>1. UNCHANGED <<batch, kv, len, lut>> /\ (Remap \/ (mpc = "read" /\ reads' = reads))
    <3>1. CASE Remap
      BY <3>1, Zenon DEF Remap, schedVars, engineVars
    <3>2. ASSUME NEW r \in Reqs, TransferLands(r) PROVE UNCHANGED <<batch, kv, len, lut, reads>>
      BY <3>2, Zenon DEF TransferLands, Land
    <3>3. CASE UNCHANGED vars
      BY <1>2, <3>3, Zenon DEF vars, schedVars, engineVars
    <3> QED
      BY <1>2, <3>1, <3>2, <3>3, ReadingSteps, Zenon
  <2>2. RowsNow' = RowsNow /\ ChunksOf(batch[e.row])' = ChunksOf(batch[e.row])
    BY <2>1, Zenon DEF RowsNow, ChunksOf
  <2>3. /\ e.row \in RowsNow /\ e.chunk \in ChunksOf(batch[e.row])
        /\ e.cell = lut[e.chunk] /\ e.cell # NoCell
    BY <1>2, <2>1, RemapPlaces, Zenon DEF PlacesInv
  <2> QED
    BY <2>1, <2>2, <2>3, Zenon
<1> QED
  BY <1>1, <1>2, Zenon DEF PlacesInv

-----------------------------------------------------------------------------
(* Bytes.                                                                  *)

\* The chunks of r whose bytes have landed or been stored.
Formed(r) == {j \in 0 .. len[r] - 1 : ~(r \in forming /\ j = len[r] - 1)}

\* Where the lut may have chunk j of r, whose decode slot is d: nowhere, unless
\* it was decoded into the page with the last prefill chunks; in its own place
\* of the decode region; in the recall region, if it is a prefill chunk.
CellOK(r, j, k, d) ==
  /\ IsDecodeCell(k) => k = <<"decode", d, j - PrefillLen[r]>>
  /\ PrefillLen[r] <= j => ~IsRecallCell(k)
  /\ OnBoundary(r, j) => IsDecodeCell(k)

\* A resident chunk has its request's bytes for it.
BytesInv ==
  \A r \in Admitted : \A j \in Formed(r) :
    LET c == ChunkAt(kv[r], j)
    IN /\ lut[c] # NoCell => reserve[lut[c]] = <<r, c>>
       /\ CellOK(r, j, lut[c], decodeSlot[idx[r]])

\* The decode region has room for all a request may decode.
DecodeFits == \A r \in Reqs : MaxChunks - PrefillLen[r] <= DecodeChunks

\* No eviction takes the page with the last prefill chunks of a running request
\* that has decoded into it.
KeepsBoundaryPages ==
  \A r \in Reqs : Running(r) => \A j \in 0 .. len[r] - 1 :
    OnBoundary(r, j) /\ rpc = "alloc" /\ p2b[kv[r][j \div PS + 1]] # NoBlock
      => p2b'[kv[r][j \div PS + 1]] # NoBlock

\* What a formed chunk is.
LEMMA FormedFacts ==
  ASSUME RequestsOK, NEW r \in Admitted, NEW j \in Formed(r)
  PROVE  /\ r \in Live /\ r \in Reqs /\ idx[r] \in PoolIdx
         /\ j \in 0 .. len[r] - 1 /\ j \in Nat /\ len[r] \in Nat /\ PrefillLen[r] \in Nat
         /\ ChunkAt(kv[r], j) \in Chunks
         /\ ChunkAt(kv[r], j)[1] = kv[r][j \div PS + 1] /\ kv[r][j \div PS + 1] \in Range(kv[r])
         /\ kv[r][j \div PS + 1] \in Pages /\ j \div PS + 1 \in 1 .. Len(kv[r])
<1>1. r \in Live /\ r \in Reqs /\ idx[r] \in PoolIdx
  BY Zenon DEF Admitted, Live, RequestsOK
<1>2. j \in 0 .. len[r] - 1
  BY Zenon DEF Formed
<1>3. len[r] \in Nat /\ PrefillLen[r] \in Nat
  BY <1>1, ServerAssumption DEF RequestsOK
<1> QED
  BY <1>1, <1>2, <1>3, ChunkPlace, Zenon

\* Steps that leave a formed chunk where it is, with its bytes, or mask it.
LEMMA BytesKept ==
  ASSUME BytesInv,
         \A r \in Admitted' : \A j \in Formed(r)' :
           /\ r \in Admitted /\ j \in Formed(r)
           /\ ChunkAt(kv'[r], j) = ChunkAt(kv[r], j)
           /\ decodeSlot'[idx'[r]] = decodeSlot[idx[r]]
           /\ \/ /\ lut'[ChunkAt(kv[r], j)] = lut[ChunkAt(kv[r], j)]
                 /\ lut[ChunkAt(kv[r], j)] # NoCell =>
                      reserve'[lut[ChunkAt(kv[r], j)]] = reserve[lut[ChunkAt(kv[r], j)]]
              \/ lut'[ChunkAt(kv[r], j)] = NoCell /\ ~OnBoundary(r, j)
  PROVE  BytesInv'
<1> SUFFICES ASSUME NEW r \in Admitted', NEW j \in Formed(r)'
             PROVE  LET c == ChunkAt(kv'[r], j)
                    IN /\ lut'[c] # NoCell => reserve'[lut'[c]] = <<r, c>>
                       /\ CellOK(r, j, lut'[c], decodeSlot'[idx'[r]])
  BY Zenon DEF BytesInv
<1> DEFINE c == ChunkAt(kv[r], j)
<1>1. /\ r \in Admitted /\ j \in Formed(r) /\ ChunkAt(kv'[r], j) = c
      /\ decodeSlot'[idx'[r]] = decodeSlot[idx[r]]
      /\ \/ lut'[c] = lut[c] /\ (lut[c] # NoCell => reserve'[lut[c]] = reserve[lut[c]])
         \/ lut'[c] = NoCell /\ ~OnBoundary(r, j)
  BY Zenon
<1>2. (lut[c] # NoCell => reserve[lut[c]] = <<r, c>>) /\ CellOK(r, j, lut[c], decodeSlot[idx[r]])
  BY <1>1, Zenon DEF BytesInv
<1> HIDE DEF c
<1>3. ~OnBoundary(r, j) => CellOK(r, j, NoCell, decodeSlot[idx[r]])
  BY MissCell, Zenon DEF CellOK
<1> QED
  BY <1>1, <1>2, <1>3, Zenon

\* Steps of the scheduler and the thread that touch neither lut nor bytes.
LEMMA BytesQuiet ==
  ASSUME BytesInv, UNCHANGED <<kv, len, idx, forming, lut, reserve, decodeSlot>>, Admitted' \subseteq Admitted
  PROVE  BytesInv'
<1>1. \A r : Formed(r)' = Formed(r)
  BY Zenon DEF Formed
<1> QED
  BY <1>1, BytesKept, Zenon

\* A commit masks what it admits; what others have stays.
LEMMA BytesCommit ==
  ASSUME RequestsOK, RowsOK, SlotsInv, PagesInv, EngineTypeOK, LengthsInv, TransferredInv, BytesInv,
         NEW r \in Reqs, Commit(r)
  PROVE  BytesInv'
<1>1. /\ phase[r] = "landed" /\ phase' = [phase EXCEPT ![r] = "waiting"]
      /\ UNCHANGED <<kv, len, idx, forming, reserve>> /\ RegisterDecodeReq(idx[r], PrefillLen[r])
      /\ lut' = LutWithout(Range(kv[r]))
  BY Zenon DEF Commit, Admit, DiscardCopiedPages
<1>2. /\ Admitted' = Admitted \cup {r} /\ r \in Live /\ Admitted \subseteq Live /\ r \notin Admitted
      /\ idx[r] \in PoolIdx
  BY <1>1, Zenon DEF Live, Admitted, RequestsOK
<1>3. \A q : Formed(q)' = Formed(q)
  BY <1>1, Zenon DEF Formed
<1>4. ASSUME NEW q \in Admitted', NEW j \in Formed(q)
      PROVE  LET c == ChunkAt(kv[q], j)
             IN /\ lut'[c] # NoCell => reserve[lut'[c]] = <<q, c>>
                /\ CellOK(q, j, lut'[c], decodeSlot'[idx[q]])
  <2> DEFINE c == ChunkAt(kv[q], j)
  <2>1. q \in Live /\ q \in Reqs /\ j \in 0 .. len[q] - 1
    BY <1>2, Zenon DEF Live, Formed
  <2>2. c \in Chunks /\ c[1] \in Range(kv[q])
    BY <2>1, ChunkPlace, Zenon
  <2>3. CASE q = r
    <3>1. lut'[c] = NoCell
      BY <1>1, <2>2, <2>3, Zenon DEF LutWithout
    <3>2. len[r] = PrefillLen[r] /\ PrefillLen[r] \in Nat
      BY <1>1, <1>2, ServerAssumption DEF LengthsInv
    <3>3. ~OnBoundary(q, j)
      BY <2>1, <2>3, <3>2 DEF OnBoundary
    <3> HIDE DEF c
    <3>4. CellOK(q, j, NoCell, decodeSlot'[idx[q]])
      BY <3>3, MissCell, Zenon DEF CellOK
    <3> QED
      BY <3>1, <3>4, Zenon DEF c
  <2>4. CASE q # r
    <3>1. q \in Admitted
      BY <1>2, <2>4, Zenon
    <3>2. c[1] \notin Range(kv[r])
      BY <1>2, <2>1, <2>2, <2>4, Zenon DEF PagesInv
    <3>3. lut'[c] = lut[c]
      BY <1>1, <2>2, <3>2, Zenon DEF LutWithout
    <3>4. idx[q] # idx[r] /\ idx[q] \in PoolIdx
      BY <1>2, <2>1, <2>4, <3>1, Zenon DEF SlotsInv, RequestsOK, Admitted
    <3>5. decodeSlot'[idx[q]] = decodeSlot[idx[q]]
      BY <1>1, <3>4, Zenon DEF RegisterDecodeReq, EngineTypeOK
    <3>6. (lut[c] # NoCell => reserve[lut[c]] = <<q, c>>) /\ CellOK(q, j, lut[c], decodeSlot[idx[q]])
      BY <3>1, Zenon DEF BytesInv
    <3> HIDE DEF c
    <3> QED
      BY <3>3, <3>5, <3>6, Zenon DEF c
  <2> QED
    BY <2>3, <2>4, Zenon
<1>5. ASSUME NEW q \in Admitted', NEW j \in Formed(q)'
      PROVE  LET c == ChunkAt(kv'[q], j)
             IN /\ lut'[c] # NoCell => reserve'[lut'[c]] = <<q, c>>
                /\ CellOK(q, j, lut'[c], decodeSlot'[idx'[q]])
  BY <1>1, <1>3, <1>4, <1>5, Zenon
<1> QED
  BY <1>5, Zenon DEF BytesInv

\* on_forward_begin moves no bytes; it clears entries or leaves them.
LEMMA BeginClears ==
  ASSUME NEW F, BeginSame(F) \/ BeginChanged(F), EngineTypeOK, NEW c \in Chunks
  PROVE  (lut'[c] = lut[c] \/ lut'[c] = NoCell) /\ UNCHANGED <<reserve, decodeSlot>>
<1>1. CASE UNCHANGED engineVars
  BY <1>1, Zenon DEF engineVars
<1>2. ASSUME NEW V, ReleaseOwned(V)
      PROVE  (lut'[c] = lut[c] \/ lut'[c] = NoCell) /\ UNCHANGED <<reserve, decodeSlot>>
  BY <1>2, Zenon DEF ReleaseOwned, ReleaseOwnedPages, LutWithout, decodeVars
<1>3. ASSUME NEW P, Release(P)
      PROVE  (lut'[c] = lut[c] \/ lut'[c] = NoCell) /\ UNCHANGED <<reserve, decodeSlot>>
  BY <1>3, Zenon DEF Release, ReleaseReqPoolLocs, LutWithout, decodeVars
<1> QED
  BY <1>1, <1>2, <1>3, Zenon DEF BeginSame, BeginChanged, ReleaseAtBegin

\* A forward begins: the new chunks are not formed yet, and what is cleared is
\* of requests that have not decoded.
LEMMA BytesBegin ==
  ASSUME OwnerRelease \/ NoRowRelease,
         RequestsOK, RequestsOK', RowsOK, SlotsInv, OwnedInv, EngineTypeOK, LengthsInv, BytesInv,
         NEW F \in SUBSET Range(batch), BeginSame(F) \/ BeginChanged(F)
  PROVE  BytesInv'
<1>1. PrepareForDecode(F) /\ mpc = "queue"
  BY Zenon DEF BeginSame, BeginChanged, ReadyToDecode
<1>2. /\ len' = [r \in Reqs |-> IF r \in F THEN len[r] + 1 ELSE len[r]]
      /\ forming' = F /\ UNCHANGED <<phase, idx>>
  BY <1>1, Zenon DEF PrepareForDecode
<1>3. Admitted' = Admitted
  BY <1>2, Zenon DEF Admitted
<1>4. forming = {}
  BY <1>1, Zenon DEF LengthsInv
<1>5. ASSUME NEW r \in Admitted, NEW j \in Formed(r)' PROVE j \in Formed(r)
  <2>1. r \in Reqs /\ len[r] \in Nat
    BY DEF Admitted, RequestsOK
  <2>2. j \in 0 .. len'[r] - 1 /\ ~(r \in F /\ j = len'[r] - 1)
    BY <1>2, Zenon DEF Formed
  <2>3. len'[r] = IF r \in F THEN len[r] + 1 ELSE len[r]
    BY <1>2, <2>1, Zenon
  <2>4. j \in 0 .. len[r] - 1
    BY <2>1, <2>2, <2>3
  <2> QED
    BY <1>4, <2>4, Zenon DEF Formed
<1>6. ASSUME NEW r \in Admitted, NEW j \in Formed(r)
      PROVE  /\ ChunkAt(kv'[r], j) = ChunkAt(kv[r], j)
             /\ decodeSlot'[idx'[r]] = decodeSlot[idx[r]]
             /\ \/ lut'[ChunkAt(kv[r], j)] = lut[ChunkAt(kv[r], j)]
                \/ lut'[ChunkAt(kv[r], j)] = NoCell /\ ~OnBoundary(r, j)
             /\ reserve' = reserve
  <2> DEFINE c == ChunkAt(kv[r], j)
  <2>1. /\ r \in Live /\ r \in Reqs /\ j \in 0 .. len[r] - 1 /\ j \in Nat /\ len[r] \in Nat /\ PrefillLen[r] \in Nat
        /\ c \in Chunks /\ c[1] \in Range(kv[r])
    BY FormedFacts, Zenon
  <2>2. ChunkAt(kv'[r], j) = c
    BY <1>1, <2>1, ChunkStays, Zenon
  <2> HIDE DEF c
  <2>3. (lut'[c] = lut[c] \/ lut'[c] = NoCell) /\ UNCHANGED <<reserve, decodeSlot>>
    BY <2>1, BeginClears, Zenon
  <2>4. CASE phase[r] = "running" /\ idx[r] \in Range(occ)
    <3>1. r \in Range(batch)
      BY <2>1, <2>4, Zenon DEF LengthsInv
    <3>2. lut'[c] = lut[c]
      BY <2>1, <2>4, <3>1, BeginKeepsLut, Zenon
    <3> QED
      BY <1>2, <2>2, <2>3, <3>2, Zenon DEF c
  <2>5. CASE phase[r] # "running" \/ idx[r] \notin Range(occ)
    <3>1. len[r] = PrefillLen[r]
      BY <2>1, <2>5, Zenon DEF LengthsInv
    <3>2. ~OnBoundary(r, j)
      BY <2>1, <3>1 DEF OnBoundary
    <3> QED
      BY <1>2, <2>2, <2>3, <3>2, Zenon DEF c
  <2> QED
    BY <2>4, <2>5, Zenon
<1> QED
  BY <1>3, <1>5, <1>6, BytesKept, Zenon

\* The store of a forming chunk is valid, and goes to its place.
LEMMA StoreIsValid ==
  ASSUME LocalFix, DecodeFits,
         RequestsOK, RowsOK, SlotsInv, EngineTypeOK, LengthsInv, TransferredInv, NEW r \in Reqs, StoreRow(r)
  PROVE  /\ r \in Admitted /\ r \in Live /\ r \in forming /\ len[r] - 1 \in 0 .. len[r] - 1
         /\ PrefillLen[r] <= len[r] - 1 /\ decodeSlot[idx[r]] \in Slots /\ idx[r] \in PoolIdx
         /\ <<"decode", decodeSlot[idx[r]], len[r] - 1 - PrefillLen[r]>> \in Cells
         /\ reserve' = [reserve EXCEPT ![<<"decode", decodeSlot[idx[r]], len[r] - 1 - PrefillLen[r]>>]
                                         = <<r, ChunkAt(kv[r], len[r] - 1)>>]
         /\ lut' = [lut EXCEPT ![ChunkAt(kv[r], len[r] - 1)]
                                 = <<"decode", decodeSlot[idx[r]], len[r] - 1 - PrefillLen[r]>>]
<1> DEFINE w == [idx |-> idx[r], chunk |-> ChunkAt(kv[r], len[r] - 1), req |-> r, n |-> len[r]]
           d == <<"decode", decodeSlot[idx[r]], len[r] - 1 - PrefillLen[r]>>
<1>1. r \in forming /\ StoreDecodeToReserve(w)
  BY Zenon DEF StoreRow, Store
<1>2. r \in Range(batch) /\ PrefillLen[r] < len[r]
  BY <1>1, Zenon DEF LengthsInv
<1>3. \E k \in RowsNow : batch[k] = r
  BY <1>2 DEF RowsOK, RowsNow, Range
<1>4. phase[r] = "running"
  BY <1>3, Zenon DEF SlotsInv
<1>5. r \in Admitted /\ r \in Live /\ idx[r] \in PoolIdx
  BY <1>4, Zenon DEF Admitted, Live, RequestsOK
<1>6. prefillChunks[idx[r]] = PrefillLen[r] /\ decodeSlot[idx[r]] \in Slots
  BY <1>5, Zenon DEF TransferredInv
<1>7. /\ len[r] \in Nat /\ PrefillLen[r] \in Nat /\ len[r] <= MaxChunks /\ MaxChunks \in Nat /\ DecodeChunks \in Nat
      /\ MaxChunks - PrefillLen[r] <= DecodeChunks
  BY ServerAssumption, SizesAssumption DEF RequestsOK, DecodeFits
<1>8. len[r] - 1 - PrefillLen[r] \in Locals
  BY <1>2, <1>7 DEF Locals
<1>9. w.idx = idx[r] /\ w.n = len[r] /\ w.chunk = ChunkAt(kv[r], len[r] - 1) /\ w.req = r
  BY Zenon
<1>10. PrefillLen[r] >= 0 /\ decodeSlot[idx[r]] >= 0
  BY <1>6, <1>7 DEF Slots
<1>11. len[r] - 1 \in 0 .. len[r] - 1 /\ PrefillLen[r] <= len[r] - 1
  BY <1>2, <1>7
<1> HIDE DEF w
<1>12. LocalOf(w) = len[r] - 1 - PrefillLen[r]
  BY <1>6, <1>9, Zenon DEF LocalOf
<1>13. ValidRow(w) /\ DecodeCellOf(w) = d
  BY <1>6, <1>8, <1>9, <1>10, <1>12, Zenon DEF ValidRow, DecodeCellOf
<1>14. d \in Cells
  BY <1>6, <1>8, Zenon DEF Cells, DecodeCells
<1> HIDE DEF d
<1>15. reserve' = [reserve EXCEPT ![d] = <<r, ChunkAt(kv[r], len[r] - 1)>>] /\ lut' = [lut EXCEPT ![ChunkAt(kv[r], len[r] - 1)] = d]
  BY <1>1, <1>9, <1>13, Zenon DEF StoreDecodeToReserve
<1> QED
  BY <1>1, <1>5, <1>6, <1>11, <1>14, <1>15, Zenon DEF d

\* store_decode_to_reserve: the chunk gets its place and its bytes, and nobody
\* else's chunk is in that place.
LEMMA BytesStore ==
  ASSUME LocalFix, DecodeFits, DecodeSlotsApart,
         RequestsOK, RowsOK, SlotsInv, PagesInv, EngineTypeOK, LengthsInv, TransferredInv, BytesInv,
         NEW r \in Reqs, StoreRow(r)
  PROVE  BytesInv'
<1> DEFINE z == ChunkAt(kv[r], len[r] - 1)
           d == <<"decode", decodeSlot[idx[r]], len[r] - 1 - PrefillLen[r]>>
<1>1. /\ r \in Admitted /\ r \in Live /\ r \in forming /\ len[r] - 1 \in 0 .. len[r] - 1
      /\ PrefillLen[r] <= len[r] - 1 /\ decodeSlot[idx[r]] \in Slots /\ idx[r] \in PoolIdx
      /\ d \in Cells /\ reserve' = [reserve EXCEPT ![d] = <<r, z>>] /\ lut' = [lut EXCEPT ![z] = d]
  BY StoreIsValid, Zenon
<1>2. UNCHANGED <<phase, kv, len, idx, decodeSlot>> /\ forming' = forming \ {r}
  BY Zenon DEF StoreRow, Store, schedVars, decodeVars
<1>3. Admitted' = Admitted
  BY <1>2, Zenon DEF Admitted
<1>4. z \in Chunks
  BY <1>1, ChunkPlace, Zenon
<1>5. d[1] = "decode" /\ d[2] = decodeSlot[idx[r]] /\ d[3] = len[r] - 1 - PrefillLen[r]
  BY Zenon
<1>6. IsDecodeCell(d) /\ ~IsRecallCell(d)
  BY <1>5, Zenon DEF IsDecodeCell, IsRecallCell
<1>7. CellOK(r, len[r] - 1, d, decodeSlot[idx[r]])
  BY <1>6, Zenon DEF CellOK
<1>8. lut'[z] = d /\ reserve'[d] = <<r, z>>
  BY <1>1, <1>4, Zenon DEF EngineTypeOK
<1> HIDE DEF d, z
<1>9. ASSUME NEW q \in Admitted, NEW j \in Formed(q), ~(q = r /\ j = len[r] - 1)
      PROVE  LET c == ChunkAt(kv[q], j)
             IN /\ lut'[c] # NoCell => reserve'[lut'[c]] = <<q, c>>
                /\ CellOK(q, j, lut'[c], decodeSlot[idx[q]])
  <2> DEFINE c == ChunkAt(kv[q], j)
  <2>1. /\ q \in Live /\ q \in Reqs /\ idx[q] \in PoolIdx /\ j \in 0 .. len[q] - 1 /\ c \in Chunks
        /\ j \in Nat /\ len[q] \in Nat /\ PrefillLen[q] \in Nat
    BY FormedFacts, Zenon
  <2>2. c # z
    <3>1. ASSUME NEW i \in 0 .. len[r] - 1, ChunkAt(kv[q], j) = ChunkAt(kv[r], i) PROVE q = r /\ j = i
      BY <1>1, <2>1, <3>1, ChunksApart
    <3> QED
      BY <1>1, <1>9, <3>1, Zenon DEF z
  <2>3. (lut[c] # NoCell => reserve[lut[c]] = <<q, c>>) /\ CellOK(q, j, lut[c], decodeSlot[idx[q]])
    BY Zenon DEF BytesInv
  <2> HIDE DEF c
  <2>4. lut'[c] = lut[c] /\ lut[c] \in Cells \cup {NoCell}
    BY <1>1, <2>1, <2>2, Zenon DEF EngineTypeOK
  <2>5. lut[c] # d
    <3> SUFFICES ASSUME lut[c] = d PROVE FALSE
      OBVIOUS
    <3>1. d = <<"decode", decodeSlot[idx[q]], j - PrefillLen[q]>>
      BY <1>6, <2>3, Zenon DEF CellOK
    <3>2. decodeSlot[idx[q]] = decodeSlot[idx[r]] /\ j - PrefillLen[q] = len[r] - 1 - PrefillLen[r]
      BY <1>5, <3>1
    <3>3. idx[q] = idx[r]
      BY <1>1, <2>1, <3>2, Zenon DEF DecodeSlotsApart
    <3>4. q = r
      BY <1>1, <2>1, <3>3, Zenon DEF SlotsInv
    <3>5. j = len[r] - 1
      BY <2>1, <3>2, <3>4
    <3> QED
      BY <1>9, <3>4, <3>5, Zenon
  <2>6. lut[c] # NoCell => reserve'[lut[c]] = reserve[lut[c]]
    BY <1>1, <2>4, <2>5, Zenon DEF EngineTypeOK
  <2> QED
    BY <2>3, <2>4, <2>6, Zenon DEF c
<1>10. ASSUME NEW q \in Admitted, NEW j \in Formed(q)' PROVE j \in Formed(q) \/ (q = r /\ j = len[r] - 1)
  BY <1>2, Zenon DEF Formed
<1>11. ASSUME NEW q \in Admitted', NEW j \in Formed(q)'
       PROVE  LET c == ChunkAt(kv'[q], j)
              IN /\ lut'[c] # NoCell => reserve'[lut'[c]] = <<q, c>>
                 /\ CellOK(q, j, lut'[c], decodeSlot'[idx'[q]])
  <2>1. CASE q = r /\ j = len[r] - 1
    BY <1>2, <1>7, <1>8, <2>1, Zenon DEF z
  <2>2. CASE ~(q = r /\ j = len[r] - 1)
    BY <1>2, <1>3, <1>9, <1>10, <2>2, Zenon
  <2> QED
    BY <2>1, <2>2, Zenon
<1> QED
  BY <1>11, Zenon DEF BytesInv

\* The allocation pass clears the entries of the page it evicts, and no others.
LEMMA AllocLut ==
  ASSUME EngineInv, Alloc
  PROVE  \/ lut' = lut
         \/ \E v \in Pages : rpc = "alloc" /\ p2b[v] # NoBlock /\ p2b'[v] = NoBlock /\ lut' = LutWithout({v})
<1>1. PICK p \in todo : AllocMapped(p) \/ AllocFree(p) \/ AllocNext(p) \/ AllocEvict(p) \/ AllocFail(p)
  BY Zenon DEF Alloc, RecallAlloc
<1>2. CASE AllocMapped(p) \/ AllocFree(p) \/ AllocNext(p) \/ AllocFail(p)
  BY <1>2, Zenon DEF AllocMapped, AllocFree, AllocNext, AllocFail
<1>3. CASE AllocEvict(p)
  <2>1. PICK v \in Mapped : p2b' = [p2b EXCEPT ![v] = NoBlock, ![p] = p2b[v]] /\ lut' = LutWithout({v})
    BY <1>3, Zenon DEF AllocEvict
  <2>2. v \in Pages /\ p2b[v] # NoBlock /\ p2b[p] = NoBlock
    BY <1>3, Zenon DEF Mapped, AllocEvict
  <2>3. v # p
    BY <2>2, Zenon
  <2>4. p2b'[v] = NoBlock
    BY <2>1, <2>2, <2>3, Zenon DEF EngineInv, EngineTypeOK
  <2> QED
    BY <2>1, <2>2, <2>4, Zenon DEF Alloc, RecallAlloc
<1> QED
  BY <1>1, <1>2, <1>3, Zenon

\* Eviction masks chunks, but none that was decoded next to prefill chunks.
LEMMA BytesAlloc ==
  ASSUME RequestsOK, LengthsInv, EngineInv, BytesInv, KeepsBoundaryPages, Alloc,
         UNCHANGED <<phase, kv, len, idx, forming>>
  PROVE  BytesInv'
<1>1. Admitted' = Admitted /\ UNCHANGED <<reserve, decodeSlot>>
  BY Zenon DEF Admitted, Alloc, decodeVars
<1>2. \A r : Formed(r)' = Formed(r)
  BY Zenon DEF Formed
<1>3. CASE lut' = lut
  BY <1>1, <1>3, BytesQuiet, Zenon
<1>4. ASSUME NEW v \in Pages, rpc = "alloc", p2b[v] # NoBlock, p2b'[v] = NoBlock, lut' = LutWithout({v})
      PROVE  BytesInv'
  <2>1. ASSUME NEW r \in Admitted, NEW j \in Formed(r)
        PROVE  \/ lut'[ChunkAt(kv[r], j)] = lut[ChunkAt(kv[r], j)]
               \/ lut'[ChunkAt(kv[r], j)] = NoCell /\ ~OnBoundary(r, j)
    <3> DEFINE c == ChunkAt(kv[r], j)
    <3>1. /\ r \in Live /\ r \in Reqs /\ j \in 0 .. len[r] - 1 /\ c \in Chunks
          /\ j \in Nat /\ len[r] \in Nat /\ PrefillLen[r] \in Nat /\ c[1] = kv[r][j \div PS + 1]
      BY FormedFacts, Zenon
    <3> HIDE DEF c
    <3>2. CASE c[1] # v
      BY <1>4, <3>1, <3>2, Zenon DEF LutWithout, c
    <3>3. CASE c[1] = v
      <4>1. lut'[c] = NoCell
        BY <1>4, <3>1, <3>3, Zenon DEF LutWithout
      <4>2. CASE phase[r] = "running"
        BY <1>4, <3>1, <3>3, <4>1, <4>2, Zenon DEF KeepsBoundaryPages, Running, c
      <4>3. CASE phase[r] # "running"
        <5>1. len[r] = PrefillLen[r]
          BY <3>1, <4>3, Zenon DEF LengthsInv
        <5>2. ~OnBoundary(r, j)
          BY <3>1, <5>1 DEF OnBoundary
        <5> QED
          BY <4>1, <5>2, Zenon DEF c
      <4> QED
        BY <4>2, <4>3, Zenon
    <3> QED
      BY <3>2, <3>3, Zenon
  <2> QED
    BY <1>1, <1>2, <2>1, BytesKept, Zenon
<1> QED
  BY <1>3, <1>4, AllocLut, Zenon

\* The copy puts the mirror row of every kept chunk into its cell.
LEMMA CopyPlaces ==
  ASSUME EngineInv, Copy, NEW c \in keep
  PROVE  reserve'[<<"recall", newBlk[c[1]], c[2]>>] = mirror[c]
<1> DEFINE k == <<"recall", newBlk[c[1]], c[2]>>
           e == CHOOSE x \in keep : k = <<"recall", newBlk[x[1]], x[2]>>
<1>1. k \in Cells /\ \E x \in keep : k = <<"recall", newBlk[x[1]], x[2]>>
  BY KeptCells, Zenon
<1>2. e \in keep /\ k = <<"recall", newBlk[e[1]], e[2]>>
  BY <1>1, Zenon
<1>3. reserve'[k] = mirror[e]
  BY <1>1, Zenon DEF Copy, RecallCopy
<1> HIDE DEF e
<1>4. /\ c[1] \in Pages /\ c[2] \in Offs /\ e[1] \in Pages /\ e[2] \in Offs /\ c \in Chunks /\ e \in Chunks
      /\ newBlk[c[1]] = p2b[c[1]] /\ newBlk[e[1]] = p2b[e[1]] /\ p2b[c[1]] # NoBlock
  BY <1>2, KeptCells, NoBlockIsNone, Zenon
<1>5. <<"recall", p2b[c[1]], c[2]>> = <<"recall", p2b[e[1]], e[2]>>
  BY <1>2, <1>4, Zenon
<1>6. <<c[1], c[2]>> = <<e[1], e[2]>>
  BY <1>4, <1>5, SameCellSameChunk, Zenon
<1>7. c = e
  BY <1>4, <1>6, ChunkParts, Zenon
<1> QED
  BY <1>3, <1>7, Zenon

\* A resident chunk keeps its bytes through the copy, or is copied itself.
LEMMA CopyResident ==
  ASSUME EngineInv, Copy, NEW c \in Chunks, lut[c] # NoCell
  PROVE  reserve'[lut[c]] = reserve[lut[c]] \/ (c \in keep /\ reserve'[lut[c]] = mirror[c])
<1>1. lut[c] \in Cells
  BY Zenon DEF EngineInv, EngineTypeOK
<1>2. CASE reserve'[lut[c]] = reserve[lut[c]]
  BY <1>2, Zenon
<1>3. ASSUME NEW d \in keep, lut[c] = <<"recall", newBlk[d[1]], d[2]>>, reserve'[lut[c]] = mirror[d]
      PROVE  c \in keep /\ reserve'[lut[c]] = mirror[c]
  <2>1. /\ d \in Chunks /\ d[1] \in Pages /\ d[2] \in Offs /\ newBlk[d[1]] = p2b[d[1]]
        /\ IsRecallCell(<<"recall", newBlk[d[1]], d[2]>>)
    BY <1>3, KeptCells, Zenon
  <2>2. IsRecallCell(lut[c])
    BY <1>3, <2>1, Zenon
  <2>3. c[1] \in Pages /\ c[2] \in Offs /\ p2b[c[1]] # NoBlock /\ lut[c] = <<"recall", p2b[c[1]], c[2]>>
    BY <2>2, ResidentIsMapped, ChunkParts, Zenon
  <2>4. <<"recall", p2b[c[1]], c[2]>> = <<"recall", p2b[d[1]], d[2]>>
    BY <1>3, <2>1, <2>3, Zenon
  <2>5. <<c[1], c[2]>> = <<d[1], d[2]>>
    BY <2>1, <2>3, <2>4, SameCellSameChunk, Zenon
  <2>6. c = d
    BY <2>1, <2>5, ChunkParts, Zenon
  <2> QED
    BY <1>3, <2>6, Zenon
<1> QED
  BY <1>1, <1>2, <1>3, CopiedBytes, Zenon DEF EngineInv

\* A recall in flight selects pages with prefill chunks of the batch; what it
\* copies are prefill chunks, and once copied their bytes are in place.
RecallInv ==
  /\ \A p \in sel : \E r \in Range(batch) : \E l \in 1 .. Len(kv[r]) : p = kv[r][l] /\ PS * (l - 1) < PrefillLen[r]
  /\ rpc \notin {"copy", "scatter"} => keep = {}
  /\ \A r \in Admitted : \A j \in Formed(r) :
       LET c == ChunkAt(kv[r], j)
       IN c \in keep => /\ j < PrefillLen[r]
                        /\ rpc = "scatter" => reserve[<<"recall", newBlk[c[1]], c[2]>>] = <<r, c>>

\* The mirror has what the recall copies.
LEMMA KeptBytes ==
  ASSUME RequestsOK, TransferredInv, RecallInv, NEW r \in Admitted, NEW j \in Formed(r), ChunkAt(kv[r], j) \in keep
  PROVE  j < PrefillLen[r] /\ mirror[ChunkAt(kv[r], j)] = <<r, ChunkAt(kv[r], j)>>
<1>1. j < PrefillLen[r]
  BY Zenon DEF RecallInv
<1>2. j \in Nat /\ PrefillLen[r] \in Nat /\ r \in Live
  BY FormedFacts, Zenon
<1>3. j \in 0 .. PrefillLen[r] - 1
  BY <1>1, <1>2
<1>4. phase[r] # "prealloc"
  BY Zenon DEF Admitted
<1> QED
  BY <1>1, <1>2, <1>3, <1>4, Zenon DEF TransferredInv

\* The copy changes no resident chunk's bytes.
LEMMA BytesCopy ==
  ASSUME RequestsOK, EngineInv, TransferredInv, RecallInv, BytesInv, Copy, UNCHANGED <<phase, kv, len, idx, forming>>
  PROVE  BytesInv'
<1>1. Admitted' = Admitted /\ UNCHANGED <<lut, decodeSlot>>
  BY Zenon DEF Admitted, Copy, decodeVars
<1>2. \A r : Formed(r)' = Formed(r)
  BY Zenon DEF Formed
<1>3. ASSUME NEW r \in Admitted, NEW j \in Formed(r), lut[ChunkAt(kv[r], j)] # NoCell
      PROVE  reserve'[lut[ChunkAt(kv[r], j)]] = reserve[lut[ChunkAt(kv[r], j)]]
  <2> DEFINE c == ChunkAt(kv[r], j)
  <2>1. c \in Chunks
    BY FormedFacts, Zenon
  <2>2. reserve[lut[c]] = <<r, c>>
    BY <1>3, Zenon DEF BytesInv
  <2>3. c \in keep => mirror[c] = <<r, c>>
    BY KeptBytes, Zenon
  <2>4. reserve'[lut[c]] = reserve[lut[c]] \/ (c \in keep /\ reserve'[lut[c]] = mirror[c])
    BY <1>3, <2>1, CopyResident, Zenon
  <2> QED
    BY <2>2, <2>3, <2>4, Zenon
<1> QED
  BY <1>1, <1>2, <1>3, BytesKept, Zenon

\* The scatter publishes chunks whose bytes are in place.
LEMMA BytesScatter ==
  ASSUME RequestsOK, EngineInv, TransferredInv, RecallInv, BytesInv, Scatter, UNCHANGED <<phase, kv, len, idx, forming>>
  PROVE  BytesInv'
<1>1. Admitted' = Admitted /\ UNCHANGED <<reserve, decodeSlot>> /\ rpc = "scatter"
  BY Zenon DEF Admitted, Scatter, RecallScatter, decodeVars
<1>2. \A r : Formed(r)' = Formed(r)
  BY Zenon DEF Formed
<1>3. lut' = [c \in Chunks |-> IF c \in keep THEN <<"recall", newBlk[c[1]], c[2]>> ELSE lut[c]]
  BY Zenon DEF Scatter, RecallScatter
<1>4. ASSUME NEW r \in Admitted, NEW j \in Formed(r)
      PROVE  LET c == ChunkAt(kv[r], j)
             IN /\ lut'[c] # NoCell => reserve[lut'[c]] = <<r, c>>
                /\ CellOK(r, j, lut'[c], decodeSlot[idx[r]])
  <2> DEFINE c == ChunkAt(kv[r], j)
             k == <<"recall", newBlk[c[1]], c[2]>>
  <2>1. c \in Chunks /\ j \in Nat /\ PrefillLen[r] \in Nat
    BY FormedFacts, Zenon
  <2>2. (lut[c] # NoCell => reserve[lut[c]] = <<r, c>>) /\ CellOK(r, j, lut[c], decodeSlot[idx[r]])
    BY Zenon DEF BytesInv
  <2>3. c \in keep => j < PrefillLen[r] /\ reserve[k] = <<r, c>>
    BY <1>1, Zenon DEF RecallInv
  <2>4. lut'[c] = IF c \in keep THEN k ELSE lut[c]
    BY <1>3, <2>1, Zenon
  <2>5. ~IsDecodeCell(k)
    BY Zenon DEF IsDecodeCell
  <2> HIDE DEF c, k
  <2>6. CASE c \in keep
    <3>1. ~(PrefillLen[r] <= j)
      BY <2>1, <2>3, <2>6
    <3>2. CellOK(r, j, k, decodeSlot[idx[r]])
      BY <2>5, <3>1, Zenon DEF CellOK, OnBoundary
    <3> QED
      BY <2>3, <2>4, <2>6, <3>2, Zenon DEF c
  <2>7. CASE c \notin keep
    BY <2>2, <2>4, <2>7, Zenon DEF c
  <2> QED
    BY <2>6, <2>7, Zenon
<1>5. ASSUME NEW r \in Admitted', NEW j \in Formed(r)'
      PROVE  LET c == ChunkAt(kv'[r], j)
             IN /\ lut'[c] # NoCell => reserve'[lut'[c]] = <<r, c>>
                /\ CellOK(r, j, lut'[c], decodeSlot'[idx'[r]])
  BY <1>1, <1>2, <1>4, <1>5, Zenon
<1> QED
  BY <1>5, Zenon DEF BytesInv

\* The bytes, through every step.
LEMMA BytesStep ==
  ASSUME ~Async, OwnerRelease \/ NoRowRelease, LocalFix, DecodeFits, DecodeSlotsApart,
         ServerInv, ServerInv', SlotsInv, PagesInv, OwnedInv, EngineInv, LengthsInv, TransferredInv,
         RecallInv, BytesInv, [Next]_vars, [KeepsBoundaryPages]_vars
  PROVE  BytesInv'
<1> USE DEF ServerInv
<1>1. ASSUME NEW r \in Reqs, Prealloc(r) PROVE BytesInv'
  <2>1. UNCHANGED <<forming, lut, reserve, decodeSlot>> /\ phase' = [phase EXCEPT ![r] = "prealloc"]
    BY <1>1, Zenon DEF Prealloc, engineVars
  <2>2. \A q \in Live : kv'[q] = kv[q] /\ len'[q] = len[q] /\ idx'[q] = idx[q]
    BY <1>1, PagesPrealloc, Zenon
  <2>3. \A q \in Admitted' : q \in Admitted /\ q \in Live
    BY <1>1, <2>1, Zenon DEF Prealloc, Admitted, Live, RequestsOK
  <2>4. ASSUME NEW q \in Admitted' PROVE Formed(q)' = Formed(q) /\ kv'[q] = kv[q] /\ idx'[q] = idx[q]
    BY <2>1, <2>2, <2>3, Zenon DEF Formed
  <2> QED
    BY <2>1, <2>3, <2>4, BytesKept, Zenon
<1>2. ASSUME NEW r \in Reqs, Commit(r) PROVE BytesInv'
  BY <1>2, BytesCommit, Zenon DEF EngineInv
<1>3. ASSUME NEW r \in Reqs, StoreRow(r) PROVE BytesInv'
  BY <1>3, BytesStore, Zenon DEF EngineInv
<1>4. ASSUME NEW F \in SUBSET Range(batch), BeginSame(F) \/ BeginChanged(F) PROVE BytesInv'
  BY <1>4, BytesBegin, Zenon DEF EngineInv
<1>5. ASSUME NEW r \in Reqs, TransferLands(r) \/ Merge(r) PROVE BytesInv'
  <2>1. UNCHANGED <<kv, len, idx, forming, lut, reserve, decodeSlot>>
    BY <1>5, Zenon DEF TransferLands, Land, Merge, engineVars, decodeVars
  <2>2. Admitted' \subseteq Admitted
    BY <1>5, Zenon DEF TransferLands, Merge, Admitted, RequestsOK
  <2> QED
    BY <2>1, <2>2, BytesQuiet, Zenon
<1>6. ASSUME NEW F \in SUBSET Range(batch), Result(F) PROVE BytesInv'
  <2>1. UNCHANGED <<kv, len, idx, forming, lut, reserve, decodeSlot>>
    BY <1>6, Zenon DEF Result, engineVars
  <2>2. Admitted' \subseteq Admitted
    BY <1>6, Zenon DEF Result, Admitted
  <2> QED
    BY <2>1, <2>2, BytesQuiet, Zenon
<1>7. ASSUME UNCHANGED <<schedVars, forming, lut, reserve, decodeSlot>> PROVE BytesInv'
  <2>1. UNCHANGED <<phase, kv, len, idx>>
    BY <1>7, Zenon DEF schedVars
  <2>2. Admitted' = Admitted
    BY <2>1, Zenon DEF Admitted
  <2> QED
    BY <1>7, <2>1, <2>2, BytesQuiet, Zenon
<1>8. ASSUME Remap \/ ReadDone \/ EndQuiet \/ EndDue \/ EndInline \/ Publish \/ RebuildMeta \/ UNCHANGED vars PROVE BytesInv'
  <2>1. UNCHANGED <<schedVars, forming, lut, reserve, decodeSlot>>
    BY <1>8, Zenon DEF Remap, ReadDone, EndQuiet, EndDue, EndInline, Publish, RebuildMeta, vars, engineVars
  <2> QED
    BY <1>7, <2>1, Zenon
<1>9. ASSUME Select \/ SidebandFails PROVE BytesInv'
  <2>1. UNCHANGED <<schedVars, forming, lut, reserve, decodeSlot>>
    BY <1>9, Zenon DEF Select, Start, SidebandFails, Raised, decodeVars
  <2> QED
    BY <1>7, <2>1, Zenon
<1>10. ASSUME Recall PROVE BytesInv'
  <2>1. UNCHANGED <<schedVars, forming>>
    BY <1>10, Zenon DEF Recall
  <2>2. UNCHANGED <<phase, kv, len, idx, forming>>
    BY <2>1, Zenon DEF schedVars
  <2>3. CASE Alloc
    <3>1. CASE UNCHANGED vars
      BY <1>8, <3>1, Zenon
    <3>2. CASE KeepsBoundaryPages
      BY <2>2, <2>3, <3>2, BytesAlloc, Zenon
    <3> QED
      BY <3>1, <3>2, Zenon
  <2>4. CASE Guard
    <3>1. UNCHANGED <<lut, reserve, decodeSlot>>
      BY <2>4, Zenon DEF Guard, decodeVars
    <3> QED
      BY <1>7, <2>1, <3>1, Zenon
  <2>5. CASE Copy
    BY <2>2, <2>5, BytesCopy, Zenon
  <2>6. CASE Scatter
    BY <2>2, <2>6, BytesScatter, Zenon
  <2> QED
    BY <1>10, <2>3, <2>4, <2>5, <2>6, Zenon DEF Recall
<1> QED
  BY <1>1, <1>2, <1>3, <1>4, <1>5, <1>6, <1>8, <1>9, <1>10, Zenon DEF Next, Scheduler, Sideband, Idle

-----------------------------------------------------------------------------
(* The recall.                                                             *)

\* The recall's variables belong to the thread.
LEMMA RecallSteps ==
  ASSUME [Next]_vars, ~Sideband
  PROVE  UNCHANGED recallVars
<1>1. ASSUME NEW r \in Reqs, Prealloc(r) \/ TransferLands(r) \/ Commit(r) \/ Merge(r) \/ StoreRow(r)
      PROVE  UNCHANGED recallVars
  BY <1>1, Zenon DEF Prealloc, TransferLands, Land, Commit, Admit, Merge, StoreRow, Store, engineVars, recallVars
<1>2. ASSUME NEW F, BeginSame(F) \/ BeginChanged(F) \/ Result(F) PROVE UNCHANGED recallVars
  BY <1>2, Zenon DEF BeginSame, BeginChanged, ReleaseAtBegin, Release, ReleaseOwned, Result, engineVars, recallVars
<1>3. ASSUME Remap \/ ReadDone \/ EndQuiet \/ EndDue \/ EndInline \/ UNCHANGED vars PROVE UNCHANGED recallVars
  BY <1>3, Zenon DEF Remap, ReadDone, EndQuiet, EndDue, EndInline, vars, engineVars, recallVars
<1> QED
  BY <1>1, <1>2, <1>3, Zenon DEF Next, Scheduler, Idle

\* A call that is not in flight selects and keeps nothing.
LEMMA RecallIdle ==
  ASSUME sel' = {}, keep' = {}
  PROVE  RecallInv'
BY Zenon DEF RecallInv

\* Steps around a recall that leave the batch and the recall alone.
LEMMA RecallKept ==
  ASSUME RecallInv, UNCHANGED <<kv, len, forming, batch, reserve, rpc, sel, newBlk, keep>>, Admitted' = Admitted
  PROVE  RecallInv'
<1>1. \A r : Formed(r)' = Formed(r)
  BY Zenon DEF Formed
<1> QED
  BY <1>1, Zenon DEF RecallInv

\* The selection is pages of the batch with prefill chunks (_scatter_logical_keep).
LEMMA RecallSelect ==
  ASSUME RequestsOK, RowsOK, SnapOK, SlotsInv, OneRecall, EngineInv, TransferredInv, PlacesInv, RecallInv, Select
  PROVE  RecallInv'
<1>1. rpc = "idle" /\ sel = {} /\ keep = {} /\ batch' = batch /\ kv' = kv
  BY Zenon DEF Select, OneRecall, EngineInv, RecallOwnsItsBlocks, RecallInv, schedVars
<1>2. PICK L \in [snap -> SUBSET (1 .. PagesFor(MaxChunks))] :
        /\ \A s \in snap : L[s] \in Selections(s)
        /\ LET own == [i \in PoolIdx |-> UNION {RecalledPages(s, L[s]) : s \in {s \in snap : s.idx = i}}]
           IN RecallMiss(UNION {own[i] : i \in PoolIdx})
  BY Zenon DEF Select, Start
<1> DEFINE own == [i \in PoolIdx |-> UNION {RecalledPages(s, L[s]) : s \in {s \in snap : s.idx = i}}]
<1>3. keep' = {} /\ (sel' = {} \/ (rpc' = "alloc" /\ sel' = UNION {own[i] : i \in PoolIdx}))
  BY <1>1, <1>2, Zenon DEF RecallMiss, recallVars
<1>4. ASSUME NEW p \in UNION {own[i] : i \in PoolIdx}
      PROVE  \E r \in Range(batch) : \E l \in 1 .. Len(kv[r]) : p = kv[r][l] /\ PS * (l - 1) < PrefillLen[r]
  <2>0. PICK i \in PoolIdx : p \in own[i]
    BY <1>4, Zenon
  <2>1. PICK s \in snap : p \in RecalledPages(s, L[s])
    <3>1. own[i] = UNION {RecalledPages(s, L[s]) : s \in {s \in snap : s.idx = i}}
      BY Zenon
    <3> HIDE DEF own
    <3> QED
      BY <2>0, <3>1, Zenon
  <2>2. PICK l \in L[s] : p = s.pages[l] /\ (prefillChunks[s.idx] < 0 \/ (l - 1) * PS < prefillChunks[s.idx])
    BY <2>1, Zenon DEF RecalledPages
  <2> DEFINE r == batch[s.row]
  <2>3. s.row \in RowsNow /\ s.idx = idx[r] /\ s.pages = kv[r]
    BY Zenon DEF PlacesInv, SnapsNow
  <2>4. r \in Range(batch) /\ r \in Reqs
    BY <2>3 DEF RowsOK, RowsNow, Range
  <2>5. phase[r] = "running"
    BY <2>3, Zenon DEF SlotsInv
  <2> HIDE DEF r
  <2>6. prefillChunks[idx[r]] = PrefillLen[r]
    BY <2>4, <2>5, Zenon DEF TransferredInv, Admitted
  <2>7. L[s] \subseteq 1 .. PagesFor(s.n)
    BY <1>2, Zenon DEF Selections
  <2>8. s.n \in Nat /\ Len(s.pages) \in Nat /\ s.n <= PS * Len(s.pages)
    BY DEF SnapOK
  <2>9. PagesFor(s.n) \in Nat /\ PagesFor(s.n) <= Len(s.pages)
    BY <2>8, PagesForFacts, Zenon
  <2>10. l \in 1 .. PagesFor(s.n)
    BY <2>7, Zenon
  <2>11. l \in 1 .. Len(kv[r]) /\ l \in Int
    BY <2>3, <2>8, <2>9, <2>10
  <2>12. PrefillLen[r] \in Nat /\ PrefillLen[r] >= 1
    BY <2>4, ServerAssumption
  <2>13. prefillChunks[s.idx] = PrefillLen[r]
    BY <2>3, <2>6, Zenon
  <2>14. PS * (l - 1) < PrefillLen[r]
    BY <2>2, <2>11, <2>12, <2>13, SizesAssumption
  <2> QED
    BY <2>2, <2>3, <2>4, <2>11, <2>14, Zenon
<1> HIDE DEF own
<1>5. ASSUME NEW p \in sel'
      PROVE  \E r \in Range(batch) : \E l \in 1 .. Len(kv[r]) : p = kv[r][l] /\ PS * (l - 1) < PrefillLen[r]
  BY <1>3, <1>4, Zenon
<1> QED
  BY <1>1, <1>3, <1>5, Zenon DEF RecallInv

\* The guard keeps prefill chunks only: the decoded chunks of a selected page
\* are in the decode region.
LEMMA RecallGuards ==
  ASSUME RequestsOK, RowsOK, SlotsInv, PagesInv, EngineInv, RecallInv, BytesInv, Guard,
         UNCHANGED <<phase, kv, len, idx, forming, batch>>
  PROVE  RecallInv'
<1>1. CASE RecallReturns
  BY <1>1, RecallIdle, Zenon DEF RecallReturns
<1>2. CASE ~RecallReturns
  <2>1. /\ rpc' = "copy" /\ sel' = sel /\ newBlk' = newBlk
        /\ keep' = {c \in Chunks : newBlk[c[1]] # NoBlock /\ ~IsDecodeCell(lut[c])}
    BY <1>2, Zenon DEF Guard, RecallGuard
  <2>2. Admitted' = Admitted /\ \A r : Formed(r)' = Formed(r)
    BY Zenon DEF Admitted, Formed
  <2>3. ASSUME NEW r \in Admitted, NEW j \in Formed(r), ChunkAt(kv[r], j) \in keep' PROVE j < PrefillLen[r]
    <3> DEFINE c == ChunkAt(kv[r], j)
               a == j \div PS + 1
    <3>1. /\ r \in Live /\ r \in Reqs /\ j \in Nat /\ PrefillLen[r] \in Nat
          /\ c[1] = kv[r][a] /\ kv[r][a] \in Range(kv[r]) /\ kv[r][a] \in Pages /\ a \in 1 .. Len(kv[r])
      BY FormedFacts, Zenon
    <3>2. newBlk[c[1]] # NoBlock /\ ~IsDecodeCell(lut[c])
      BY <2>1, <2>3, Zenon
    <3>3. CellOK(r, j, lut[c], decodeSlot[idx[r]])
      BY Zenon DEF BytesInv
    <3>4. ~OnBoundary(r, j)
      BY <3>2, <3>3, Zenon DEF CellOK
    <3> HIDE DEF c, a
    <3>5. c[1] \in sel
      BY <3>1, <3>2, Zenon DEF EngineInv, RecallOwnsItsBlocks
    <3>6. PICK q \in Range(batch) : \E l \in 1 .. Len(kv[q]) : c[1] = kv[q][l] /\ PS * (l - 1) < PrefillLen[q]
      BY <3>5, Zenon DEF RecallInv
    <3>7. PICK l \in 1 .. Len(kv[q]) : c[1] = kv[q][l] /\ PS * (l - 1) < PrefillLen[q]
      BY <3>6, Zenon
    <3>8. q \in Live /\ q \in Reqs
      BY InBatch, Zenon DEF Live
    <3>9. kv[q][l] \in Range(kv[q])
      BY <3>7, <3>8 DEF RequestsOK, Range
    <3>10. r = q
      BY <3>1, <3>7, <3>8, <3>9, Zenon DEF PagesInv
    <3>11. a = l
      BY <3>1, <3>7, <3>10, Zenon DEF PagesInv
    <3>12. PS * (a - 1) < PrefillLen[r]
      BY <3>7, <3>10, <3>11, Zenon
    <3>13. a - 1 = j \div PS
      BY <3>1, SizesAssumption DEF a
    <3>14. PS * (j \div PS) < PrefillLen[r]
      BY <3>12, <3>13, Zenon
    <3>15. ~(PrefillLen[r] <= j)
      BY <3>4, <3>14, Zenon DEF OnBoundary
    <3> QED
      BY <3>1, <3>15
  <2> QED
    BY <2>1, <2>2, <2>3, Zenon DEF RecallInv
<1> QED
  BY <1>1, <1>2, Zenon

\* After the copy the kept chunks' cells have their bytes.
LEMMA RecallCopies ==
  ASSUME RequestsOK, EngineInv, TransferredInv, RecallInv, Copy, UNCHANGED <<phase, kv, len, idx, forming, batch>>
  PROVE  RecallInv'
<1>1. /\ rpc' = "scatter" /\ UNCHANGED <<sel, newBlk, keep>>
  BY Zenon DEF Copy, RecallCopy
<1>2. Admitted' = Admitted /\ \A r : Formed(r)' = Formed(r)
  BY Zenon DEF Admitted, Formed
<1>3. ASSUME NEW r \in Admitted, NEW j \in Formed(r), ChunkAt(kv[r], j) \in keep
      PROVE  LET c == ChunkAt(kv[r], j)
             IN j < PrefillLen[r] /\ reserve'[<<"recall", newBlk[c[1]], c[2]>>] = <<r, c>>
  BY <1>3, KeptBytes, CopyPlaces, Zenon
<1> QED
  BY <1>1, <1>2, <1>3, Zenon DEF RecallInv

\* The recall, through every step.
LEMMA RecallStep ==
  ASSUME ~Async, ServerInv, EngineInv, EngineInv', ScheduleInv, SlotsInv, PagesInv, TransferredInv, PlacesInv,
         BytesInv, RecallInv, [Next]_vars
  PROVE  RecallInv'
<1> USE DEF ServerInv
<1>1. CASE tpc = "none"
  <2>1. rpc = "idle" /\ sel = {} /\ keep = {}
    BY <1>1, Zenon DEF OneRecall, EngineInv, RecallOwnsItsBlocks, RecallInv
  <2>2. ~Sideband
    BY <1>1, Zenon DEF Sideband, Select, Recall, Publish, RebuildMeta, SidebandFails
  <2>3. UNCHANGED recallVars
    BY <2>2, RecallSteps, Zenon
  <2> QED
    BY <2>1, <2>3, RecallIdle, Zenon DEF recallVars
<1>2. CASE tpc # "none"
  <2>1. ASSUME NEW r \in Reqs, TransferLands(r) PROVE RecallInv'
    <3>1. UNCHANGED <<kv, len, forming, batch, reserve, rpc, sel, newBlk, keep>>
      BY <2>1, Zenon DEF TransferLands, Land, recallVars
    <3>2. Admitted' = Admitted
      BY <2>1, Zenon DEF TransferLands, Admitted, RequestsOK
    <3> QED
      BY <3>1, <3>2, RecallKept, Zenon
  <2>2. ASSUME UNCHANGED engineVars, UNCHANGED <<schedVars, forming>> PROVE RecallInv'
    <3>1. UNCHANGED <<phase, kv, len, forming, batch, reserve, rpc, sel, newBlk, keep>>
      BY <2>2, Zenon DEF engineVars, schedVars
    <3>2. Admitted' = Admitted
      BY <3>1, Zenon DEF Admitted
    <3> QED
      BY <3>1, <3>2, RecallKept, Zenon
  <2>3. CASE UNCHANGED vars
    BY <2>2, <2>3, Zenon DEF vars
  <2>4. CASE Publish \/ RebuildMeta
    BY <2>2, <2>4, Zenon DEF Publish, RebuildMeta
  <2>5. CASE Select
    BY <2>5, RecallSelect, Zenon
  <2>6. CASE SidebandFails
    BY <2>6, RecallIdle, Zenon DEF SidebandFails, Raised, RecallRaised, RecallReturns
  <2>7. CASE Recall
    <3>1. UNCHANGED <<phase, kv, len, idx, forming, batch>>
      BY <2>7, Zenon DEF Recall, schedVars
    <3>2. CASE Alloc
      <4>1. rpc = "alloc" /\ sel' = sel /\ keep' = keep
        BY <3>2, Zenon DEF Alloc, RecallAlloc, AllocMapped, AllocFree, AllocNext, AllocEvict, AllocFail, Assign
      <4>2. keep' = {}
        BY <4>1, Zenon DEF RecallInv
      <4> QED
        BY <3>1, <4>1, <4>2, Zenon DEF RecallInv
    <3>3. CASE Guard
      BY <3>1, <3>3, RecallGuards, Zenon
    <3>4. CASE Copy
      BY <3>1, <3>4, RecallCopies, Zenon
    <3>5. CASE Scatter
      BY <3>5, RecallIdle, Zenon DEF Scatter, RecallScatter, RecallReturns
    <3> QED
      BY <2>7, <3>2, <3>3, <3>4, <3>5, Zenon DEF Recall
  <2> QED
    BY <1>2, <2>1, <2>3, <2>4, <2>5, <2>6, <2>7, InlineSteps, Zenon DEF Sideband
<1> QED
  BY <1>1, <1>2, Zenon

-----------------------------------------------------------------------------
(* What attention reads.                                                   *)

\* The invariant of the bytes, with all it rests on.
ReadsInv == LengthsInv /\ TransferredInv /\ PlacesInv /\ RecallInv /\ BytesInv

\* Nothing is admitted, read or recalled when the server starts.
LEMMA ReadsInit == ServerInit => ReadsInv
<1> SUFFICES ASSUME ServerInit PROVE ReadsInv
  OBVIOUS
<1>1. Live = {} /\ Admitted = {} /\ snap = {} /\ mpc = "queue" /\ forming = {} /\ sel = {} /\ keep = {}
  BY Zenon DEF ServerInit, EngineInit, Live, Admitted
<1>2. \A r \in Reqs : phase[r] # "running"
  BY Zenon DEF ServerInit
<1> QED
  BY <1>1, <1>2, Zenon DEF ReadsInv, LengthsInv, TransferredInv, PlacesInv, SnapsNow, RecallInv, BytesInv

\* The invariant is about what a forward reads.
LEMMA ReadsAreOwn ==
  ASSUME RequestsOK, RowsOK, SlotsInv, ReadsInv
  PROVE  ReadsOwnKV /\ DecodedChunksStayInDecodeRegion
<1>1. ASSUME mpc = "read", NEW e \in reads PROVE reserve[e.cell] = <<batch[e.row], e.chunk>>
  <2> DEFINE r == batch[e.row]
  <2>1. e.row \in RowsNow /\ e.chunk \in ChunksOf(r) /\ e.cell = lut[e.chunk] /\ e.cell # NoCell
    BY <1>1, Zenon DEF ReadsInv, PlacesInv
  <2>2. r \in Reqs /\ phase[r] = "running"
    <3>1. r \in Reqs
      BY <2>1 DEF RowsOK, RowsNow
    <3> QED
      BY <2>1, <3>1, Zenon DEF SlotsInv
  <2> HIDE DEF r
  <2>3. r \in Admitted /\ forming = {}
    BY <1>1, <2>2, Zenon DEF Admitted, ReadsInv, LengthsInv
  <2>4. PICK j \in 0 .. len[r] - 1 : e.chunk = ChunkAt(kv[r], j)
    BY <2>1, Zenon DEF ChunksOf
  <2>5. j \in Formed(r)
    BY <2>3, Zenon DEF Formed
  <2>6. lut[ChunkAt(kv[r], j)] # NoCell => reserve[lut[ChunkAt(kv[r], j)]] = <<r, ChunkAt(kv[r], j)>>
    BY <2>3, <2>5, Zenon DEF ReadsInv, BytesInv
  <2> QED
    BY <2>1, <2>4, <2>6, Zenon DEF r
<1>2. ASSUME NEW r \in Reqs, Running(r), NEW j \in PrefillLen[r] .. len[r] - 1, r \notin forming
      PROVE  ~IsRecallCell(lut[ChunkAt(kv[r], j)])
  <2>1. r \in Admitted
    BY <1>2, Zenon DEF Running, Admitted
  <2>2. PrefillLen[r] \in Nat /\ len[r] \in Nat
    BY ServerAssumption DEF RequestsOK
  <2>3. j \in 0 .. len[r] - 1 /\ PrefillLen[r] <= j
    BY <2>2
  <2>4. j \in Formed(r)
    BY <1>2, <2>3, Zenon DEF Formed
  <2>5. CellOK(r, j, lut[ChunkAt(kv[r], j)], decodeSlot[idx[r]])
    BY <2>1, <2>4, Zenon DEF ReadsInv, BytesInv
  <2> QED
    BY <2>3, <2>5, Zenon DEF CellOK
<1> QED
  BY <1>1, <1>2, Zenon DEF ReadsOwnKV, DecodedChunksStayInDecodeRegion

\* With the side-band inside on_forward_end, releases by owner or none by rows,
\* the fixed local index and a decode region that holds what a request may
\* decode, every cell a forward reads has the bytes the row's request produced
\* for that chunk, and no recall redirects a decoded chunk, for as long as no
\* pool index is handed out again before its row is reset, none shares its
\* decode slot, and no eviction takes a page decoded into next to prefill chunks.
THEOREM ForwardsReadTheirOwn ==
  ASSUME ~Async, OwnerRelease \/ NoRowRelease, LocalFix, DecodeFits, IsInjective(FirstSlots)
  PROVE  Spec /\ [][FreshIndex]_vars /\ [][KeepsBoundaryPages]_vars /\ []DecodeSlotsApart
         => [](ReadsOwnKV /\ DecodedChunksStayInDecodeRegion)
<1> DEFINE Known == ServerInv /\ SlotsInv /\ PagesInv /\ OwnedInv /\ EngineInv /\ ScheduleInv
                    /\ PublishedRowIsOccupants /\ DecodeSlotsApart
<1>1. ServerInit => ReadsInv /\ SnapRows
  BY ReadsInit, Zenon DEF ServerInit, SnapRows
<1>2. Known /\ Known' /\ ReadsInv /\ SnapRows /\ [Next]_vars /\ [KeepsBoundaryPages]_vars => ReadsInv' /\ SnapRows'
  <2> SUFFICES ASSUME Known, Known', ReadsInv, SnapRows, [Next]_vars, [KeepsBoundaryPages]_vars
               PROVE  ReadsInv' /\ SnapRows'
    OBVIOUS
  <2>1. RequestsOK /\ RequestsOK' /\ RowsOK /\ EngineTypeOK
    BY Zenon DEF ServerInv, EngineInv
  <2>2. LengthsInv'
    BY <2>1, LengthsStep, Zenon DEF ReadsInv
  <2>3. TransferredInv'
    BY <2>1, TransferredStep, Zenon DEF ReadsInv
  <2>4. PlacesInv'
    BY <2>1, PlacesStep, Zenon DEF ReadsInv
  <2>5. RecallInv'
    BY RecallStep, Zenon DEF ReadsInv
  <2>6. BytesInv'
    BY BytesStep, Zenon DEF ReadsInv
  <2>7. SnapRows'
    BY SnapRowsStep, Zenon
  <2> QED
    BY <2>2, <2>3, <2>4, <2>5, <2>6, <2>7, Zenon DEF ReadsInv
<1>3. Known /\ ReadsInv => ReadsOwnKV /\ DecodedChunksStayInDecodeRegion
  BY ReadsAreOwn, Zenon DEF ServerInv
<1>4. Spec => []SlotsInv
  BY SlotsInvariant, Zenon
<1>5. Spec /\ [][FreshIndex]_vars => []OwnedInv
  BY OwnersInvariant, Zenon
<1>6. Spec /\ [][FreshIndex]_vars => []PublishedRowIsOccupants
  BY RowsDescribeOccupants, Zenon
<1>7. []ServerInv /\ []SlotsInv /\ []PagesInv /\ []OwnedInv /\ []EngineInv /\ []ScheduleInv
      /\ []PublishedRowIsOccupants /\ []DecodeSlotsApart => []Known
  BY PTL
<1> HIDE DEF Known
<1> QED
  BY <1>1, <1>2, <1>3, <1>4, <1>5, <1>6, <1>7, ServerInvariant, PagesInvariant, ServerEngineInvariant,
     ScheduleInvariant, PTL DEF Spec
===============================================================================
