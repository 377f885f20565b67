--------------------------- MODULE DecodeServerFill ---------------------------
(***************************************************************************)
(* What a cycle inside on_forward_end publishes: the chunks of a page are  *)
(* all in the lut when the row that lists them becomes visible to kernels, *)
(* for any number of requests, rows, pages and blocks.                     *)
(***************************************************************************)
EXTENDS DecodeServerRows

\* Of the prefill chunks a page has, all are resident or none is: the miss set
\* of a recall looks at the first one only.
WholePages ==
  \A r \in Admitted : \A i, j \in 0 .. PrefillLen[r] - 1 :
    i \div PS = j \div PS /\ lut[ChunkAt(kv[r], i)] # NoCell => lut[ChunkAt(kv[r], j)] # NoCell

\* Steps that clear the entries of whole pages, or none, and admit only
\* requests whose pages they clear.
LEMMA WholeCleared ==
  ASSUME RequestsOK, LengthsInv, EngineTypeOK, WholePages,
         NEW P, lut' = lut \/ lut' = LutWithout(P),
         \A r \in Admitted' :
           \/ r \in Admitted /\ \A j \in 0 .. PrefillLen[r] - 1 : ChunkAt(kv'[r], j) = ChunkAt(kv[r], j)
           \/ \A j \in 0 .. PrefillLen[r] - 1 : lut'[ChunkAt(kv'[r], j)] = NoCell
  PROVE  WholePages'
<1>1. ASSUME NEW r \in Admitted', NEW i \in 0 .. PrefillLen[r] - 1, NEW j \in 0 .. PrefillLen[r] - 1,
             i \div PS = j \div PS, lut'[ChunkAt(kv'[r], i)] # NoCell
      PROVE  lut'[ChunkAt(kv'[r], j)] # NoCell
  <2>1. r \in Admitted /\ ChunkAt(kv'[r], i) = ChunkAt(kv[r], i) /\ ChunkAt(kv'[r], j) = ChunkAt(kv[r], j)
    BY <1>1, Zenon
  <2>2. r \in Live /\ r \in Reqs
    BY <2>1, Zenon DEF Admitted, Live
  <2>3. i \in 0 .. len[r] - 1 /\ j \in 0 .. len[r] - 1
    BY <2>2, PrefillChunk, Zenon
  <2> DEFINE a == ChunkAt(kv[r], i)
             c == ChunkAt(kv[r], j)
  <2>4. a \in Chunks /\ c \in Chunks /\ a[1] = c[1]
    BY <1>1, <2>2, <2>3, ChunkPlace, Zenon
  <2>5. lut[a] # NoCell => lut[c] # NoCell
    BY <1>1, <2>1, Zenon DEF WholePages
  <2> HIDE DEF a, c
  <2>6. lut'[a] # NoCell
    BY <1>1, <2>1, Zenon DEF a
  <2>7. CASE lut' = lut
    BY <2>1, <2>5, <2>6, <2>7, Zenon DEF c
  <2>8. CASE lut' = LutWithout(P)
    <3>1. a[1] \notin P /\ lut'[a] = lut[a]
      BY <2>4, <2>6, <2>8, Zenon DEF LutWithout
    <3>2. lut'[c] = lut[c]
      BY <2>4, <2>8, <3>1, Zenon DEF LutWithout
    <3> QED
      BY <2>1, <2>5, <2>6, <3>1, <3>2, Zenon DEF c
  <2> QED
    BY <2>7, <2>8, Zenon
<1> QED
  BY <1>1, Zenon DEF WholePages

\* A decode store makes a chunk resident that is not a prefill chunk.
LEMMA WholeStore ==
  ASSUME RequestsOK, RowsOK, SlotsInv, PagesInv, LengthsInv, EngineTypeOK, WholePages,
         NEW r \in Reqs, StoreRow(r)
  PROVE  WholePages'
<1> DEFINE w == [idx |-> idx[r], chunk |-> ChunkAt(kv[r], len[r] - 1), req |-> r, n |-> len[r]]
           z == ChunkAt(kv[r], len[r] - 1)
<1>1. r \in forming /\ StoreDecodeToReserve(w) /\ UNCHANGED <<phase, kv>>
  BY Zenon DEF StoreRow, Store, schedVars
<1>2. Admitted' = Admitted
  BY <1>1, Zenon DEF Admitted
<1>3. r \in Live /\ PrefillLen[r] < len[r]
  BY <1>1, InBatch, Zenon DEF LengthsInv
<1>4. PrefillLen[r] \in Nat /\ len[r] \in Nat
  BY ServerAssumption DEF RequestsOK
<1>5. len[r] - 1 \in 0 .. len[r] - 1 /\ PrefillLen[r] <= len[r] - 1
  BY <1>3, <1>4
<1>6. w.chunk = z
  BY Zenon
<1> HIDE DEF w
<1>7. \A c \in Chunks : c # z => lut'[c] = lut[c]
  BY <1>1, <1>6, Zenon DEF StoreDecodeToReserve, EngineTypeOK
<1>8. ASSUME NEW q \in Admitted, NEW j \in 0 .. PrefillLen[q] - 1
      PROVE  lut'[ChunkAt(kv[q], j)] = lut[ChunkAt(kv[q], j)]
  <2>1. q \in Live /\ q \in Reqs
    BY Zenon DEF Admitted, Live
  <2>2. j \in 0 .. len[q] - 1
    BY <2>1, PrefillChunk, Zenon
  <2>3. ChunkAt(kv[q], j) \in Chunks
    BY <2>1, <2>2, ChunkPlace, Zenon
  <2>4. ChunkAt(kv[q], j) # z
    <3>1. ASSUME NEW i \in 0 .. len[r] - 1, ChunkAt(kv[q], j) = ChunkAt(kv[r], i) PROVE q = r /\ j = i
      BY <1>3, <2>1, <2>2, <3>1, ChunksApart
    <3>2. ~(q = r /\ j = len[r] - 1)
      BY <1>4, <1>5
    <3> QED
      BY <1>5, <3>1, <3>2, Zenon
  <2> QED
    BY <1>7, <2>3, <2>4, Zenon
<1> QED
  BY <1>1, <1>2, <1>8, Zenon DEF WholePages

\* A recall on its way to make its selection resident: each selected page has
\* its first chunk resident, or is to be given a block, or has been; and of a
\* page with a new block every chunk is copied or already resident.
RecallFills ==
  /\ rpc = "alloc" => \A p \in sel : p \in todo \/ newBlk[p] # NoBlock \/ lut[<<p, 0>>] # NoCell
  /\ rpc \in {"copy", "scatter"} =>
       /\ \A p \in sel : newBlk[p] # NoBlock \/ lut[<<p, 0>>] # NoCell
       /\ \A c \in Chunks : newBlk[c[1]] # NoBlock => c \in keep \/ lut[c] # NoCell

\* An allocation turn, whatever gives the page its block: LUT_TRUTH plans a
\* page that has one too, and no selected page is evicted.
LEMMA FillsAlloc ==
  ASSUME LutTruth, EngineInv, RecallFills, Alloc
  PROVE  RecallFills' /\ rpc' \in {"alloc", "failed"} /\ sel' = sel
<1>1. PICK p \in todo : AllocMapped(p) \/ AllocFree(p) \/ AllocNext(p) \/ AllocEvict(p) \/ AllocFail(p)
  BY Zenon DEF Alloc, RecallAlloc
<1>2. rpc = "alloc"
  BY Zenon DEF Alloc, RecallAlloc
<1>3. p \in Pages /\ todo \subseteq Pages /\ sel \subseteq Pages /\ newBlk \in [Pages -> Blocks \cup {NoBlock}]
      /\ p2b \in [Pages -> Blocks \cup {NoBlock}]
  BY Zenon DEF EngineInv, EngineTypeOK
<1>4. CASE AllocFail(p)
  BY <1>4, Zenon DEF AllocFail, RecallFills
<1>5. ASSUME NEW b, b # NoBlock, Assign(p, b), \A q \in sel : lut'[<<q, 0>>] = lut[<<q, 0>>]
      PROVE  RecallFills' /\ rpc' \in {"alloc", "failed"} /\ sel' = sel
  <2>1. rpc' = rpc /\ sel' = sel /\ todo' = todo \ {p} /\ newBlk' = [newBlk EXCEPT ![p] = b]
    BY <1>5, Zenon DEF Assign
  <2>2. ASSUME NEW q \in sel PROVE q \in todo' \/ newBlk'[q] # NoBlock \/ lut'[<<q, 0>>] # NoCell
    <3>1. q \in todo \/ newBlk[q] # NoBlock \/ lut[<<q, 0>>] # NoCell
      BY <1>2, Zenon DEF RecallFills
    <3>2. newBlk'[q] = IF q = p THEN b ELSE newBlk[q]
      BY <1>3, <2>1, Zenon
    <3> QED
      BY <1>5, <2>1, <3>1, <3>2, Zenon
  <2> QED
    BY <1>2, <2>1, <2>2, Zenon DEF RecallFills
<1>6. CASE AllocMapped(p)
  BY <1>5, <1>6, Zenon DEF AllocMapped
<1>7. NoBlock \notin Blocks /\ nextBlock # NoBlock
  BY SizesAssumption DEF EngineInv, EngineTypeOK, Blocks, NoBlock
<1>8. CASE AllocFree(p)
  <2>1. PICK b \in freeBlocks : Assign(p, b)
    BY <1>8, Zenon DEF AllocFree
  <2>2. b # NoBlock /\ lut' = lut
    BY <1>7, <1>8, Zenon DEF AllocFree, EngineInv, EngineTypeOK
  <2> QED
    BY <1>5, <2>1, <2>2, Zenon
<1>9. CASE AllocNext(p)
  BY <1>5, <1>7, <1>9, Zenon DEF AllocNext
<1>10. CASE AllocEvict(p)
  <2>1. PICK v \in Mapped : Oldest(v) /\ lut' = LutWithout({v}) /\ Assign(p, p2b[v])
    BY <1>10, Zenon DEF AllocEvict
  <2>2. v \notin sel /\ p2b[v] # NoBlock
    BY <2>1, Zenon DEF Oldest, Evictable, Mapped
  <2>3. ASSUME NEW q \in sel PROVE lut'[<<q, 0>>] = lut[<<q, 0>>]
    <3>1. <<q, 0>> \in Chunks /\ <<q, 0>>[1] = q
      BY <1>3, SizesAssumption DEF Chunks, Offs
    <3> QED
      BY <2>1, <2>2, <3>1, Zenon DEF LutWithout
  <2> QED
    BY <1>5, <2>1, <2>2, <2>3, Zenon
<1> QED
  BY <1>1, <1>2, <1>4, <1>6, <1>8, <1>9, <1>10, Zenon DEF AllocFail

\* The guard leaves out chunks that are resident; the copy writes no lut; after
\* the scatter every selected page is resident.
LEMMA FillsScatter ==
  ASSUME EngineInv, RecallFills, Guard \/ Copy \/ Scatter
  PROVE  /\ RecallFills' /\ rpc' \in {"idle", "copy", "scatter"}
         /\ rpc' # "idle" => sel' = sel
         /\ rpc' = "idle" => \A p \in sel : lut'[<<p, 0>>] # NoCell
<1>1. \A p \in sel : <<p, 0>> \in Chunks /\ <<p, 0>>[1] = p
  BY SizesAssumption DEF EngineInv, EngineTypeOK, Chunks, Offs
<1>2. \A k : IsDecodeCell(k) => k # NoCell
  BY MissCell, Zenon
<1>3. CASE Guard
  <2> DEFINE mine == {c \in Chunks : newBlk[c[1]] # NoBlock /\ ~IsDecodeCell(lut[c])}
  <2>1. /\ rpc = "alloc" /\ todo = {} /\ lut' = lut
        /\ IF mine = {} THEN RecallReturns
           ELSE rpc' = "copy" /\ keep' = mine /\ UNCHANGED <<sel, todo, newBlk>>
    BY <1>3, Zenon DEF Guard, RecallGuard
  <2>2. \A p \in sel : newBlk[p] # NoBlock \/ lut[<<p, 0>>] # NoCell
    BY <2>1, Zenon DEF RecallFills
  <2>3. \A c \in Chunks : newBlk[c[1]] # NoBlock => c \in mine \/ lut[c] # NoCell
    BY <1>2, Zenon
  <2>4. CASE mine = {}
    <3>1. rpc' = "idle"
      BY <2>1, <2>4, Zenon DEF RecallReturns
    <3>2. \A p \in sel : newBlk[p] # NoBlock => lut[<<p, 0>>] # NoCell
      BY <1>1, <2>3, <2>4, Zenon
    <3> QED
      BY <2>1, <2>2, <3>1, <3>2, Zenon DEF RecallFills
  <2>5. CASE mine # {}
    <3> HIDE DEF mine
    <3> QED
      BY <2>1, <2>2, <2>3, <2>5, Zenon DEF RecallFills
  <2> QED
    BY <2>4, <2>5, Zenon
<1>4. CASE Copy
  BY <1>4, Zenon DEF Copy, RecallCopy, RecallFills
<1>5. CASE Scatter
  <2>1. /\ rpc = "scatter" /\ rpc' = "idle"
        /\ lut' = [c \in Chunks |-> IF c \in keep THEN <<"recall", newBlk[c[1]], c[2]>> ELSE lut[c]]
    BY <1>5, Zenon DEF Scatter, RecallScatter, RecallReturns
  <2>2. ASSUME NEW p \in sel PROVE lut'[<<p, 0>>] # NoCell
    <3> DEFINE c == <<p, 0>>
    <3>1. c \in Chunks /\ c[1] = p
      BY <1>1, Zenon
    <3>2. (newBlk[p] # NoBlock => c \in keep \/ lut[c] # NoCell) /\ (newBlk[p] # NoBlock \/ lut[c] # NoCell)
      BY <2>1, <3>1, Zenon DEF RecallFills
    <3> HIDE DEF c
    <3>3. c \in keep \/ lut[c] # NoCell
      BY <3>2, Zenon
    <3>4. <<"recall", newBlk[c[1]], c[2]>> # NoCell
      BY DEF NoCell
    <3> QED
      BY <2>1, <3>1, <3>3, <3>4, Zenon DEF c
  <2> QED
    BY <2>1, <2>2, Zenon DEF RecallFills
<1> QED
  BY <1>3, <1>4, <1>5, Zenon

\* The scatter makes pages resident, not parts of them.
LEMMA WholeScatter ==
  ASSUME RequestsOK, LengthsInv, EngineInv, RecallFills, WholePages, Scatter, UNCHANGED <<phase, kv>>
  PROVE  WholePages'
<1>1. /\ rpc = "scatter"
      /\ lut' = [c \in Chunks |-> IF c \in keep THEN <<"recall", newBlk[c[1]], c[2]>> ELSE lut[c]]
  BY Zenon DEF Scatter, RecallScatter
<1>2. Admitted' = Admitted
  BY Zenon DEF Admitted
<1>3. \A c : <<"recall", newBlk[c[1]], c[2]>> # NoCell
  BY DEF NoCell
<1>4. ASSUME NEW r \in Admitted, NEW i \in 0 .. PrefillLen[r] - 1, NEW j \in 0 .. PrefillLen[r] - 1,
             i \div PS = j \div PS, lut'[ChunkAt(kv[r], i)] # NoCell
      PROVE  lut'[ChunkAt(kv[r], j)] # NoCell
  <2> DEFINE a == ChunkAt(kv[r], i)
             c == ChunkAt(kv[r], j)
  <2>1. r \in Live /\ r \in Reqs
    BY Zenon DEF Admitted, Live
  <2>2. i \in 0 .. len[r] - 1 /\ j \in 0 .. len[r] - 1
    BY <2>1, PrefillChunk, Zenon
  <2>3. a \in Chunks /\ c \in Chunks /\ a[1] = c[1]
    BY <1>4, <2>1, <2>2, ChunkPlace, Zenon
  <2>4. lut[a] # NoCell => lut[c] # NoCell
    BY <1>4, Zenon DEF WholePages
  <2>5. lut'[a] # NoCell
    BY <1>4, Zenon
  <2> HIDE DEF a, c
  <2>6. a \in keep \/ lut[a] # NoCell
    BY <1>1, <2>3, <2>5, Zenon
  <2>7. a \in keep => c \in keep \/ lut[c] # NoCell
    BY <1>1, <2>3, Zenon DEF EngineInv, RecallOwnsItsBlocks, RecallFills
  <2>8. lut'[c] # NoCell
    BY <1>1, <1>3, <2>3, <2>4, <2>6, <2>7, Zenon
  <2> QED
    BY <2>8, Zenon DEF c
<1> QED
  BY <1>2, <1>4, Zenon DEF WholePages

\* The first chunk of the page of a prefill chunk is a prefill chunk.
LEMMA FirstOfPage ==
  ASSUME RequestsOK, LengthsInv, NEW r \in Live, NEW j \in 0 .. PrefillLen[r] - 1
  PROVE  \E i \in 0 .. PrefillLen[r] - 1 :
           i \div PS = j \div PS /\ ChunkAt(kv[r], i) = <<kv[r][j \div PS + 1], 0>>
<1> DEFINE d == j \div PS
           i == PS * d
<1>1. r \in Reqs /\ PrefillLen[r] \in Nat
  BY ServerAssumption DEF Live
<1>2. j \in Nat /\ d \in Int /\ PS * d <= j /\ j < PS * d + PS
  BY <1>1, PageDiv
<1> HIDE DEF d
<1>3. d \in Nat
  BY <1>2, SizesAssumption
<1>4. i \in 0 .. PrefillLen[r] - 1
  BY <1>1, <1>2, <1>3, SizesAssumption
<1>5. i \div PS = d /\ i % PS = 0
  <2>1. i \div PS \in Int /\ PS * (i \div PS) <= i /\ i < PS * (i \div PS) + PS /\ i % PS = i - PS * (i \div PS)
    BY <1>3, PageDiv, SizesAssumption
  <2> DEFINE e == i \div PS
  <2> HIDE DEF e
  <2>2. e \in Int /\ PS * e <= PS * d /\ PS * d < PS * e + PS /\ i % PS = PS * d - PS * e
    BY <2>1 DEF e
  <2>3. e = d
    BY <1>3, <2>2, SizesAssumption
  <2> QED
    BY <1>3, <2>2, <2>3, SizesAssumption DEF e
<1>6. ChunkAt(kv[r], i) = <<kv[r][d + 1], 0>>
  BY <1>5, Zenon DEF ChunkAt
<1> QED
  BY <1>4, <1>5, <1>6, Zenon DEF d

\* What the rows of a cycle list of their requests' prefill is in the pages its
\* recall is about to fill, or in pages that are resident.
ListedFilled ==
  tpc = "recall" => \A s \in snap : \A j \in 0 .. PrefillLen[batch[s.row]] - 1 :
    ChunkAt(s.pages, j) \in ploc[s.row] =>
      /\ rpc \in {"alloc", "copy", "scatter"} => s.pages[j \div PS + 1] \in sel
      /\ rpc = "idle" => lut[<<s.pages[j \div PS + 1], 0>>] # NoCell

\* The selection covers the prefill chunks that the rows list
\* (_scatter_logical_keep).
LEMMA ListedSelect ==
  ASSUME RequestsOK, RowsOK, SnapOK, SnapRows, SnapsNow, OneRecall, SlotsInv, PagesInv, EngineInv,
         LengthsInv, TransferredInv, Select
  PROVE  ListedFilled' /\ RecallFills'
<1>1. rpc = "idle" /\ batch' = batch /\ snap' = snap /\ lut' = lut /\ newBlk' = newBlk
  BY Zenon DEF Select, Start, RecallMiss, OneRecall, recallVars, schedVars
<1>2. PICK L \in [snap -> SUBSET (1 .. PagesFor(MaxChunks))] :
        /\ \A s \in snap : L[s] \in Selections(s)
        /\ ploc' = [k \in RowIds |->
                     IF \E s \in snap : s.row = k
                     THEN LET s == CHOOSE s \in snap : s.row = k IN SelectedChunks(s, L[s])
                     ELSE ploc[k]]
        /\ LET own == [i \in PoolIdx |-> UNION {RecalledPages(s, L[s]) : s \in {s \in snap : s.idx = i}}]
           IN RecallMiss(UNION {own[i] : i \in PoolIdx})
  BY Zenon DEF Select, Start
<1> DEFINE own == [i \in PoolIdx |-> UNION {RecalledPages(s, L[s]) : s \in {s \in snap : s.idx = i}}]
           S == UNION {own[i] : i \in PoolIdx}
           miss == {p \in S : lut[<<p, 0>>] = NoCell}
<1>3. IF miss = {} THEN rpc' = rpc /\ sel' = sel ELSE rpc' = "alloc" /\ sel' = S /\ todo' = miss
  BY <1>2, Zenon DEF RecallMiss, recallVars
<1>4. \A i \in PoolIdx : own[i] = UNION {RecalledPages(s, L[s]) : s \in {s \in snap : s.idx = i}}
  BY Zenon
<1> HIDE DEF own
<1>5. ASSUME NEW s \in snap, NEW p \in RecalledPages(s, L[s]) PROVE p \in S
  <2>1. s.idx \in PoolIdx
    BY Zenon DEF SnapOK
  <2>2. own[s.idx] = UNION {RecalledPages(t, L[t]) : t \in {t \in snap : t.idx = s.idx}}
    BY <1>4, <2>1, Zenon
  <2>3. s \in {t \in snap : t.idx = s.idx}
    BY Zenon
  <2>4. p \in own[s.idx]
    <3> DEFINE mine == {t \in snap : t.idx = s.idx}
    <3> HIDE DEF mine
    <3>1. s \in mine /\ own[s.idx] = UNION {RecalledPages(t, L[t]) : t \in mine}
      BY <2>2, <2>3, Zenon DEF mine
    <3> QED
      BY <1>5, <3>1, Zenon
  <2> QED
    BY <2>1, <2>4, Zenon
<1> HIDE DEF S
<1>6. ASSUME NEW s \in snap PROVE ploc'[s.row] = SelectedChunks(s, L[s])
  <2>1. s.row \in RowIds
    BY Zenon DEF SnapOK
  <2>2. \A t \in snap : t.row = s.row => t = s
    BY Zenon DEF SnapRows
  <2>3. (CHOOSE t \in snap : t.row = s.row) = s
    BY <2>2, Zenon
  <2> QED
    BY <1>2, <2>1, <2>3, Zenon
<1>7. ASSUME NEW s \in snap, NEW j \in 0 .. PrefillLen[batch[s.row]] - 1, ChunkAt(s.pages, j) \in ploc'[s.row]
      PROVE  s.pages[j \div PS + 1] \in S
  <2> DEFINE r == batch[s.row]
  <2>1. s.row \in RowsNow /\ s.idx = idx[r] /\ s.pages = kv[r] /\ s.n = len[r]
    BY Zenon DEF SnapsNow
  <2>2. r \in Range(batch) /\ r \in Reqs
    BY <2>1 DEF RowsOK, RowsNow, Range
  <2>3. phase[r] = "running"
    BY <2>1, Zenon DEF SlotsInv
  <2> HIDE DEF r
  <2>4. r \in Admitted /\ r \in Live
    BY <2>2, <2>3, Zenon DEF Admitted, Live
  <2>5. prefillChunks[s.idx] = PrefillLen[r]
    BY <2>1, <2>4, Zenon DEF TransferredInv
  <2>6. j \in 0 .. PrefillLen[r] - 1
    BY DEF r
  <2>7. PICK i \in 0 .. s.n - 1 : i \div PS + 1 \in L[s] /\ ChunkAt(s.pages, j) = ChunkAt(s.pages, i)
    <3>1. ChunkAt(s.pages, j) \in SelectedChunks(s, L[s])
      BY <1>6, <1>7, Zenon
    <3> DEFINE c == ChunkAt(s.pages, j)
    <3> HIDE DEF c
    <3>2. c \in SelectedChunks(s, L[s])
      BY <3>1, Zenon DEF c
    <3>3. \E i \in 0 .. s.n - 1 : i \div PS + 1 \in L[s] /\ c = ChunkAt(s.pages, i)
      BY <3>2, Zenon DEF SelectedChunks
    <3> QED
      BY <3>3, Zenon DEF c
  <2>8. j \in 0 .. len[r] - 1 /\ i \in 0 .. len[r] - 1
    BY <2>1, <2>4, <2>6, PrefillChunk, Zenon
  <2>9. j = i
    BY <2>1, <2>4, <2>7, <2>8, ChunksApart
  <2>10. PrefillLen[r] \in Nat
    BY <2>2, ServerAssumption
  <2>11. j \in Int /\ j < PrefillLen[r]
    BY <2>6, <2>10
  <2>12. j \div PS \in Int /\ PS * (j \div PS) <= j
    BY <2>11, PageDiv, Zenon
  <2> DEFINE l == j \div PS + 1
             d == j \div PS
  <2>13. (l - 1) * PS < PrefillLen[r]
    <3> HIDE DEF d
    <3>1. l = d + 1 /\ d \in Int /\ PS * d <= j
      BY <2>12, Zenon DEF d
    <3> HIDE DEF l
    <3> QED
      BY <2>10, <2>11, <3>1, SizesAssumption
  <2>14. l \in L[s]
    BY <2>7, <2>9, Zenon
  <2> HIDE DEF l
  <2>15. s.pages[l] \in RecalledPages(s, L[s])
    BY <2>5, <2>13, <2>14, Zenon DEF RecalledPages
  <2> QED
    BY <1>5, <2>15, Zenon DEF l
<1>8. CASE miss = {}
  <2>1. rpc' = "idle" /\ \A p \in S : lut'[<<p, 0>>] # NoCell
    BY <1>1, <1>3, <1>8, Zenon
  <2> HIDE DEF miss
  <2> QED
    BY <1>1, <1>7, <2>1, Zenon DEF ListedFilled, RecallFills
<1>9. CASE miss # {}
  <2>1. rpc' = "alloc" /\ sel' = S /\ \A p \in S : p \in todo' \/ lut'[<<p, 0>>] # NoCell
    BY <1>1, <1>3, <1>9, Zenon
  <2> HIDE DEF miss
  <2> QED
    BY <1>1, <1>7, <2>1, Zenon DEF ListedFilled, RecallFills
<1> QED
  BY <1>8, <1>9, Zenon

\* Whole pages, what a recall fills and what the rows list: what a cycle
\* publishes.
FilledInv == WholePages /\ RecallFills /\ ListedFilled

\* Steps outside a cycle: on_forward_begin, commits and decode stores.
LEMMA WholeOutside ==
  ASSUME ServerInv, ServerInv', SlotsInv, PagesInv, EngineTypeOK, LengthsInv, WholePages, [Next]_vars, ~Sideband
  PROVE  WholePages'
<1> USE DEF ServerInv
<1>1. ASSUME NEW r \in Reqs, StoreRow(r) PROVE WholePages'
  BY <1>1, WholeStore, Zenon
<1>2. ASSUME NEW r \in Reqs, Commit(r) PROVE WholePages'
  <2>1. /\ phase' = [phase EXCEPT ![r] = "waiting"] /\ phase[r] = "landed" /\ kv' = kv
        /\ lut' = LutWithout(Range(kv[r]))
    BY <1>2, Zenon DEF Commit, Admit, DiscardCopiedPages
  <2>2. r \in Live /\ \A q \in Admitted' : q \in Admitted \/ q = r
    BY <2>1, Zenon DEF Live, Admitted, RequestsOK
  <2>3. ASSUME NEW j \in 0 .. PrefillLen[r] - 1 PROVE lut'[ChunkAt(kv'[r], j)] = NoCell
    <3>1. j \in 0 .. len[r] - 1
      BY <2>2, PrefillChunk, Zenon
    <3>2. ChunkAt(kv[r], j) \in Chunks /\ ChunkAt(kv[r], j)[1] \in Range(kv[r])
      BY <3>1, ChunkPlace, Zenon
    <3> QED
      BY <2>1, <3>2, Zenon DEF LutWithout
  <2> QED
    BY <2>1, <2>2, <2>3, WholeCleared, Zenon
<1>3. ASSUME NEW F \in SUBSET Range(batch), BeginSame(F) \/ BeginChanged(F) PROVE WholePages'
  <2>1. PrepareForDecode(F)
    BY <1>3, Zenon DEF BeginSame, BeginChanged
  <2>2. Admitted' = Admitted
    BY <2>1, Zenon DEF PrepareForDecode, Admitted
  <2>3. ASSUME NEW r \in Admitted, NEW j \in 0 .. PrefillLen[r] - 1 PROVE ChunkAt(kv'[r], j) = ChunkAt(kv[r], j)
    <3>1. r \in Live /\ r \in Reqs
      BY Zenon DEF Admitted, Live
    <3>2. j \in 0 .. len[r] - 1
      BY <3>1, PrefillChunk, Zenon
    <3> QED
      BY <2>1, <3>1, <3>2, ChunkStays, Zenon
  <2>4. \E P : lut' = lut \/ lut' = LutWithout(P)
    BY <1>3, Zenon DEF BeginSame, BeginChanged, ReleaseAtBegin, ReleaseOwned, ReleaseOwnedPages,
                       Release, ReleaseReqPoolLocs, engineVars
  <2> QED
    BY <2>2, <2>3, <2>4, WholeCleared, Zenon
<1>4. ASSUME lut' = lut, \A r \in Admitted' : r \in Admitted /\ kv'[r] = kv[r] PROVE WholePages'
  BY <1>4, Zenon DEF WholePages
<1>5. ASSUME NEW r \in Reqs, Prealloc(r) PROVE WholePages'
  <2>1. lut' = lut /\ phase' = [phase EXCEPT ![r] = "prealloc"] /\ phase[r] = "new"
    BY <1>5, Zenon DEF Prealloc, engineVars
  <2>2. \A q \in Live : kv'[q] = kv[q]
    BY <1>5, PagesPrealloc, Zenon
  <2>3. \A q \in Admitted' : q \in Admitted /\ q \in Live
    BY <2>1, Zenon DEF Admitted, Live, RequestsOK
  <2> QED
    BY <1>4, <2>1, <2>2, <2>3, Zenon
<1>6. ASSUME NEW r \in Reqs, TransferLands(r) \/ Merge(r) PROVE WholePages'
  <2>1. UNCHANGED <<kv, lut>>
    BY <1>6, Zenon DEF TransferLands, Land, Merge, engineVars
  <2>2. \A q \in Admitted' : q \in Admitted
    BY <1>6, Zenon DEF TransferLands, Merge, Admitted, RequestsOK
  <2> QED
    BY <1>4, <2>1, <2>2, Zenon
<1>7. ASSUME NEW F, Result(F) PROVE WholePages'
  <2>1. UNCHANGED <<kv, lut>>
    BY <1>7, Zenon DEF Result, engineVars
  <2>2. \A q \in Admitted' : q \in Admitted
    BY <1>7, Zenon DEF Result, Admitted
  <2> QED
    BY <1>4, <2>1, <2>2, Zenon
<1>8. ASSUME Remap \/ ReadDone \/ EndQuiet \/ EndDue \/ EndInline \/ UNCHANGED vars PROVE WholePages'
  <2>1. UNCHANGED <<phase, kv, lut>>
    BY <1>8, Zenon DEF Remap, ReadDone, EndQuiet, EndDue, EndInline, vars, engineVars, schedVars
  <2> QED
    BY <1>4, <2>1, Zenon DEF Admitted
<1> QED
  BY <1>1, <1>2, <1>3, <1>5, <1>6, <1>7, <1>8, Zenon DEF Next, Scheduler, Idle

\* A step of the recall inside a cycle.
LEMMA FilledRecall ==
  ASSUME LutTruth, RequestsOK, EngineInv, LengthsInv, FilledInv, Recall
  PROVE  FilledInv'
<1>1. Alloc \/ Guard \/ Copy \/ Scatter
  BY Zenon DEF Recall
<1>2. UNCHANGED <<phase, kv, batch, snap, ploc, tpc>>
  BY Zenon DEF Recall, schedVars, rowVars, threadVars
<1>3. RecallFills' /\ (rpc' \in {"alloc", "copy", "scatter"} => sel' = sel)
      /\ (rpc' = "idle" => \A p \in sel : lut'[<<p, 0>>] # NoCell)
  BY <1>1, FillsAlloc, FillsScatter, Zenon DEF FilledInv
<1>4. rpc \in {"alloc", "copy", "scatter"}
  BY <1>1, Zenon DEF Alloc, RecallAlloc, Guard, RecallGuard, Copy, RecallCopy, Scatter, RecallScatter
<1>5. ListedFilled'
  BY <1>2, <1>3, <1>4, Zenon DEF FilledInv, ListedFilled
<1>6. WholePages'
  <2>1. CASE Scatter
    BY <1>2, <2>1, WholeScatter, Zenon DEF FilledInv
  <2>2. CASE Alloc \/ Guard \/ Copy
    <3>1. \E P : lut' = lut \/ lut' = LutWithout(P)
      BY <2>2, Zenon DEF Alloc, RecallAlloc, AllocMapped, AllocFree, AllocNext, AllocEvict, AllocFail, Guard, Copy
    <3>2. Admitted' = Admitted
      BY <1>2, Zenon DEF Admitted
    <3> QED
      BY <1>2, <3>1, <3>2, WholeCleared, Zenon DEF FilledInv, EngineInv
  <2> QED
    BY <1>1, <2>1, <2>2, Zenon
<1> QED
  BY <1>3, <1>5, <1>6, Zenon DEF FilledInv

\* What a cycle publishes, through every step.
LEMMA FilledStep ==
  ASSUME ~Async, LutTruth, ServerInv, ServerInv', ScheduleInv, SnapRows, SnapsNow, SlotsInv, PagesInv, EngineInv,
         LengthsInv, TransferredInv, FilledInv, [Next]_vars
  PROVE  FilledInv'
<1> USE DEF ServerInv
<1>1. CASE ~Sideband
  <2>1. WholePages'
    BY <1>1, WholeOutside, Zenon DEF FilledInv, EngineInv
  <2>2. CASE tpc = "none"
    <3>1. UNCHANGED rpc /\ rpc = "idle" /\ tpc' # "recall"
      <4>1. rpc = "idle"
        BY <2>2, Zenon DEF OneRecall
      <4>2. ASSUME NEW r \in Reqs, Prealloc(r) \/ TransferLands(r) \/ Commit(r) \/ Merge(r) \/ StoreRow(r)
            PROVE  UNCHANGED <<rpc, tpc>>
        BY <4>2, Zenon DEF Prealloc, TransferLands, Land, Commit, Admit, Merge, StoreRow, Store,
                           engineVars, recallVars, threadVars
      <4>3. ASSUME NEW F, BeginSame(F) \/ BeginChanged(F) \/ Result(F) PROVE UNCHANGED <<rpc, tpc>>
        BY <4>3, Zenon DEF BeginSame, BeginChanged, ReleaseAtBegin, Release, ReleaseOwned, Result,
                           engineVars, recallVars, threadVars
      <4>4. ASSUME Remap \/ ReadDone \/ EndQuiet \/ EndInline \/ UNCHANGED vars PROVE UNCHANGED <<rpc, tpc>>
        BY <4>4, Zenon DEF Remap, ReadDone, EndQuiet, EndInline, vars, engineVars, threadVars
      <4>5. ASSUME EndDue PROVE UNCHANGED rpc /\ tpc' = "select"
        BY <4>5, Zenon DEF EndDue, engineVars
      <4> QED
        BY <1>1, <2>2, <4>1, <4>2, <4>3, <4>4, <4>5, Zenon DEF Next, Scheduler, Idle
    <3> QED
      BY <2>1, <3>1, Zenon DEF FilledInv, RecallFills, ListedFilled
  <2>3. CASE tpc # "none"
    <3>1. (\E r \in Reqs : TransferLands(r)) \/ UNCHANGED vars
      BY <1>1, <2>3, InlineSteps, Zenon
    <3>2. UNCHANGED <<lut, rpc, sel, todo, newBlk, keep, tpc, snap, ploc, batch>>
      BY <3>1, Zenon DEF TransferLands, Land, vars, engineVars, recallVars, rowVars, schedVars, threadVars
    <3> QED
      BY <2>1, <3>2, Zenon DEF FilledInv, RecallFills, ListedFilled
  <2> QED
    BY <2>2, <2>3, Zenon
<1>2. CASE Select
  <2>1. UNCHANGED <<phase, kv, lut>>
    BY <1>2, Zenon DEF Select, Start, schedVars
  <2>2. WholePages'
    BY <2>1, Zenon DEF FilledInv, WholePages, Admitted
  <2> QED
    BY <1>2, <2>2, ListedSelect, Zenon DEF FilledInv
<1>3. CASE Recall
  BY <1>3, FilledRecall, Zenon
<1>4. CASE Publish \/ RebuildMeta \/ SidebandFails
  <2>1. UNCHANGED <<phase, kv, lut>> /\ rpc' = "idle" /\ tpc' # "recall"
    BY <1>4, Zenon DEF Publish, RebuildMeta, SidebandFails, Raised, RecallRaised, RecallReturns, OneRecall,
                       engineVars, schedVars
  <2> QED
    BY <2>1, Zenon DEF FilledInv, WholePages, RecallFills, ListedFilled, Admitted
<1> QED
  BY <1>1, <1>2, <1>3, <1>4, Zenon DEF Sideband

\* With the side-band inside on_forward_end and LUT_TRUTH, a cycle publishes a
\* row only with all the prefill chunks it lists resident, however small the
\* recall region: what does not fit makes the recall fail, not the mask lie.
THEOREM PublishedRowsAreResident ==
  ASSUME ~Async, LutTruth, IsInjective(FirstSlots)
  PROVE  Spec => PublishedChunksAreResident
<1> DEFINE Known == ServerInv /\ SlotsInv /\ PagesInv /\ EngineInv /\ ScheduleInv
           Inv == SnapRows /\ SnapsNow /\ LengthsInv /\ TransferredInv /\ FilledInv
           Published ==
             tpc = "recall" /\ tpc' = "meta" =>
               \A s \in snap : s.row \in RowsNow /\ ReqIds[s.row] = s.idx /\ kv[batch[s.row]] = s.pages =>
                 \A j \in 0 .. PrefillLen[batch[s.row]] - 1 :
                   ChunkAt(s.pages, j) \in ploc[s.row] => lut[ChunkAt(s.pages, j)] # NoCell
<1>1. ServerInit => Inv
  <2> SUFFICES ASSUME ServerInit PROVE Inv
    OBVIOUS
  <2>1. Live = {} /\ Admitted = {} /\ snap = {} /\ forming = {} /\ rpc = "idle" /\ tpc = "none"
    BY Zenon DEF ServerInit, EngineInit, Live, Admitted
  <2>2. \A r \in Reqs : phase[r] # "running"
    BY Zenon DEF ServerInit
  <2> QED
    BY <2>1, <2>2, Zenon DEF SnapRows, SnapsNow, LengthsInv, TransferredInv, FilledInv, WholePages, RecallFills,
                             ListedFilled
<1>2. Known /\ Known' /\ Inv /\ [Next]_vars => Inv'
  <2> SUFFICES ASSUME Known, Known', Inv, [Next]_vars PROVE Inv'
    OBVIOUS
  <2>1. RequestsOK /\ RequestsOK' /\ RowsOK /\ EngineTypeOK
    BY Zenon DEF ServerInv, EngineInv
  <2>2. SnapRows' /\ SnapsNow'
    BY SnapRowsStep, SnapsNowStep, Zenon
  <2>3. LengthsInv'
    BY <2>1, LengthsStep, Zenon
  <2>4. TransferredInv'
    BY <2>1, TransferredStep, Zenon
  <2>5. FilledInv'
    BY FilledStep, Zenon
  <2> QED
    BY <2>2, <2>3, <2>4, <2>5, Zenon
<1>3. Known /\ Inv /\ [Next]_vars => [Published]_vars
  <2> SUFFICES ASSUME Known, Inv, [Next]_vars, tpc = "recall", tpc' = "meta",
                      NEW s \in snap, NEW j \in 0 .. PrefillLen[batch[s.row]] - 1, ChunkAt(s.pages, j) \in ploc[s.row]
               PROVE  lut[ChunkAt(s.pages, j)] # NoCell
    BY Zenon
  <2> DEFINE r == batch[s.row]
  <2>1. rpc = "idle"
    <3>1. ASSUME NEW F \in SUBSET Range(batch) PROVE ~BeginChanged(F)
      BY Zenon DEF BeginChanged
    <3>2. ~EndQuiet /\ ~EndDue /\ ~Select /\ ~RebuildMeta /\ ~SidebandFails
      BY Zenon DEF EndQuiet, EndDue, Select, RebuildMeta, SidebandFails, threadVars
    <3>3. Publish
      BY <3>1, <3>2, QuietSteps, Zenon
    <3> QED
      BY <3>3, Zenon DEF Publish
  <2>2. lut[<<s.pages[j \div PS + 1], 0>>] # NoCell
    BY <2>1, Zenon DEF FilledInv, ListedFilled
  <2>3. s.row \in RowsNow /\ s.pages = kv[r]
    BY Zenon DEF SnapsNow
  <2>4. r \in Reqs
    BY <2>3 DEF ServerInv, RowsOK, RowsNow
  <2>5. phase[r] = "running"
    BY <2>3, Zenon DEF SlotsInv
  <2>6. j \in 0 .. PrefillLen[r] - 1
    OBVIOUS
  <2> HIDE DEF r
  <2>7. r \in Admitted /\ r \in Live
    BY <2>4, <2>5, Zenon DEF Admitted, Live
  <2>8. PICK i \in 0 .. PrefillLen[r] - 1 :
          i \div PS = j \div PS /\ ChunkAt(kv[r], i) = <<kv[r][j \div PS + 1], 0>>
    BY <2>6, <2>7, FirstOfPage, Zenon DEF ServerInv
  <2>9. lut[ChunkAt(kv[r], i)] # NoCell
    BY <2>2, <2>3, <2>8, Zenon
  <2> QED
    BY <2>3, <2>6, <2>7, <2>8, <2>9, Zenon DEF FilledInv, WholePages
<1>4. Spec => []SlotsInv
  BY SlotsInvariant, Zenon
<1>5. []ServerInv /\ []SlotsInv /\ []PagesInv /\ []EngineInv /\ []ScheduleInv => []Known
  BY PTL
<1> HIDE DEF Known, Inv
<1> QED
  BY <1>1, <1>2, <1>3, <1>4, <1>5, ServerInvariant, PagesInvariant, ServerEngineInvariant, ScheduleInvariant,
     PTL DEF Spec, PublishedChunksAreResident
===============================================================================
