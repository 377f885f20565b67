--------------------------- MODULE DecodeServerRoom ---------------------------
(***************************************************************************)
(* What the decode server gets from room: a reserve that holds every       *)
(* selection or every page, a request pool with spare slots, and a decode  *)
(* region with a slot per pool index.                                      *)
(***************************************************************************)
EXTENDS DecodeServerBytes, FiniteSetTheorems

-----------------------------------------------------------------------------
(* A reserve with room for every selection: no recall raises.              *)

\* The recall region has a block for every page.
BlockPerPage == IsFiniteSet(Pages) /\ Cardinality(Pages) <= MaxBlocks

\* The recall region holds what the rows of a full batch may select, or every
\* page there is.
EnoughBlocks == MaxRunning * KMax <= MaxBlocks \/ BlockPerPage

\* A set of at most n elements has an index in 1 .. n for each of them.
LEMMA Numbered ==
  ASSUME NEW S, IsFiniteSet(S), NEW n \in Nat, Cardinality(S) <= n
  PROVE  \E h \in [S -> 1 .. n] : \A x, y \in S : h[x] = h[y] => x = y
<1> DEFINE m == Cardinality(S)
<1>1. m \in Nat /\ ExistsBijection(1 .. m, S)
  BY FS_CardinalityType, Zenon
<1>2. PICK f : f \in Bijection(1 .. m, S)
  BY <1>1, Zenon DEF ExistsBijection
<1>3. \A x \in S : \E i \in 1 .. m : f[i] = x
  BY <1>2, Zenon DEF Bijection, Surjection
<1>4. 1 .. m \subseteq 1 .. n
  BY <1>1
<1> HIDE DEF m
<1> DEFINE h == [x \in S |-> CHOOSE i \in 1 .. m : f[i] = x]
<1>5. \A x \in S : h[x] \in 1 .. m /\ f[h[x]] = x
  BY <1>3, Zenon
<1>6. h \in [S -> 1 .. n]
  BY <1>4, <1>5, Zenon
<1>7. \A x, y \in S : h[x] = h[y] => x = y
  BY <1>5, Zenon
<1> QED
  BY <1>6, <1>7, Zenon

\* With at least as many blocks as selected pages the allocation loop always
\* finds one: free, never used, or held by a page outside the selection.
LEMMA SelectionFits ==
  ASSUME EngineInv, IsFiniteSet(sel), Cardinality(sel) <= MaxBlocks, NEW p \in todo
  PROVE  ~AllocFail(p)
<1> SUFFICES ASSUME AllocFail(p) PROVE FALSE
  OBVIOUS
<1>1. p \in sel /\ p \notin Mapped /\ freeBlocks = {} /\ Mapped \subseteq sel
  BY Zenon DEF EngineInv, RecallOwnsItsBlocks, AllocFail, Evictable, Mapped
<1>2. nextBlock = MaxBlocks
  BY SizesAssumption DEF EngineInv, EngineTypeOK, AllocFail
<1>3. \A b \in Blocks : \E q \in Pages : p2b[q] = b
  BY <1>1, <1>2, Zenon DEF EngineInv, BlocksOnce, Blocks
<1> DEFINE f == [b \in Blocks |-> CHOOSE q \in Pages : p2b[q] = b]
<1>4. \A b \in Blocks : f[b] \in Pages /\ p2b[f[b]] = b
  <2> SUFFICES ASSUME NEW b \in Blocks PROVE f[b] \in Pages /\ p2b[f[b]] = b
    OBVIOUS
  <2>1. f[b] = CHOOSE q \in Pages : p2b[q] = b
    BY Zenon
  <2> HIDE DEF f
  <2> QED
    BY <1>3, <2>1, Zenon
<1>5. f \in [Blocks -> sel \ {p}]
  <2>1. \A b \in Blocks : f[b] \in sel \ {p}
    <3> HIDE DEF f
    <3> QED
      BY <1>1, <1>4, NoBlockIsNone, Zenon DEF Mapped
  <2> QED
    BY <2>1, Zenon
<1> HIDE DEF f
<1>6. \A a, b \in Blocks : f[a] = f[b] => a = b
  BY <1>4, Zenon
<1>7. f \in Injection(Blocks, sel \ {p})
  BY <1>5, <1>6, Zenon DEF Injection, IsInjective
<1>8. IsFiniteSet(sel \ {p}) /\ Cardinality(sel \ {p}) = Cardinality(sel) - 1
  BY <1>1, FS_RemoveElement, Zenon
<1>9. Cardinality(Blocks) <= Cardinality(sel \ {p})
  BY <1>7, <1>8, FS_Injection, Zenon
<1>10. Cardinality(Blocks) = MaxBlocks
  <2>1. Cardinality(0 .. MaxBlocks - 1) = IF 0 > MaxBlocks - 1 THEN 0 ELSE MaxBlocks - 1 - 0 + 1
    <3>1. 0 \in Int /\ MaxBlocks - 1 \in Int
      BY SizesAssumption
    <3> QED
      BY <3>1, FS_Interval, Zenon
  <2> QED
    BY <2>1, SizesAssumption DEF Blocks
<1>11. Cardinality(sel) \in Nat
  BY FS_CardinalityType, Zenon
<1> QED
  BY <1>8, <1>9, <1>10, <1>11, SizesAssumption

\* What a cycle recalls is at most KMax pages for each of its rows.
LEMMA SelectedPagesFit ==
  ASSUME EnoughBlocks, SnapOK, SnapRows, NEW S \in SUBSET Pages,
         NEW L, \A s \in snap : L[s] \in Selections(s),
         \A p \in S : \E s \in snap : \E l \in L[s] : p = s.pages[l]
  PROVE  IsFiniteSet(S) /\ Cardinality(S) <= MaxBlocks
<1>1. CASE IsFiniteSet(Pages) /\ Cardinality(Pages) <= MaxBlocks
  <2>1. IsFiniteSet(S) /\ Cardinality(S) <= Cardinality(Pages)
    BY <1>1, FS_Subset, Zenon
  <2>2. Cardinality(S) \in Nat /\ Cardinality(Pages) \in Nat
    BY <1>1, <2>1, FS_CardinalityType, Zenon
  <2> QED
    BY <1>1, <2>1, <2>2, SizesAssumption
<1>2. CASE MaxRunning * KMax <= MaxBlocks
  <2>0. ASSUME NEW s \in snap
        PROVE  \E h \in [L[s] -> 1 .. KMax] : \A x, y \in L[s] : h[x] = h[y] => x = y
    <3>1. s.n \in Nat /\ PagesFor(s.n) \in Nat
      BY PagesForFacts DEF SnapOK
    <3>2. IsFiniteSet(1 .. PagesFor(s.n))
      <4>1. 1 \in Int /\ PagesFor(s.n) \in Int
        BY <3>1
      <4> QED
        BY <4>1, FS_Interval, Zenon
    <3>3. IsFiniteSet(L[s])
      <4>1. L[s] \in SUBSET (1 .. PagesFor(s.n))
        BY Zenon DEF Selections
      <4> QED
        BY <3>2, <4>1, FS_Subset, Zenon
    <3>4. Cardinality(L[s]) <= KMax
      <4>1. Cardinality(L[s]) = IF KMax < PagesFor(s.n) THEN KMax ELSE PagesFor(s.n)
        BY Zenon DEF Selections
      <4> QED
        BY <3>1, <4>1, ServerAssumption
    <3>5. KMax \in Nat
      BY ServerAssumption
    <3> QED
      BY <3>3, <3>4, <3>5, Numbered, Zenon
  <2>1. PICK f \in [S -> RowIds \X (1 .. KMax)] : \A p, q \in S : f[p] = f[q] => p = q
    BY <2>0, PageIndices, Zenon
  <2>7. f \in Injection(S, RowIds \X (1 .. KMax))
    BY <2>1, Zenon DEF Injection, IsInjective
  <2>8. /\ IsFiniteSet(RowIds) /\ Cardinality(RowIds) = MaxRunning
        /\ IsFiniteSet(1 .. KMax) /\ Cardinality(1 .. KMax) = KMax
    <3>1. 1 \in Int /\ MaxRunning \in Int /\ KMax \in Int
      BY ServerAssumption
    <3>2. /\ IsFiniteSet(RowIds) /\ Cardinality(RowIds) = IF 1 > MaxRunning THEN 0 ELSE MaxRunning - 1 + 1
          /\ IsFiniteSet(1 .. KMax) /\ Cardinality(1 .. KMax) = IF 1 > KMax THEN 0 ELSE KMax - 1 + 1
      BY <3>1, FS_Interval, Zenon DEF RowIds
    <3> QED
      BY <3>2, ServerAssumption
  <2>9. IsFiniteSet(RowIds \X (1 .. KMax)) /\ Cardinality(RowIds \X (1 .. KMax)) = MaxRunning * KMax
    BY <2>8, FS_Product, Zenon
  <2>10. IsFiniteSet(S) /\ Cardinality(S) <= Cardinality(RowIds \X (1 .. KMax))
    BY <2>7, <2>9, FS_Injection, Zenon
  <2>11. Cardinality(S) \in Nat
    BY <2>10, FS_CardinalityType, Zenon
  <2> QED
    BY <1>2, <2>9, <2>10, <2>11, SizesAssumption, ServerAssumption
<1> QED
  BY <1>1, <1>2, Zenon DEF EnoughBlocks, BlockPerPage

\* With that much room no cycle ever runs out of blocks half-way
\* (_recall_global_pages never reaches its missing _g_full), whatever other
\* requests keep resident: their pages are evicted instead.
THEOREM RecallNeverFails ==
  ASSUME EnoughBlocks
  PROVE  Spec => [](SnapRows /\ RecallFits)
<1>1. ServerInit => SnapRows /\ RecallFits
  BY Zenon DEF ServerInit, EngineInit, SnapRows, RecallFits
<1>2. ServerInv /\ EngineInv /\ (SnapRows /\ RecallFits) /\ [Next]_vars => (SnapRows /\ RecallFits)'
  <2> SUFFICES ASSUME ServerInv, EngineInv, SnapRows, RecallFits, [Next]_vars PROVE SnapRows' /\ RecallFits'
    OBVIOUS
  <2>1. SelectionsFit
    BY SelectedPagesFit, Zenon DEF SelectionsFit, ServerInv
  <2>2. rpc = "alloc" => \A p \in todo : ~AllocFail(p)
    BY SelectionFits, Zenon DEF RecallFits
  <2> QED
    BY <2>1, <2>2, SnapRowsStep, RecallFitsStep, Zenon
<1> QED
  BY <1>1, <1>2, ServerInvariant, ServerEngineInvariant, PTL DEF Spec

\* A cycle raises only in an inline side-band, which takes the scheduler down,
\* or not at all.
THEOREM StagedInvariant ==
  ASSUME ~Async \/ EnoughBlocks
  PROVE  Spec => [](SnapRows /\ StagedInv)
<1>1. ServerInit => SnapRows /\ StagedInv
  BY Zenon DEF ServerInit, SnapRows, StagedInv, InForward, RowIds
<1>2. ASSUME ServerInv, BuffersOK, SnapRows, StagedInv, RecallFits \/ ~Async, [Next]_vars
      PROVE  (SnapRows /\ StagedInv)'
  <2>1. SidebandFails => ~Async
    BY <1>2, Zenon DEF RecallFits, SidebandFails, Raised, RecallRaised
  <2> QED
    BY <1>2, <2>1, SnapRowsStep, StagedStep, Zenon
<1>3. CASE ~Async
  <2>1. ServerInv /\ BuffersOK /\ (SnapRows /\ StagedInv) /\ [Next]_vars => (SnapRows /\ StagedInv)'
    BY <1>2, <1>3, Zenon
  <2> QED
    BY <1>1, <2>1, ServerInvariant, BuffersInvariant, PTL DEF Spec
<1>4. CASE EnoughBlocks
  <2>1. ServerInv /\ BuffersOK /\ RecallFits /\ (SnapRows /\ StagedInv) /\ [Next]_vars => (SnapRows /\ StagedInv)'
    BY <1>2, Zenon
  <2>2. Spec => [](SnapRows /\ RecallFits)
    BY <1>4, RecallNeverFails, Zenon
  <2> QED
    BY <1>1, <2>1, <2>2, ServerInvariant, BuffersInvariant, PTL DEF Spec
<1> QED
  BY <1>3, <1>4, Zenon

\* While a forward runs no row past the batch has a count, so the score kernel,
\* whose schedule covers all rows, never reads the locs of a row nobody is in.
\* With ASYNC_RECALL this needs the room of EnoughBlocks: a cycle that raises
\* leaves its counts staged, and the next batch may be shorter.
THEOREM NoPhantomRows ==
  ASSUME ~Async \/ EnoughBlocks
  PROVE  Spec => []NoPhantomRow
<1>1. ServerInv /\ (SnapRows /\ StagedInv) => NoPhantomRow
  <2> SUFFICES ASSUME ServerInv, StagedInv, mpc \in {"store", "read"}, NEW k \in TailRows PROVE ~count[k]
    BY Zenon DEF NoPhantomRow
  <2>1. occ = ReqIds
    BY Zenon DEF StagedInv, InForward
  <2>2. Len(occ) = Len(batch)
    BY <2>1, ReqIdsFacts, Zenon DEF ServerInv
  <2>3. k \in RowIds /\ ~(k <= Len(batch))
    BY DEF TailRows, RowIds, ServerInv, RowsOK
  <2> QED
    BY <2>2, <2>3, Zenon DEF StagedInv
<1> QED
  BY <1>1, StagedInvariant, ServerInvariant, PTL

-----------------------------------------------------------------------------
(* Spare pool indices.                                                     *)

\* While as many slots are free as the batch has rows, a new request never gets
\* an index that a row still has, however often the indices come round
\* (_pre_alloc takes from the front of free_slots, results append at its end).
THEOREM SpareSlotsKeepIndicesFresh ==
  ASSUME IsInjective(FirstSlots)
  PROVE  Spec /\ []SpareSlots => [][FreshIndex]_vars
<1>1. ServerInit => FreedLast
  <2> SUFFICES ASSUME ServerInit PROVE FreedLast
    OBVIOUS
  <2>1. mpc = "queue" /\ occ = <<>>
    BY Zenon DEF ServerInit
  <2>2. Range(occ) = {}
    BY <2>1 DEF Range
  <2> QED
    BY <2>1, <2>2, Zenon DEF FreedLast, InForward
<1>2. ServerInv /\ SlotsInv /\ FreedLast /\ SpareSlots' /\ [Next]_vars => FreedLast' /\ [FreshIndex]_vars
  BY FreedLastStep, Zenon DEF ServerInv
<1> QED
  BY <1>1, <1>2, ServerInvariant, SlotsInvariant, PTL DEF Spec

\* Then a published row always describes its occupant, with both threads and
\* every setting of the gates (_reset_changed_rows sees every change).
THEOREM RowsDescribeOccupantsWithSpareSlots ==
  ASSUME IsInjective(FirstSlots)
  PROVE  Spec /\ []SpareSlots => []PublishedRowIsOccupants
BY RowsDescribeOccupants, SpareSlotsKeepIndicesFresh, PTL

\* And a request that stays in the batch keeps every chunk of its lut when
\* others finish, with the side-band on its own stream too.
THEOREM StayingRequestsKeepResidencyWithSpareSlots ==
  ASSUME OwnerRelease \/ NoRowRelease, IsInjective(FirstSlots)
  PROVE  Spec /\ []SpareSlots => LiveRequestsKeepTheirLut
BY StayingRequestsKeepResidency, SpareSlotsKeepIndicesFresh, PTL

-----------------------------------------------------------------------------
(* A decode slot per pool index.                                           *)

\* With as many slots as pool indices the counter does not wrap.
LEMMA SlotForEach ==
  ASSUME IsFiniteSet(PoolIdx), Cardinality(PoolIdx) <= MaxConc, GivenInv, NEW i \in PoolIdx, i \notin Given
  PROVE  nextSlot < MaxConc /\ Cardinality(Given \cup {i}) = Cardinality(Given) + 1
<1>1. Given \cup {i} \subseteq PoolIdx /\ Given \subseteq PoolIdx
  BY Zenon DEF Given
<1>2. IsFiniteSet(Given) /\ IsFiniteSet(Given \cup {i}) /\ Cardinality(Given \cup {i}) <= Cardinality(PoolIdx)
  BY <1>1, FS_Subset, Zenon
<1>3. Cardinality(Given \cup {i}) = Cardinality(Given) + 1
  BY <1>2, FS_AddElement, Zenon
<1>4. Cardinality(PoolIdx) \in Nat /\ Cardinality(Given) \in Nat
  BY <1>2, FS_CardinalityType, Zenon
<1>5. nextSlot = Cardinality(Given)
  BY Zenon DEF GivenInv
<1> QED
  BY <1>2, <1>3, <1>4, <1>5, SizesAssumption

\* A decode slot per pool index keeps the slots apart (register_decode_req).
THEOREM DecodeSlotsStayApart ==
  ASSUME IsFiniteSet(PoolIdx), Cardinality(PoolIdx) <= MaxConc
  PROVE  Spec => []DecodeSlotsApart
<1>1. ServerInit => GivenInv
  <2> SUFFICES ASSUME ServerInit PROVE GivenInv
    OBVIOUS
  <2>1. nextSlot = 0 /\ \A i \in PoolIdx : decodeSlot[i] = -1
    BY Zenon DEF ServerInit, EngineInit
  <2>2. Given = {}
    BY <2>1, Zenon DEF Given
  <2>3. Cardinality(Given) = 0
    BY <2>2, FS_EmptySet, Zenon
  <2>4. -1 \notin Slots
    BY SizesAssumption DEF Slots
  <2> QED
    BY <2>1, <2>2, <2>3, <2>4, Zenon DEF GivenInv, DecodeSlotsApart
<1>2. ServerInv /\ EngineInv /\ GivenInv /\ [Next]_vars => GivenInv'
  BY SlotForEach, GivenStep, Zenon
<1>3. GivenInv => DecodeSlotsApart
  BY Zenon DEF GivenInv
<1> QED
  BY <1>1, <1>2, <1>3, ServerInvariant, ServerEngineInvariant, PTL DEF Spec

-----------------------------------------------------------------------------
(* What attention reads.                                                   *)

\* With spare slots and a decode slot per pool index, and the side-band inside
\* on_forward_end, every forward reads its own bytes and no recall redirects a
\* decoded chunk, as long as no eviction takes a page that holds both prefill
\* and decoded chunks of a running request: that one condition on the state is
\* left, and TailPageEvicted shows that the code does not guarantee it.
THEOREM ForwardsReadTheirOwnWithSpareSlots ==
  ASSUME ~Async, OwnerRelease \/ NoRowRelease, LocalFix, DecodeFits, IsInjective(FirstSlots),
         IsFiniteSet(PoolIdx), Cardinality(PoolIdx) <= MaxConc
  PROVE  Spec /\ []SpareSlots /\ [][KeepsBoundaryPages]_vars
           => [](ReadsOwnKV /\ DecodedChunksStayInDecodeRegion)
BY ForwardsReadTheirOwn, SpareSlotsKeepIndicesFresh, DecodeSlotsStayApart, PTL
===============================================================================
