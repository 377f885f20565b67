-------------------------- MODULE DecodeQueuesProofs --------------------------
(***************************************************************************)
(* The page arithmetic behind the SWA guard and SWA eviction, for every    *)
(* page size, window and request length.                                   *)
(***************************************************************************)
EXTENDS DecodeQueues, TLAPS

\* Rounding down to pages loses less than a page.
LEMMA DivBounds ==
  ASSUME NEW n \in Int
  PROVE  n \div Page \in Int /\ Page * (n \div Page) <= n /\ n < Page * (n \div Page) + Page
BY QueuesAssumption

\* n tokens fill no more than m pages if they fit in them.
LEMMA DivAtMost ==
  ASSUME NEW n \in Int, NEW m \in Int, n < Page * m + Page
  PROVE  n \div Page <= m
<1> DEFINE d == n \div Page
<1>1. d \in Int /\ Page * d <= n
  BY DivBounds, Zenon
<1> HIDE DEF d
<1>2. Page * d < Page * (m + 1)
  BY <1>1, QueuesAssumption
<1>3. d < m + 1
  BY <1>1, <1>2, QueuesAssumption
<1> QED
  BY <1>1, <1>3 DEF d

\* Aligning down stays within a page below.
LEMMA AlignDownBounds ==
  ASSUME NEW n \in Int
  PROVE  AlignDown(n) \in Int /\ AlignDown(n) <= n /\ n < AlignDown(n) + Page
<1> DEFINE d == n \div Page
<1>1. d \in Int /\ Page * d <= n /\ n < Page * d + Page
  BY DivBounds, Zenon
<1>2. AlignDown(n) = d * Page
  BY Zenon DEF AlignDown
<1> HIDE DEF d
<1> QED
  BY <1>1, <1>2, QueuesAssumption

\* More room by whole pages holds as many pages more.
LEMMA PagesForAtMost ==
  ASSUME NEW n \in Int, NEW w \in Int, NEW m \in Nat, n < w + Page * m + 1
  PROVE  PagesFor(n) <= PagesFor(w) + m
<1> DEFINE d == (w + Page - 1) \div Page
<1>1. d \in Int /\ w + Page - 1 < Page * d + Page
  BY DivBounds, QueuesAssumption
<1> HIDE DEF d
<1>2. n + Page - 1 < Page * (d + m) + Page
  BY <1>1, QueuesAssumption
<1>3. n + Page - 1 \in Int /\ d + m \in Int
  BY <1>1, QueuesAssumption
<1>4. (n + Page - 1) \div Page <= d + m
  BY <1>2, <1>3, DivAtMost, Zenon
<1> QED
  BY <1>4, Zenon DEF PagesFor, d

\* _swa_pages_per_req is enough for the windowed tail of every new request,
\* however long: when the guard of pop_preallocated passes, alloc_extend_windowed_swa
\* finds the SWA pages of the request it guards.
THEOREM SwaGuardCoversTail ==
  ASSUME NEW r \in Reqs, windowed = TRUE, out[r] = 0
  PROVE  SwaNeed[r] <= SwaGuard
<1> DEFINE n == InputLen[r]
           tail == n - WinStart(r)
<1>1. n \in Nat /\ Page \in Nat \ {0, 1} /\ Window \in Nat
  BY QueuesAssumption, Zenon
<1>2. WinStart(r) = AlignDown(LargerOf(0, n - Window - Page)) /\ FillLen(r) = n
  <2>1. LargerOf(out[r] - 1, 0) = 0
    BY DEF LargerOf
  <2> QED
    BY <1>1, <2>1 DEF WinStart, FillLen
<1> HIDE DEF n
<1>3. LargerOf(0, n - Window - Page) \in Int /\ LargerOf(0, n - Window - Page) >= n - Window - Page
  BY <1>1 DEF LargerOf
<1>4. tail \in Int /\ tail < Window + Page * 2 + 1
  BY <1>1, <1>2, <1>3, AlignDownBounds
<1> HIDE DEF tail
<1>5. PagesFor(tail) <= PagesFor(Window) + 2
  BY <1>1, <1>4, PagesForAtMost
<1> QED
  BY <1>2, <1>5, Zenon DEF SwaNeed, SwaGuard, tail

\* The tail that _pre_alloc gives SWA slots covers the window of the first
\* decode step, also when the request comes back with output tokens.
THEOREM TailCoversWindow ==
  ASSUME NEW r \in Reqs, out[r] \in Nat
  PROVE  WinStart(r) <= LargerOf(0, FillLen(r) - Window)
<1> DEFINE n == InputLen[r]
           m == LargerOf(0, n - Window - Page)
<1>1. n \in Nat /\ Page \in Nat /\ Window \in Nat /\ FillLen(r) \in Nat /\ FillLen(r) >= n
  BY QueuesAssumption DEF FillLen, LargerOf
<1>2. m \in Nat /\ m <= LargerOf(0, FillLen(r) - Window)
  BY <1>1 DEF LargerOf
<1>3. CASE windowed
  <2>1. WinStart(r) = AlignDown(m)
    BY <1>3, Zenon DEF WinStart
  <2> HIDE DEF m
  <2>2. WinStart(r) \in Int /\ WinStart(r) <= m
    BY <1>2, <2>1, AlignDownBounds
  <2>3. LargerOf(0, FillLen(r) - Window) \in Int
    BY <1>1 DEF LargerOf
  <2> QED
    BY <1>2, <2>2, <2>3
<1>4. CASE ~windowed
  BY <1>1, <1>4 DEF WinStart, LargerOf
<1> QED
  BY <1>3, <1>4, Zenon

\* Eviction during decode leaves the window of the step it precedes alone: it
\* works with the output length the last processed result has left, and the
\* committed length is never behind that.
THEOREM EvictionSparesWindow ==
  ASSUME NEW r \in Reqs, swaFrom[r] \in Nat, len[r] \in Nat, out[r] \in Nat, steps[r] \in Nat,
         len[r] >= InputLen[r] + out[r] - 1,
         swaFrom[r] <= LargerOf(0, len[r] - Window)
  PROVE  EvictedUpTo(r) <= LargerOf(0, len[r] + 1 - Window)
<1> DEFINE e == InputLen[r] + out[r] - 1 - Window - Page
           m == LargerOf(swaFrom[r], e)
<1>1. InputLen[r] \in Nat /\ Page \in Nat /\ Window \in Nat
  BY QueuesAssumption, Zenon
<1>2. m \in Int /\ m <= LargerOf(0, len[r] + 1 - Window) /\ swaFrom[r] <= LargerOf(0, len[r] + 1 - Window)
  BY <1>1 DEF LargerOf
<1>3. LargerOf(0, len[r] + 1 - Window) \in Int
  BY <1>1 DEF LargerOf
<1>4. EvictedUpTo(r) = AlignDown(m) \/ EvictedUpTo(r) = swaFrom[r]
  BY Zenon DEF EvictedUpTo
<1> HIDE DEF m
<1> QED
  BY <1>2, <1>3, <1>4, AlignDownBounds
===============================================================================
