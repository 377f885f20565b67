SPECIFICATION FairQueuesSpec
CONSTANTS
  r1 = r1  r2 = r2  r3 = r3
  Reqs = {r1, r2, r3}
  InputLen <- MCInput
  MaxNew <- MCMaxNew
  QuickFinish = FALSE
  Page = 2
  Window = 2
  FullPages = 8
  SwaPages = 6
  NumSlots = 3
  MaxRunning = 2
  Reserved = 1
  ClipMaxNew = 8
INVARIANTS QueuesTypeOK PoolsAccounted RunningWithinLimit WindowHasSwaSlots QueuesDisjoint NewRequestsFit
PROPERTIES EveryRequestEnds
