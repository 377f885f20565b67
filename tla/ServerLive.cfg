SPECIFICATION FairSpec
CONSTANTS
  i1 = i1
  i2 = i2
  i3 = i3
  PhysPage <- MCPhysPage
  Pages = {p1, p2}
  PS = 2
  MaxBlocks = 2
  PoolIdx = {i1, i2}
  FirstSlots <- MCSlots2
  MaxConc = 2
  MaxRunning = 2
  DecodeChunks = 2
  MaxChunks = 2
  Reqs = {r1, r2}
  PrefillLen <- MCPrefill1
  KMax = 2
  LastKeep = 1
  Interval = 2
  LutTruth = TRUE
  OwnerRelease = TRUE
  NoRowRelease = FALSE
  SafeRelease = FALSE
  LocalFix = TRUE
  Async = TRUE
  NoIdx = NoIdx
  Zero = Zero
  Blank = Blank
INVARIANTS
  NoPhantomRow
PROPERTIES
  PublishedChunksAreResident
  RunningRequestsGetPublished
