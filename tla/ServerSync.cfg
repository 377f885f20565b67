SPECIFICATION Spec
CONSTANTS
  i1 = i1
  i2 = i2
  i3 = i3
  PhysPage <- MCPhysPage
  Pages = {p1, p2, p3}
  PS = 2
  MaxBlocks = 3
  PoolIdx = {i1, i2, i3}
  FirstSlots <- MCSlots3
  MaxConc = 3
  MaxRunning = 2
  DecodeChunks = 2
  MaxChunks = 2
  Reqs = {r1, r2, r3}
  PrefillLen <- MCPrefill1
  KMax = 2
  LastKeep = 1
  Interval = 2
  LutTruth = TRUE
  OwnerRelease = TRUE
  NoRowRelease = FALSE
  SafeRelease = FALSE
  LocalFix = TRUE
  Async = FALSE
  NoIdx = NoIdx
  Zero = Zero
  Blank = Blank
SYMMETRY MCSymmetry
INVARIANTS
  ReadsOwnKV
  MetaMatchesCount
  DecodedChunksStayInDecodeRegion
PROPERTIES
  LiveRequestsKeepTheirLut
  PublishedChunksAreResident
