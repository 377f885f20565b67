SPECIFICATION Spec
CONSTANTS
  i1 = i1
  i2 = i2
  i3 = i3
  PhysPage <- MCPhysPage
  Pages = {p1, p2}
  PS = 2
  MaxBlocks = 1
  PoolIdx = {i1, i2}
  FirstSlots <- MCSlots2
  MaxConc = 2
  MaxRunning = 2
  DecodeChunks = 4
  MaxChunks = 2
  Reqs = {r1, r2}
  PrefillLen <- MCPrefill1
  KMax = 2
  LastKeep = 1
  Interval = 2
  LutTruth = FALSE
  OwnerRelease = FALSE
  NoRowRelease = FALSE
  SafeRelease = FALSE
  LocalFix = FALSE
  Async = TRUE
  NoIdx = NoIdx
  Zero = Zero
  Blank = Blank
SYMMETRY MCReqSymmetry
INVARIANTS
  TypeOK
  PublishedRowIsOccupants
PROPERTIES
  UsesEngineByContract
