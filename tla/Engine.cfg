SPECIFICATION EngineSpec
CONSTANTS
  Pages = {p1, p2, p3}
  PhysPage <- MCPhysPage
  PS = 1
  MaxBlocks = 1
  PoolIdx = {i1}
  MaxConc = 1
  DecodeChunks = 1
  MaxChunks = 1
  Reqs = {r1}
  LutTruth = TRUE
  OwnerRelease = TRUE
  LocalFix = TRUE
  Zero = Zero
  Blank = Blank
SYMMETRY MCSymmetry
INVARIANTS
  EngineTypeOK
  BlockAccounting
  ResidentInOwnBlock
  ResidentBytesAreItsOwn
PROPERTY SelectionKeepsItsBlocks
