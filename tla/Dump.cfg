SPECIFICATION Spec
CONSTANTS
    NItems = 3
    BatchSize = 2
    Concurrency = 2
    NLayers = 3
    NHi = 1
    MaxPreempts = 1
    MaxFaults = 1
INVARIANTS
    DumpTypeOK
    DocumentsAreWrittenOnce
    MergedIsOwnWhenServed
    AnsweredAreComplete
    LayersAligned
