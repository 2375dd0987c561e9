SPECIFICATION Spec
CONSTANTS
    QueueSize = 3
    BatchSize = 2
    FlushPct = 60
    CacheMax = 2
    MaxFrames = 4
    MaxFaults = 1
INVARIANTS
    TypeOK
    NoSilentLoss
    OneLine
    ResendsExplained
    RowsTracked
    FlushOffline
    CountersAccount
    IndInv
PROPERTIES
    InOrder
    Delivers
