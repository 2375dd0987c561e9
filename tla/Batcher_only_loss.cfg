SPECIFICATION Spec
CONSTANTS
    QueueSize = 2
    BatchSize = 2
    FlushPct = 0
    CacheMax = 1
    MaxFrames = 4
    MaxFaults = 0
INVARIANTS
    EnqueueIsTheOnlyLoss
