SPECIFICATION StopSpec
CONSTANTS
    QueueSize = 2
    BatchSize = 1
    FlushPct = 100
    CacheMax = 1
    MaxFrames = 2
    MaxFaults = 2
PROPERTIES
    StopTerminates
