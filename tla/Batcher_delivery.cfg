SPECIFICATION DeliverySpec
CONSTANTS
    QueueSize = 1
    BatchSize = 1
    FlushPct = 0
    CacheMax = 2
    MaxFrames = 2
    MaxFaults = 2
PROPERTIES
    EventuallyDelivered
    CacheFreed
