SPECIFICATION LiveSpec
CONSTANTS
    Legacy = 3
    AdoptBatch = 2
    OneMount = TRUE
    MaxFrames = 5
    MaxFaults = 4
INVARIANTS
    NothingStranded
    AdoptedRowsCounted
    OverlapIsOneBatch
PROPERTIES
    AdoptedInOrder
    LegacyDelivered
