SPECIFICATION Spec
CONSTANTS
    Legacy = 1
    AdoptBatch = 1
    OneMount = TRUE
    MaxFrames = 2
    MaxFaults = 1
INVARIANTS
    RunsWithCache
