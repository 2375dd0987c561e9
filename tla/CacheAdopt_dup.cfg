SPECIFICATION Spec
CONSTANTS
    Legacy = 2
    AdoptBatch = 1
    OneMount = FALSE
    MaxFrames = 2
    MaxFaults = 1
INVARIANTS
    ResumesWithoutDuplicates
