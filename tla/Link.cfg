SPECIFICATION LiveSpec
CONSTANTS
    BatchMax = 2
    Poison = {2}
    RawSerial = FALSE
    Blobs = 1
    SeqMod = 2
    Conns = {1, 2}
    MaxFrames = 3
    MaxFaults = 2
INVARIANTS
    TypeOK
    AckedIsKept
    NoGaps
    RepliesMatch
PROPERTIES
    Delivers
    AllSent
