SPECIFICATION Spec
CONSTANTS
    BatchMax = 1
    Poison = {}
    RawSerial = FALSE
    Blobs = 1
    SeqMod = 2
    Conns = {1, 2}
    MaxFrames = 1
    MaxFaults = 1
PROPERTIES
    CloseIsNoOutage
