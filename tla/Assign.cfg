SPECIFICATION LiveSpec
CHECK_DEADLOCK FALSE
CONSTANTS
    Sinks = {"a", "b"}
    Owner = "a"
    Shas = {"x"}
    MaxChanges = 2
    MaxFaults = 1
INVARIANTS
    RememberedHeld
    FramesAsBefore
    StaleIsTold
PROPERTIES
    CatalogueArrives
    StatusConverges
