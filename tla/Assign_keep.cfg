SPECIFICATION Spec
CHECK_DEADLOCK FALSE
CONSTANTS
    Sinks = {"a"}
    Owner = "a"
    Shas = {"x"}
    MaxChanges = 1
    MaxFaults = 1
PROPERTIES
    KeepsCatalogues
