\* Every path of at most five characters.
SPECIFICATION Spec
CONSTANTS
    Letter = {"a"}
    MaxLen = 5
    MaxCount = 4
CHECK_DEADLOCK FALSE
INVARIANTS
    InBounds
    DropsOneDir
    ReadsAsDescribed
