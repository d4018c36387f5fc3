\* Every path of at most five characters.
SPECIFICATION Spec
CONSTANTS
    Letter = {"a"}
    MaxLen = 5
    MaxCount = 2
CHECK_DEADLOCK FALSE
INVARIANT
    SomeCommentHolds
