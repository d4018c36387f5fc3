\* The heap is full in the end: the client may then only move and delete.
SPECIFICATION Spec
CONSTANTS
    MaxObj = 4
    Tree <- Trees
INVARIANTS
    TypeOK
    FreedOnce
    NoDangling
    LeaksAccounted
CHECK_DEADLOCK FALSE
