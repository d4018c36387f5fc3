\* A C reader alone with an updater.
SPECIFICATION Spec
CONSTANTS
    sys = sys
    a = a
    b = b
    NoRow = NoRow
    SysId = sys
    Id = {sys, a, b}
    RowsOf <- MCRows
    u = u
    v = v
    Env = {u}
    ReadOnly = {}
    CReader = {c}
INVARIANT
    EntireTree
CHECK_DEADLOCK FALSE
