\* Two updaters, a C++ reader and a C reader.
SPECIFICATION Spec
CONSTANTS
    sys = sys
    a = a
    b = b
    NoRow = NoRow
    SysId = sys
    Id = {sys, a, b}
    RowsOf <- MCRows
    u = u
    v = v
    Env = {u, v, r}
    ReadOnly = {r}
    CReader = {c}
SYMMETRY Updaters
INVARIANTS
    TypeOK
    SnapshotRead
    NoDanglingChild
    OwnGap
PROPERTIES
    ReadsAtomically
