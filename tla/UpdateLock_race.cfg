\* Not one system call fails, and still two writers come in.
SPECIFICATION Spec
CONSTANTS
    p1 = p1
    p2 = p2
    p3 = p3
    w1 = w1
    w2 = w2
    r1 = r1
    NoProc = NoProc
    Proc = {p1, p2, p3}
    Env = {w1, w2, r1}
    ReadOnly = {r1}
    Owner <- OneEach
    Borrowed = {}
    ClosedStdin = {}
    Faults = {}
INVARIANT
    MultiProcessSafety
CHECK_DEADLOCK FALSE
