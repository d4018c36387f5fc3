\* Every failure may happen; p3 was started with descriptor 0 closed.
SPECIFICATION FairSpec
CONSTANTS
    p1 = p1
    p2 = p2
    p3 = p3
    w1 = w1
    w2 = w2
    r1 = r1
    NoProc = NoProc
    Proc = {p1, p2, p3}
    Env = {w1, w2, r1}
    ReadOnly = {r1}
    Owner <- OneEach
    Borrowed = {w2}
    ClosedStdin = {p3}
    Faults = {"open", "wait", "init", "exit", "capi"}
INVARIANTS
    TypeOK
    HolderHasKernelLock
    TableWhenReady
    LockHasHolder
PROPERTIES
    OpenTerminates
    ImplementsService
