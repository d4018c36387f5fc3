\* Every call may fail.  The client may stop, and may be stopped for good.
SPECIFICATION FairSpec
CONSTANTS
    a = a
    b = b
    x = x
    Job = {a, b, x}
    NoJob = NoJob
    ByExecCmd = {x}
    Lines <- TwoLines
    Cap = 1
    Words <- WordCounts
    Unwritten = TRUE
    Faults = {"access", "pipe", "fork", "fdopen", "fclose", "read", "null", "dup2", "exec"}
CHECK_DEADLOCK FALSE
INVARIANTS
    TypeOK
    Orphans
    NoFdLeak
    OutputComplete
PROPERTIES
    CallsReturn
