\* Every failure of the writers; one row has been corrupt from the start.
SPECIFICATION FairSpec
CONSTANTS
    w1 = w1
    w2 = w2
    r1 = r1
    c1 = c1
    k1 = k1
    k2 = k2
    good = good
    bad = bad
    CallsOf <- WhoCallsWhat
    Tables <- OneCorrupt
    Conn = {w1, w2, c1, r1}
    ReadOnly = {r1}
    CApi = {c1}
    Key = {k1, k2}
    Row = {good, bad}
    Corrupt = {bad}
    NoRow = NoRow
    NoCall = NoCall
    NoConn = NoConn
    NoJournal = NoJournal
    Torn = Torn
    Faults <- Failures
INVARIANTS
    TypeOK
    LeakAccounted
PROPERTIES
    ActsAtomically
    CallsReturn
