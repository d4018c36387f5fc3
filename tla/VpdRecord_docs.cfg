\* User data, children with and without an id, and values of two widths.
SPECIFICATION Spec
CONSTANTS
    Width <- MCWidth
    Rests <- MCRests
    Begins <- MCBegins
    Clean <- MCClean
    Settable = {"idNode"}
    Values = {" x", "yy"}
    Levels = {1, 2}
    Acs = {"AB"}
    ChildIds = {"", "c"}
    MaxCalls = 3
INVARIANT
    PackAsDescribed
