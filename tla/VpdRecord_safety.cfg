\* A field before and one behind n5 and n6, and n6 itself.
SPECIFICATION Spec
CONSTANTS
    Width <- MCWidth
    Rests <- MCRests
    Begins <- MCBegins
    Clean <- MCClean
    Settable = {"idNode", "n6", "mLocationCode"}
    Values = {"", " x", "yy"}
    Levels = {1, 2}
    Acs = {"AB"}
    ChildIds = {"", "c"}
    MaxCalls = 3
INVARIANTS
    TypeOK
    RoundTrip
    SizeFits
    LengthsExact
    BestOffer
    UniqueUserData
