CONSTANTS
    c1 = c1
    c2 = c2
    k1 = k1
    k2 = k2
    Nobody = Nobody
    Stray = Stray
    Conn = {c1, c2}
    Key = {k1, k2}
    CleanupRaises = TRUE
SPECIFICATION LiveSpec
INVARIANTS
    TypeOK
    ActiveSessionsKnown
    StopReleasesAll
PROPERTIES
    StopEnds
    DiskIsGivenBack
