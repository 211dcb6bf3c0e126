CONSTANTS
    c1 = c1
    c2 = c2
    c3 = c3
    Conn = {c1, c2, c3}
    Honest = {c1, c2}
    Flights = 2
    MaxFiles = 2
SPECIFICATION LiveSpec
INVARIANTS
    TableConsistent
    NoMutualWait
PROPERTIES
    HonestFinishes
