CONSTANTS
    Daemons = {d1, d2}
    Ctl = ctl
    MaxStarts = 2
    MaxKeys = 3
SPECIFICATION LiveSpec
INVARIANTS
    KeysBelongTogether
    SessionsServed
    NothingLeftBehind
PROPERTIES
    ProcessEnds
CHECK_DEADLOCK FALSE
