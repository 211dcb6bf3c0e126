CONSTANTS
    s1 = s1
    s2 = s2
    Session = {s1, s2}
    Role <- WorkingStage
    MaxPort = 6
    Outlives = {"tunnel"}
SPECIFICATION LiveSpec
INVARIANTS
    TypeOK
    OwnUnlessClash
    NothingLeft
PROPERTIES
    StartReturns
