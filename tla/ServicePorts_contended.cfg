CONSTANTS
    s1 = s1
    s2 = s2
    Session = {s1, s2}
    Role <- SyncupStage
    MaxPort = 8
    Outlives = {"tunnel"}
SPECIFICATION Spec
INVARIANTS
    OwnDaemons
