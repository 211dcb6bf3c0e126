CONSTANTS
    MaxRequests = 3
    Step = 2
    MinRemain = 1
    MaxImage = 6
SPECIFICATION LoopLiveSpec
INVARIANTS
    OneAnswerEach
    SizesOrdered
PROPERTIES
    PoliteIsAnswered
    SpaceIsRelieved
