CONSTANT
    MaxSignals = 4
SPECIFICATION LiveSpec
INVARIANTS
    AssertionsHold
    NeverForgotten
PROPERTIES
    EventuallyRegistered
