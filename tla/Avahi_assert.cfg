CONSTANT
    MaxSignals = 4
SPECIFICATION Spec
INVARIANTS
    CreateFindsNoRetry
