CONSTANTS
    k1 = k1
    k2 = k2
    NoKey = NoKey
    Key = {k1, k2}
    u1 = u1
    u2 = u2
    u3 = u3
    u4 = u4
    Uuid = {u1, u2, u3, u4}
SPECIFICATION Spec
SYMMETRY Symmetry
INVARIANTS
    TypeOK
    OneSystemPerKey
    GivenSystemIsFormatted
    OnlyRemainsRefuse
PROPERTIES
    KeepsItsSystem
