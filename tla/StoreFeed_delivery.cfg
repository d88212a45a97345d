SPECIFICATION Spec
CONSTANTS
    Identities = {i1, i2}
    MaxGen = 3
INVARIANTS
    RowsOfAccepted
    NeverPretends
