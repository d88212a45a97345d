SPECIFICATION Spec
CONSTANTS
    Publishers = {p1}
    Collectors = {c1}
    Levels = {"L0", "L1", "L2", "L3"}
    None = None
    Torn = Torn
    Whole = Whole
    MaxGen = 2
    MaxFaults = 1
    MaxOutages = 1
INVARIANTS
    HeadWhole
    AckDurable
    NoGapAfterOutage
    CheckHonest
    FailClosed
