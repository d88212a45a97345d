SPECIFICATION Spec
CONSTANTS
    Writers = {w1}
    Readers = {r1}
    Collectors = {c1}
    NoProc = NoProc
    Jobs <- ReclaimAll
    MaxGen = 2
    MaxFaults = 0
    OpenRetries = 2
INVARIANT PinProtects
