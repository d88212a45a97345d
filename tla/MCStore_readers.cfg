SPECIFICATION FairSpec
CONSTANTS
    Writers = {w1}
    Readers = {r1}
    Collectors = {c1}
    NoProc = NoProc
    Jobs <- ReclaimAll
    MaxGen = 2
    MaxFaults = 1
    OpenRetries = 2
INVARIANTS
    BoundImmutable
    EarlyPinProtects
    RetriesFollowHead
    PruneConverges
PROPERTIES
    LockFreed
    OpenEnds
