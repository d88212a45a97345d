SPECIFICATION FairSpec
CONSTANTS
    Readers = {r1, r2}
    NumFiles = 2
    QueueSize = 1
    MaxEdits = 1
CHECK_DEADLOCK FALSE
INVARIANTS
    DrainAccounts
    Complete
    CauseReported
    ReadersJoined
PROPERTY EndsOrStrands
