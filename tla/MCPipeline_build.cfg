SPECIFICATION FairSpec
CONSTANTS
    w1 = w1
    w2 = w2
    Producers = {w1}
    Consumers = {c1, c2}
    QueueSize = 1
    BatchSize = 1
    Tokens = {1, 2}
    Known = {1}
    Plans <- TwoPlans
    Windows <- OneWindowEach
    PlanTokens <- TwoTokens
    Chunk <- OneChunk
CHECK_DEADLOCK FALSE
INVARIANTS
    DrainAccounts
    Complete
    CauseReported
    DigestedOnce
PROPERTY EndsOrStrands
