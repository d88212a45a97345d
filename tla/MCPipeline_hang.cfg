SPECIFICATION Spec
CONSTANTS
    w1 = w1
    w2 = w2
    Producers = {w1, w2}
    Consumers = {c1, c2}
    QueueSize = 1
    BatchSize = 1
    Tokens = {1}
    Known = {1}
    Plans <- TwoPlans
    Windows <- OneWindowEach
    PlanTokens <- SharedToken
    Chunk <- TwoChunks
CHECK_DEADLOCK FALSE
INVARIANT JoinTerminates
