SPECIFICATION FairSpec
CONSTANTS
    Watchers = {w1}
    Contents = {"a", "b", "c"}
    Hint <- HintOf
    NoHint = NoHint
    QuietPolls = 1
    ValidateEvery = 3
    MaxEdits = 3
    MaxBuilds = 2
CHECK_DEADLOCK FALSE
INVARIANTS
    NeverRegresses
    BackstopBounded
PROPERTY EventuallyCurrent
