SPECIFICATION Spec
CONSTANTS
    Writers = {w1, w2}
    Readers = {}
    Collectors = {c1}
    NoProc = NoProc
    Jobs <- ScheduledJobs
    MaxGen = 2
    MaxFaults = 2
    OpenRetries = 2
SYMMETRY WriterSymmetry
INVARIANTS
    HeadComplete
    NoUnrecordedGap
    StagingKept
    ManifestTruthful
PROPERTY Implements
