SPECIFICATION Spec
CONSTANTS
    Bytes <- MCBytes
    Letters = {"a", "b", "fn", "use", "RFC"}
    Digits = {"7", "0003"}
    Keywords = {"fn", "use"}
    PressIds = {"P1"}
    WindowSize = 3
    MaxToken = 2
    MaxName = 4
    MaxTarget = 2
    Paths = {1, 2, 3}
    KindOf <- MCKindOf
    Contents <- MCContents
    Lines <- MCLines
    Hint <- MCHint
    Absent = "absent"
    MaxGen = 3
INVARIANTS
    IncrementalIsRebuild
    LineageExact
    EstablishedCarried
    SeamsSeen
    TokensAreRuns
