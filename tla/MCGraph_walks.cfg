SPECIFICATION Spec
CONSTANTS
    Ids = {1, 2, 3, 4}
    EdgeTables <- MCTables
    Queries <- MCQueries
    Depths = {0, 4, 6}
    Caps = {0, 1, 2, 5}
INVARIANTS
    Sound
    Complete
    Capped
    ShortestFirst
CHECK_DEADLOCK FALSE
