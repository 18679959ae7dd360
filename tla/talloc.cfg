SPECIFICATION Spec
CONSTANTS
    Chunks = {c1, c2, c3, c4, c5}
    NULL = NULL
    MaxCalls = 40
    Patterns = {}
SYMMETRY Symmetry
CHECK_DEADLOCK FALSE
INVARIANTS TypeOK NoFault ListsSound Rooted FreeResult OwnedSurvive UnlinkTakesOne ReportsTrue
