SPECIFICATION Spec
CONSTANTS
    Procs = {p1, p2, p3}
    Pids = {1, 2}
    Ids = {0, 1}
    Objs = {o1, o2}
    Handles = {h1}
    Sizes = {1}
    SharedArgs = {1}
    FreshIds = TRUE
    MaxFaults = 0
    WordSize = 2
    PageSize = 4
    MarkerStruct = 3
    MaxSize = 7
    NULL = NULL
    MAP_FAILED = MAP_FAILED
    ANON = ANON
CHECK_DEADLOCK FALSE
SYMMETRY Symmetry
INVARIANTS NamesInv ClaimsAreOwned 
PROPERTIES UnlinksOnlyDeadOrOwn ImplementsRegistry
