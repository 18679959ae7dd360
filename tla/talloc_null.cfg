SPECIFICATION Spec
CONSTANTS
    Chunks = {c1, c2, c3, c4, c5}
    NULL = NULL
    MaxCalls = 40
    Patterns = {"null reference"}
SYMMETRY Symmetry
CHECK_DEADLOCK FALSE
INVARIANT OwnedSurvive
