SPECIFICATION Spec
CONSTANTS
    Heads = {h1, h2}
    Nodes = {n1, n2, n3}
    NULL = NULL
CHECK_DEADLOCK FALSE
INVARIANT CheckRejectsDamage
