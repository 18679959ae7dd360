SPECIFICATION FairSpec
CONSTANTS
    Heads = {h1, h2}
    Nodes = {n1, n2, n3}
    NULL = NULL
CHECK_DEADLOCK FALSE
INVARIANTS TypeOK RingSound VisitsAll LoopInside NeverAborts CheckFindsDamage
PROPERTY LoopEnds
