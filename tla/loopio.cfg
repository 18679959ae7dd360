SPECIFICATION FairSpec
CONSTANTS
    Bytes = 5
    Capacity = 2
    WriteSizes = {1, 3}
    ReadSizes = {1, 3}
    MaxFaults = 1
CHECK_DEADLOCK FALSE
INVARIANTS TypeOK StreamIntact CountsTrue ShortMeansEof SocketsNeverKill
PROPERTY LoopsEnd
