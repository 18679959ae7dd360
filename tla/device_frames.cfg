SPECIFICATION Spec
CONSTANTS
    Devs = {d1, d2, d3}
    MaxFd = 3
    MaxCount = 4
    MAX_DEVICE_FRAMES = 3
    NULL = NULL
CHECK_DEADLOCK FALSE
INVARIANT FramesMapped
