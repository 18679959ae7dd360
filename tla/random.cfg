SPECIFICATION Spec
CONSTANTS
    MaxLength = 3
    MaxCalls = 3
CHECK_DEADLOCK FALSE
INVARIANTS TypeOK OneSource NoDescriptorLeft
