CONSTANTS
    Timeout = 3
    ServerTimeout = 2
SPECIFICATION Spec
CHECK_DEADLOCK FALSE
INVARIANT NoDurationUnderflow
