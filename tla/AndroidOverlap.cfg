SPECIFICATION Spec
CONSTANTS
    Connects = {c1, c2}
    MaxSockets = 2
    MaxFrames = 1
INVARIANT ConnectedHasSocket
PROPERTY EndIsReported
CHECK_DEADLOCK FALSE
