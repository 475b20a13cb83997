SPECIFICATION Spec
CONSTANTS
    Connects = {c1}
    MaxSockets = 3
    MaxFrames = 2
INVARIANTS TypeOK NoSocketIsLeaked StreamIsIntact FrameHasItsMetadata QuietPageIsRight
CHECK_DEADLOCK FALSE
