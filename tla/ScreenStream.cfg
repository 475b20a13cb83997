SPECIFICATION Spec
CONSTANTS
    Modes <- MCModes
    Views = {"v1", "v2"}
    MaxFrames = 2
    MaxQueue = 2
    MaxInbox = 2
    MaxCalls = 1
INVARIANT TypeOK
PROPERTIES DrawIsRight InputIsRead
