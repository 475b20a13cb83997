SPECIFICATION Spec
CONSTANTS
    Handles = {h1, h2, h3}
    INVALID_SOCKET = INVALID_SOCKET
    MaxBacklog = 1
    MaxInbox = 1
SYMMETRY HandleSymmetry
INVARIANTS
    TypeOK
    StoppedIsQuiet
    StatusMatchesConnection
    ConnectionsAreHeld
    JoinedWorkerIsNotBlocked
    GivingUpIsReported
PROPERTY
    KeepsLifecycle
