SPECIFICATION Spec
CONSTANTS
    Callers = {c1, c2}
    MaxServers = 2
    MaxDials = 2
INVARIANTS
    TypeOK
    NoServerIsLeaked
    StoppedIsOffline
    ConnectionsAreRegistered
    HeldIdIsOwn
    ConnectedHasConnection
    ErrorIsExplained
PROPERTY
    WatchersEnd
