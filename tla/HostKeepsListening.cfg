SPECIFICATION Spec
CONSTANTS
    Handles = {h1, h2}
    INVALID_SOCKET = INVALID_SOCKET
    MaxBacklog = 1
    MaxInbox = 1
INVARIANT
    HostKeepsListening
