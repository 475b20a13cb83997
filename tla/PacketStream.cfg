SPECIFICATION Spec
CONSTANTS
    MaxPayload = 24
    Texts <- MCTexts
    Versions = {1, 2}
    SendSizes = {25, 1000}
    ReceiveSizes = {7, 25, 1000}
    MaxPackets = 2
INVARIANTS TypeOK CodecsAgree
PROPERTIES ImplementsQueue NothingIsStuck
CHECK_DEADLOCK FALSE
