SPECIFICATION Spec
CONSTANTS
    shiftLeft = shiftLeft
    shiftRight = shiftRight
    mute = mute
    Keys = {shiftLeft, shiftRight, mute}
    VirtualKey <- MCVirtualKey
    Texts = {"t1", "t2"}
    SurfaceWidth = 4
    FrameWidths = {6}
    DesktopLeft = 0
    DesktopWidth = 6
    MaxInFlight = 2
INVARIANTS
    TypeOK
    KeysAreReleased
    TapsAreReleased
    PointerIsOnDesktop
    LatestTextIsOnHost
