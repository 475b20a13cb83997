SPECIFICATION Spec
CONSTANTS
    Relocks = {"throws", "hangs", "proceeds"}
    Slots = {r1, r2}
    MaxChanges = 2
INVARIANTS TypeOK HandleIsLive BusyMeansOperation
PROPERTIES BusyEnds PageCatchesUp
CHECK_DEADLOCK FALSE
