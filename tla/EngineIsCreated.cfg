SPECIFICATION Spec
CONSTANTS
    Relocks = {"throws"}
    Slots = {r1}
    MaxChanges = 1
INVARIANT EngineIsCreated
CHECK_DEADLOCK FALSE
