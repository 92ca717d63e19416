SPECIFICATION Spec
CONSTANTS
    Letters = {"a"}
    MaxDelta = 2
    MaxDeltas = 2
CHECK_DEADLOCK FALSE
INVARIANT EveryTokenArrives
