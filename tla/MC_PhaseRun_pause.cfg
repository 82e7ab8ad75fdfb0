CONSTANTS
    NumPhases = 2
    NumBatches = 1
    Modes = {TRUE}
    Faults = {"pause"}
    MaxRuns = 2
SPECIFICATION Spec
INVARIANT PausedTaskIsTakenUp
CHECK_DEADLOCK FALSE
