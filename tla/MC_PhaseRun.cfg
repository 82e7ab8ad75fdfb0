CONSTANTS
    NumPhases = 2
    NumBatches = 2
    Modes = {TRUE, FALSE}
    Faults = {"kill", "throw", "block", "exception", "pause", "humanStop", "retry"}
    MaxRuns = 3
SPECIFICATION Spec
INVARIANTS EarlierPhasesRecorded DoneMeansAllReady TasksArriveFresh
CHECK_DEADLOCK FALSE
