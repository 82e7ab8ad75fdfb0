CONSTANTS
    NumPhases = 2
    NumBatches = 3
    Modes = {FALSE}
    Faults = {"block", "exception", "humanStop", "reject"}
    MaxRuns = 1
SPECIFICATION FairSpec
INVARIANTS SomebodyWillAct EndedTasksAreRecorded
PROPERTY EveryRunEnds
CHECK_DEADLOCK FALSE
