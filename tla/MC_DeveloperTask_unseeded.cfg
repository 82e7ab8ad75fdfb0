\* A task of one item, which the run begins without its batch.
SPECIFICATION Spec
CONSTANTS
    N = 1
    RepairCalls = 1
    HardCalls = 4
    MaxSteps = 2
    Tolerance = 0
    Extras = 0
    Calls = 3
    Extend = 1
    MaxBrakes = 1
    MaxConsults = 1
    Failures <- MCFailures
INVARIANTS ReadyCoversEveryBatch
