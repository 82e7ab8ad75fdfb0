\* A verdict set aside twice answers the next request.
SPECIFICATION Spec
CONSTANTS
    N = 2
    RepairCalls = 1
    HardCalls = 5
    MaxSteps = 1
    Tolerance = 0
    Extras = 0
    Calls = 4
    Extend = 1
    MaxBrakes = 1
    MaxConsults = 1
    Failures <- MCFailures
INVARIANTS VerdictIsForThisRequest
