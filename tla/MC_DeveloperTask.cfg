\* The life of one developer task: graph, driver, architect, tester, person.
SPECIFICATION Spec
CONSTANTS
    N = 2
    RepairCalls = 1
    HardCalls = 4
    MaxSteps = 1
    Tolerance = 0
    Extras = 0
    Calls = 3
    Extend = 1
    MaxBrakes = 1
    MaxConsults = 1
    Failures <- MCFailures
INVARIANTS ReadyMeansChecked NoBatchIsLost
PROPERTIES Settles
