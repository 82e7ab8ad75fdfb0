CONSTANTS
    c1 = c1
    c2 = c2
    Clerks = {c1, c2}
    MaxIdle = 2
    Faults = {"overlap"}
    MaxStarts = 2
    MaxStops = 2
    MaxProgress = 1
    MaxSpawns = 8
SPECIFICATION Spec
PROPERTY StoppedStaysDown
CHECK_DEADLOCK FALSE
