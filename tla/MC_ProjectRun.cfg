CONSTANTS
    c1 = c1
    c2 = c2
    Clerks = {c1, c2}
    MaxIdle = 1
    Faults = {"restart", "overlap"}
    MaxStarts = 2
    MaxStops = 1
    MaxProgress = 1
    MaxSpawns = 3
SPECIFICATION FairSpec
INVARIANT SecondEngineIsRaced
PROPERTIES DueEngineComes EveryEngineEnds
CHECK_DEADLOCK FALSE
