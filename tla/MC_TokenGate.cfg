CONSTANTS
    Callers = {c1, c2, c3, c4}
    NoSetting = NoSetting
    Settings <- MCSettings
    DefaultLimit <- MCDefault
    MinLimit <- MCMin
    MaxLimit <- MCMax
    MaxCalls = 2
SPECIFICATION FairSpec
INVARIANTS Accounting NoLostWakeup
PROPERTY QueuedGetsIn
CHECK_DEADLOCK FALSE
