CONSTANTS
    r1 = r1
    Receivers = {r1}
    Nobody = Nobody
    MaxSent = 12
SPECIFICATION FairSpec
PROPERTIES ImplementsMailbox EveryMessageArrives
CHECK_DEADLOCK FALSE
