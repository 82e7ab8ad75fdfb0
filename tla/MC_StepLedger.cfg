CONSTANTS
    p1 = p1
    p2 = p2
    l1 = l1
    l2 = l2
    Processes = {p1, p2}
    Loops = {l1}
    N = 2
    Inputs = {"a", "b"}
    MaxSteps = 1
SPECIFICATION FairSpec
INVARIANTS ReportsAreTrue
PROPERTY VerifiedIsNotRunAgain
