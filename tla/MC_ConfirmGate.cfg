CONSTANTS
    Engines = {"e1", "e2"}
    People = {"p1", "p2"}
    Sweepers = {"sweep"}
    Answers = {"yes", "no"}
    Default = "yes"
SPECIFICATION FairSpec
INVARIANTS PermitsComeFromPeople
PROPERTIES ImplementsDecision AskersAreServed
CHECK_DEADLOCK FALSE
