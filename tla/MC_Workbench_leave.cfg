\* A person's leave to begin: the code does not have the property.
SPECIFICATION Spec
CONSTANTS
    Texts = {"a", "b"}
    Green = {"b"}
    Signatures = {"s"}
    MaxSteps = 2
    Budget = 2
    Tolerance = 1
    Retries = 1
    Experts = 1
    MaxExtras = 1
    StallLimit = 2
    MaxLoops = 2
    Procs = {p1, p2, p3}
    Limit = 2
    Ghosts = TRUE
    SuffixWindow = 90
    DefaultWindow = 60
    Reserve = 20
    Sizes = {11, 25}
    Summaries = {5, 41}
    MaxFailures = 3
    MaxRetries = 3
    MaxEntries = 5
    Phases = 2
    Modes = {0, 1}
    Topics = {"t1", "t2"}
    MaxTurns = 2
    Pieces = 2
    CheckIds = {"c1", "c2"}
    Kills = 1
    CheckCount = 2
    Asks = 2
    Copies = 1
    SoftWall = 1
    WallStep = 1
    SoftCalls = 1
    CallStep = 1
    Patience = 1
    Launches = 3
    Questions = 3
    Late = 3
    Stations = {"architect", "pm", "maintainer"}
    Nrs = {1}
    Consults = 4
    Restarts = 1
    Iterations = 3
    RepairRounds = 2
    Lines = 2
    Commands = 2
    Slots = 2
    MaxWrites = 2
    Failures = {"f", "g"}
    Helpers = {"architect-advisor", "ui-reviewer"}
    Facts = {"router", "contract"}
    MaxCalls = 2
    Together = 2
    Edits = 1
    Boots = 2
    Features = {"f", "g"}
    MaxTalk = 1
    MaxTerminal = 2
    Managers = 1
    Tries = 2
    Wanted = {"f"}
    MaxPhases = 2
    MaxMoves = 3
    Views = {"list", "plan", "work", "files", "board", "detail"}
    Cards = 2
    Files = 2
    Progress = 1
    Flight = 2
    Reserved = {"main"}
    Seats = 2
    MaxRounds = 2
    MaxAttempt = 2
    Repairs = 1
    Marks = {"m"}
    Deliveries = 1
    Begins = 2
    MaxTries = 2
    Rehearsals = 1
    Reworks = 1
    Patterns = {"wide", "narrow", "all"}
    Invocations = {"pull", "push"}
    TooWide = {"all"}
    Consequential = {"push"}
    Barred = {"pull"}
    Sources = {"project", "user"}
    Writings = 2
INVARIANT YesBeginsWork
