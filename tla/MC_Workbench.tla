------------------------------ MODULE MC_Workbench ------------------------------
(***************************************************************************)
(* The parts around the phase, each on its own: which one runs is chosen at *)
(* the start, and the variables of the others stay idle.                    *)
(***************************************************************************)
EXTENDS Naturals, FiniteSets

CONSTANTS
    Texts, Green, Signatures, MaxSteps, Budget, Tolerance, Retries, Experts, MaxExtras,
    StallLimit, MaxLoops, Procs, Limit, Ghosts, SuffixWindow, DefaultWindow,
    Reserve, Sizes, Summaries, MaxFailures, MaxRetries, MaxEntries, Phases, Modes,
    Topics, MaxTurns, Pieces, CheckIds, Kills, CheckCount, Asks, Copies, SoftWall,
    WallStep, SoftCalls, CallStep, Patience, Launches, Questions, Late, Stations, Nrs,
    Consults, Restarts, Iterations, RepairRounds, Lines, Commands, Slots, MaxWrites,
    Failures, Helpers, Facts, MaxCalls, Together, Edits, Boots, Features, MaxTalk,
    MaxTerminal, Managers, Tries, Wanted, MaxPhases, MaxMoves, Views, Cards, Files,
    Progress, Flight, Reserved, Seats, MaxRounds, MaxAttempt, Repairs, Marks,
    Deliveries, Begins, MaxTries, Rehearsals, Reworks, Patterns, Invocations, TooWide,
    Consequential, Barred, Sources, Writings

VARIABLES
    part,
    loop, file, memo, cache, experts, answer, loops, asked,
    os, entry, tool, alarms, stops, cleanup, open,
    window, hist, turn, request, tracking, count, fails, since,
    mode, phase, at, thread, disk, cards, bus, kills,
    written, mail, late, copies, seen, job, sent,
    alone, book, asks, run, starts,
    noted, ids, wait, out, back, plan, wishes, heard, consulted, boots,
    duty, stage, minds, alive, trusted, dialog, touched, measured, result, did,
    setting, kept, entries, code, command, services, ended, begins,
    tree, row, at_work, said, begun, life,
    clarified, planned, slips, pm, agreed,
    column, list, sheet, pen,
    site, page, desk, flying,
    bench, shelf, toolMode, burnt,
    gate, upkeep, lost, papers, verdict,
    works, store, running, rehearsal, probe, baseline, told, known,
    standing, pending, writings, confirmMode

\* one window from the settings, one from the model's name, one by default
Settings == [pro : {0, 40}, all : {0}, env : {0}, suffix : BOOLEAN]
\* the files of the two tasks of an engineer; "main" is the engine's own
FilesOf == [j1 |-> <<"p", "q">>, j2 |-> <<"p", "main">>]

\* what the checks of a task ask for: a command, a contract with a preparation and two
\* assertions, one whose name nobody gives
Order == <<"build", "list", "typo">>
Intent == [build |-> [kind |-> "compile", files |-> {"package.build"}],
           list  |-> [kind |-> "contract", path |-> TRUE, auth |-> TRUE, resets |-> TRUE,
                      setup |-> <<[uses |-> {}, gives |-> "id"]>>, uses |-> {"id"},
                      asserts |-> <<[says |-> {"each", "minLength"}, each |-> {"equals"}]>>],
           typo  |-> [kind |-> "contract", path |-> TRUE, auth |-> FALSE, resets |-> FALSE,
                      setup |-> <<>>, uses |-> {"id"}, asserts |-> <<>>]]

\* a pattern and a narrower one, and the pattern of everything
Fits == [wide |-> {"pull", "push"}, narrow |-> {"push"}, all |-> {"pull", "push"}]


Loop == INSTANCE ToolLoop
Proc == INSTANCE Processes
Ctx == INSTANCE Context
Arch == INSTANCE Split
Acc == INSTANCE Acceptance
Brk == INSTANCE Brake
Con == INSTANCE Consult
Tag == INSTANCE TestAgent
Box == INSTANCE Sandbox
Asst == INSTANCE Assistants
Mgr == INSTANCE Manager
Edit == INSTANCE Editors
Page == INSTANCE Pages
Eng == INSTANCE Engineers
Del == INSTANCE Delivery
Prb == INSTANCE Probe
Rule == INSTANCE Rules

LoopVars ==
    <<loop, file, memo, cache, experts, answer, loops, asked>>
ProcVars ==
    <<os, entry, tool, alarms, stops, cleanup, open>>
CtxVars ==
    <<window, hist, turn, request, tracking, count, fails, since>>
ArchVars ==
    <<mode, phase, at, thread, disk, cards, bus, kills>>
AccVars ==
    <<written, mail, late, copies, seen, job, sent>>
BrkVars ==
    <<alone, book, asks, run, starts>>
ConVars ==
    <<noted, ids, wait, out, back, plan, wishes, heard, consulted, boots>>
TagVars ==
    <<duty, stage, minds, alive, trusted, dialog, touched, measured, result, did>>
BoxVars ==
    <<setting, kept, entries, code, command, services, ended, begins>>
AsstVars ==
    <<tree, row, at_work, said, begun, life>>
MgrVars ==
    <<clarified, planned, slips, pm, agreed>>
EditVars ==
    <<column, list, sheet, pen>>
PageVars ==
    <<site, page, desk, flying>>
EngVars ==
    <<bench, shelf, toolMode, burnt>>
DelVars ==
    <<gate, upkeep, lost, papers, verdict>>
PrbVars ==
    <<works, store, running, rehearsal, probe, baseline, told, known>>
RuleVars ==
    <<standing, pending, writings, confirmMode>>

IdleLoop ==
    /\ loop = "idle" /\ file = "idle" /\ memo = "idle" /\ cache = "idle"
    /\ experts = "idle" /\ answer = "idle" /\ loops = "idle" /\ asked = "idle"
IdleProc ==
    /\ os = "idle" /\ entry = "idle" /\ tool = "idle" /\ alarms = "idle"
    /\ stops = "idle" /\ cleanup = "idle" /\ open = "idle"
IdleCtx ==
    /\ window = "idle" /\ hist = "idle" /\ turn = "idle" /\ request = "idle"
    /\ tracking = "idle" /\ count = "idle" /\ fails = "idle" /\ since = "idle"
IdleArch ==
    /\ mode = "idle" /\ phase = "idle" /\ at = "idle" /\ thread = "idle"
    /\ disk = "idle" /\ cards = "idle" /\ bus = "idle" /\ kills = "idle"
IdleAcc ==
    /\ written = "idle" /\ mail = "idle" /\ late = "idle" /\ copies = "idle"
    /\ seen = "idle" /\ job = "idle" /\ sent = "idle"
IdleBrk ==
    /\ alone = "idle" /\ book = "idle" /\ asks = "idle" /\ run = "idle"
    /\ starts = "idle"
IdleCon ==
    /\ noted = "idle" /\ ids = "idle" /\ wait = "idle" /\ out = "idle" /\ back = "idle"
    /\ plan = "idle" /\ wishes = "idle" /\ heard = "idle" /\ consulted = "idle"
    /\ boots = "idle"
IdleTag ==
    /\ duty = "idle" /\ stage = "idle" /\ minds = "idle" /\ alive = "idle"
    /\ trusted = "idle" /\ dialog = "idle" /\ touched = "idle" /\ measured = "idle"
    /\ result = "idle" /\ did = "idle"
IdleBox ==
    /\ setting = "idle" /\ kept = "idle" /\ entries = "idle" /\ code = "idle"
    /\ command = "idle" /\ services = "idle" /\ ended = "idle" /\ begins = "idle"
IdleAsst ==
    /\ tree = "idle" /\ row = "idle" /\ at_work = "idle" /\ said = "idle"
    /\ begun = "idle" /\ life = "idle"
IdleMgr ==
    /\ clarified = "idle" /\ planned = "idle" /\ slips = "idle" /\ pm = "idle"
    /\ agreed = "idle"
IdleEdit ==
    /\ column = "idle" /\ list = "idle" /\ sheet = "idle" /\ pen = "idle"
IdlePage ==
    /\ site = "idle" /\ page = "idle" /\ desk = "idle" /\ flying = "idle"
IdleEng ==
    /\ bench = "idle" /\ shelf = "idle" /\ toolMode = "idle" /\ burnt = "idle"
IdleDel ==
    /\ gate = "idle" /\ upkeep = "idle" /\ lost = "idle" /\ papers = "idle"
    /\ verdict = "idle"
IdlePrb ==
    /\ works = "idle" /\ store = "idle" /\ running = "idle" /\ rehearsal = "idle"
    /\ probe = "idle" /\ baseline = "idle" /\ told = "idle" /\ known = "idle"
IdleRule ==
    /\ standing = "idle" /\ pending = "idle" /\ writings = "idle" /\ confirmMode = "idle"

Init ==
    \/ /\ part = "loop" /\ Loop!Init
       /\ IdleProc /\ IdleCtx /\ IdleArch /\ IdleAcc
       /\ IdleBrk /\ IdleCon /\ IdleTag /\ IdleBox
       /\ IdleAsst /\ IdleMgr /\ IdleEdit /\ IdlePage
       /\ IdleEng /\ IdleDel /\ IdlePrb /\ IdleRule
    \/ /\ part = "processes" /\ Proc!Init
       /\ IdleLoop /\ IdleCtx /\ IdleArch /\ IdleAcc
       /\ IdleBrk /\ IdleCon /\ IdleTag /\ IdleBox
       /\ IdleAsst /\ IdleMgr /\ IdleEdit /\ IdlePage
       /\ IdleEng /\ IdleDel /\ IdlePrb /\ IdleRule
    \/ /\ part = "context" /\ Ctx!Init
       /\ IdleLoop /\ IdleProc /\ IdleArch /\ IdleAcc
       /\ IdleBrk /\ IdleCon /\ IdleTag /\ IdleBox
       /\ IdleAsst /\ IdleMgr /\ IdleEdit /\ IdlePage
       /\ IdleEng /\ IdleDel /\ IdlePrb /\ IdleRule
    \/ /\ part = "split" /\ Arch!Init
       /\ IdleLoop /\ IdleProc /\ IdleCtx /\ IdleAcc
       /\ IdleBrk /\ IdleCon /\ IdleTag /\ IdleBox
       /\ IdleAsst /\ IdleMgr /\ IdleEdit /\ IdlePage
       /\ IdleEng /\ IdleDel /\ IdlePrb /\ IdleRule
    \/ /\ part = "acceptance" /\ Acc!Init
       /\ IdleLoop /\ IdleProc /\ IdleCtx /\ IdleArch
       /\ IdleBrk /\ IdleCon /\ IdleTag /\ IdleBox
       /\ IdleAsst /\ IdleMgr /\ IdleEdit /\ IdlePage
       /\ IdleEng /\ IdleDel /\ IdlePrb /\ IdleRule
    \/ /\ part = "brake" /\ Brk!Init
       /\ IdleLoop /\ IdleProc /\ IdleCtx /\ IdleArch
       /\ IdleAcc /\ IdleCon /\ IdleTag /\ IdleBox
       /\ IdleAsst /\ IdleMgr /\ IdleEdit /\ IdlePage
       /\ IdleEng /\ IdleDel /\ IdlePrb /\ IdleRule
    \/ /\ part = "consult" /\ Con!Init
       /\ IdleLoop /\ IdleProc /\ IdleCtx /\ IdleArch
       /\ IdleAcc /\ IdleBrk /\ IdleTag /\ IdleBox
       /\ IdleAsst /\ IdleMgr /\ IdleEdit /\ IdlePage
       /\ IdleEng /\ IdleDel /\ IdlePrb /\ IdleRule
    \/ /\ part = "agent" /\ Tag!Init
       /\ IdleLoop /\ IdleProc /\ IdleCtx /\ IdleArch
       /\ IdleAcc /\ IdleBrk /\ IdleCon /\ IdleBox
       /\ IdleAsst /\ IdleMgr /\ IdleEdit /\ IdlePage
       /\ IdleEng /\ IdleDel /\ IdlePrb /\ IdleRule
    \/ /\ part = "sandbox" /\ Box!Init
       /\ IdleLoop /\ IdleProc /\ IdleCtx /\ IdleArch
       /\ IdleAcc /\ IdleBrk /\ IdleCon /\ IdleTag
       /\ IdleAsst /\ IdleMgr /\ IdleEdit /\ IdlePage
       /\ IdleEng /\ IdleDel /\ IdlePrb /\ IdleRule
    \/ /\ part = "assistants" /\ Asst!Init
       /\ IdleLoop /\ IdleProc /\ IdleCtx /\ IdleArch
       /\ IdleAcc /\ IdleBrk /\ IdleCon /\ IdleTag
       /\ IdleBox /\ IdleMgr /\ IdleEdit /\ IdlePage
       /\ IdleEng /\ IdleDel /\ IdlePrb /\ IdleRule
    \/ /\ part = "manager" /\ Mgr!Init
       /\ IdleLoop /\ IdleProc /\ IdleCtx /\ IdleArch
       /\ IdleAcc /\ IdleBrk /\ IdleCon /\ IdleTag
       /\ IdleBox /\ IdleAsst /\ IdleEdit /\ IdlePage
       /\ IdleEng /\ IdleDel /\ IdlePrb /\ IdleRule
    \/ /\ part = "editors" /\ Edit!Init
       /\ IdleLoop /\ IdleProc /\ IdleCtx /\ IdleArch
       /\ IdleAcc /\ IdleBrk /\ IdleCon /\ IdleTag
       /\ IdleBox /\ IdleAsst /\ IdleMgr /\ IdlePage
       /\ IdleEng /\ IdleDel /\ IdlePrb /\ IdleRule
    \/ /\ part = "pages" /\ Page!Init
       /\ IdleLoop /\ IdleProc /\ IdleCtx /\ IdleArch
       /\ IdleAcc /\ IdleBrk /\ IdleCon /\ IdleTag
       /\ IdleBox /\ IdleAsst /\ IdleMgr /\ IdleEdit
       /\ IdleEng /\ IdleDel /\ IdlePrb /\ IdleRule
    \/ /\ part = "engineers" /\ Eng!Init
       /\ IdleLoop /\ IdleProc /\ IdleCtx /\ IdleArch
       /\ IdleAcc /\ IdleBrk /\ IdleCon /\ IdleTag
       /\ IdleBox /\ IdleAsst /\ IdleMgr /\ IdleEdit
       /\ IdlePage /\ IdleDel /\ IdlePrb /\ IdleRule
    \/ /\ part = "delivery" /\ Del!Init
       /\ IdleLoop /\ IdleProc /\ IdleCtx /\ IdleArch
       /\ IdleAcc /\ IdleBrk /\ IdleCon /\ IdleTag
       /\ IdleBox /\ IdleAsst /\ IdleMgr /\ IdleEdit
       /\ IdlePage /\ IdleEng /\ IdlePrb /\ IdleRule
    \/ /\ part = "probe" /\ Prb!Init
       /\ IdleLoop /\ IdleProc /\ IdleCtx /\ IdleArch
       /\ IdleAcc /\ IdleBrk /\ IdleCon /\ IdleTag
       /\ IdleBox /\ IdleAsst /\ IdleMgr /\ IdleEdit
       /\ IdlePage /\ IdleEng /\ IdleDel /\ IdleRule
    \/ /\ part = "rules" /\ Rule!Init
       /\ IdleLoop /\ IdleProc /\ IdleCtx /\ IdleArch
       /\ IdleAcc /\ IdleBrk /\ IdleCon /\ IdleTag
       /\ IdleBox /\ IdleAsst /\ IdleMgr /\ IdleEdit
       /\ IdlePage /\ IdleEng /\ IdleDel /\ IdlePrb

Next ==
    \/ /\ part = "loop" /\ Loop!Next
       /\ UNCHANGED <<part,
             ProcVars, CtxVars, ArchVars, AccVars, BrkVars, ConVars, TagVars, BoxVars,
             AsstVars, MgrVars, EditVars, PageVars, EngVars, DelVars, PrbVars, RuleVars>>
    \/ /\ part = "processes" /\ Proc!Next
       /\ UNCHANGED <<part,
             LoopVars, CtxVars, ArchVars, AccVars, BrkVars, ConVars, TagVars, BoxVars,
             AsstVars, MgrVars, EditVars, PageVars, EngVars, DelVars, PrbVars, RuleVars>>
    \/ /\ part = "context" /\ Ctx!Next
       /\ UNCHANGED <<part,
             LoopVars, ProcVars, ArchVars, AccVars, BrkVars, ConVars, TagVars, BoxVars,
             AsstVars, MgrVars, EditVars, PageVars, EngVars, DelVars, PrbVars, RuleVars>>
    \/ /\ part = "split" /\ Arch!Next
       /\ UNCHANGED <<part,
             LoopVars, ProcVars, CtxVars, AccVars, BrkVars, ConVars, TagVars, BoxVars,
             AsstVars, MgrVars, EditVars, PageVars, EngVars, DelVars, PrbVars, RuleVars>>
    \/ /\ part = "acceptance" /\ Acc!Next
       /\ UNCHANGED <<part,
             LoopVars, ProcVars, CtxVars, ArchVars, BrkVars, ConVars, TagVars, BoxVars,
             AsstVars, MgrVars, EditVars, PageVars, EngVars, DelVars, PrbVars, RuleVars>>
    \/ /\ part = "brake" /\ Brk!Next
       /\ UNCHANGED <<part,
             LoopVars, ProcVars, CtxVars, ArchVars, AccVars, ConVars, TagVars, BoxVars,
             AsstVars, MgrVars, EditVars, PageVars, EngVars, DelVars, PrbVars, RuleVars>>
    \/ /\ part = "consult" /\ Con!Next
       /\ UNCHANGED <<part,
             LoopVars, ProcVars, CtxVars, ArchVars, AccVars, BrkVars, TagVars, BoxVars,
             AsstVars, MgrVars, EditVars, PageVars, EngVars, DelVars, PrbVars, RuleVars>>
    \/ /\ part = "agent" /\ Tag!Next
       /\ UNCHANGED <<part,
             LoopVars, ProcVars, CtxVars, ArchVars, AccVars, BrkVars, ConVars, BoxVars,
             AsstVars, MgrVars, EditVars, PageVars, EngVars, DelVars, PrbVars, RuleVars>>
    \/ /\ part = "sandbox" /\ Box!Next
       /\ UNCHANGED <<part,
             LoopVars, ProcVars, CtxVars, ArchVars, AccVars, BrkVars, ConVars, TagVars,
             AsstVars, MgrVars, EditVars, PageVars, EngVars, DelVars, PrbVars, RuleVars>>
    \/ /\ part = "assistants" /\ Asst!Next
       /\ UNCHANGED <<part,
             LoopVars, ProcVars, CtxVars, ArchVars, AccVars, BrkVars, ConVars, TagVars,
             BoxVars, MgrVars, EditVars, PageVars, EngVars, DelVars, PrbVars, RuleVars>>
    \/ /\ part = "manager" /\ Mgr!Next
       /\ UNCHANGED <<part,
             LoopVars, ProcVars, CtxVars, ArchVars, AccVars, BrkVars, ConVars, TagVars,
             BoxVars, AsstVars, EditVars, PageVars, EngVars, DelVars, PrbVars, RuleVars>>
    \/ /\ part = "editors" /\ Edit!Next
       /\ UNCHANGED <<part,
             LoopVars, ProcVars, CtxVars, ArchVars, AccVars, BrkVars, ConVars, TagVars,
             BoxVars, AsstVars, MgrVars, PageVars, EngVars, DelVars, PrbVars, RuleVars>>
    \/ /\ part = "pages" /\ Page!Next
       /\ UNCHANGED <<part,
             LoopVars, ProcVars, CtxVars, ArchVars, AccVars, BrkVars, ConVars, TagVars,
             BoxVars, AsstVars, MgrVars, EditVars, EngVars, DelVars, PrbVars, RuleVars>>
    \/ /\ part = "engineers" /\ Eng!Next
       /\ UNCHANGED <<part,
             LoopVars, ProcVars, CtxVars, ArchVars, AccVars, BrkVars, ConVars, TagVars,
             BoxVars, AsstVars, MgrVars, EditVars, PageVars, DelVars, PrbVars, RuleVars>>
    \/ /\ part = "delivery" /\ Del!Next
       /\ UNCHANGED <<part,
             LoopVars, ProcVars, CtxVars, ArchVars, AccVars, BrkVars, ConVars, TagVars,
             BoxVars, AsstVars, MgrVars, EditVars, PageVars, EngVars, PrbVars, RuleVars>>
    \/ /\ part = "probe" /\ Prb!Next
       /\ UNCHANGED <<part,
             LoopVars, ProcVars, CtxVars, ArchVars, AccVars, BrkVars, ConVars, TagVars,
             BoxVars, AsstVars, MgrVars, EditVars, PageVars, EngVars, DelVars, RuleVars>>
    \/ /\ part = "rules" /\ Rule!Next
       /\ UNCHANGED <<part,
             LoopVars, ProcVars, CtxVars, ArchVars, AccVars, BrkVars, ConVars, TagVars,
             BoxVars, AsstVars, MgrVars, EditVars, PageVars, EngVars, DelVars, PrbVars>>

Spec == Init /\ [][Next]_<<part,
                          LoopVars, ProcVars, CtxVars, ArchVars, AccVars, BrkVars,
                          ConVars, TagVars, BoxVars, AsstVars, MgrVars, EditVars,
                          PageVars, EngVars, DelVars, PrbVars, RuleVars>>

TypeOK ==
    CASE part = "loop" -> Loop!TypeOK
      [] part = "processes" -> Proc!TypeOK
      [] part = "context" -> Ctx!TypeOK
      [] part = "split" -> Arch!TypeOK
      [] part = "acceptance" -> Acc!TypeOK
      [] part = "brake" -> Brk!TypeOK
      [] part = "consult" -> Con!TypeOK
      [] part = "agent" -> Tag!TypeOK
      [] part = "sandbox" -> Box!TypeOK
      [] part = "assistants" -> Asst!TypeOK
      [] part = "manager" -> Mgr!TypeOK
      [] part = "editors" -> Edit!TypeOK
      [] part = "pages" -> Page!TypeOK
      [] part = "engineers" -> Eng!TypeOK
      [] part = "delivery" -> Del!TypeOK
      [] part = "probe" -> Prb!TypeOK
      [] part = "rules" -> Rule!TypeOK

LoopKeepsContract == part = "loop" => Loop!LoopKeepsContract
StubsAreTrue == part = "loop" => Loop!StubsAreTrue
ExpertsAreAskedOnce == part = "loop" => Loop!ExpertsAreAskedOnce
NothingRunsUnseen == part = "processes" => Proc!NothingRunsUnseen
PairsStayTogether == part = "context" => Ctx!PairsStayTogether
BreakerHolds == part = "context" => Ctx!BreakerHolds
OneDeclaration == part = "split" => Arch!OneDeclaration
PiecesDoNotCollide == part = "split" => Arch!PiecesDoNotCollide
PassIsEarned == part = "acceptance" => Acc!PassIsEarned
OneAnswerPerRequest == part = "acceptance" => Acc!OneAnswerPerRequest
QuestionsInTurn == part = "brake" => Brk!QuestionsInTurn
RepliesFit == part = "consult" => Con!RepliesFit
NothingWithoutLeave == part = "agent" => Tag!NothingWithoutLeave
MeasuredNotClaimed == part = "agent" => Tag!MeasuredNotClaimed
OneReprieve == part = "agent" => Tag!OneReprieve
GreenIsClean == part = "sandbox" => Box!GreenIsClean
RepeatedIsCurrent == part = "assistants" => Asst!RepeatedIsCurrent
OncePerFailure == part = "assistants" => Asst!OncePerFailure
FinalPlanIsWhole == part = "manager" => Mgr!FinalPlanIsWhole
PlanStaysUsable == part = "editors" => Edit!PlanStaysUsable
GoneIsLeftAlone == part = "pages" => Page!GoneIsLeftAlone
EveryTaskIsReportedOnce == part = "engineers" => Eng!EveryTaskIsReportedOnce
NothingIsForgotten == part = "delivery" => Del!NothingIsForgotten
NoPassUnprepared == part = "probe" => Prb!NoPassUnprepared
AllowSparesDenies == [][part = "rules" => Rule!SparesDenies]_<<part, RuleVars>>

\* what the code does not have, see the README
EveryStubIsTrue == part = "loop" => Loop!EveryStubIsTrue
WriteTakesEffect == part = "loop" => Loop!WriteTakesEffect
OnlyWritesAreChanges == part = "loop" => Loop!OnlyWritesAreChanges
NothingOutlivesTheTask == part = "processes" => Proc!NothingOutlivesTheTask
KillsAreReal == part = "processes" => Proc!KillsAreReal
ChainsAreKept == part = "context" => Ctx!ChainsAreKept
YesBeginsWork == part = "split" => Arch!YesBeginsWork
AnswersFitQuestions == part = "split" => Arch!AnswersFitQuestions
IdsAreUnique == part = "split" => Arch!IdsAreUnique
AnsweredOrOverdue == part = "acceptance" => Acc!AnsweredOrOverdue
PassCoversAll == part = "acceptance" => Acc!PassCoversAll
ExtensionBuysWork == part = "brake" => Brk!ExtensionBuysWork
BrakeDoesNotKill == part = "brake" => Brk!BrakeDoesNotKill
EndedMeansStopping == part = "brake" => Brk!EndedMeansStopping
GuidanceIsHeard == part = "brake" => Brk!GuidanceIsHeard
RepliesFitForever == part = "consult" => Con!RepliesFitForever
InForceIsOnFile == part = "consult" => Con!InForceIsOnFile
FileIsKnown == part = "consult" => Con!FileIsKnown
DisciplineCanBeRead == part = "agent" => Tag!DisciplineCanBeRead
EveryQuestionIsPut == part = "agent" => Tag!EveryQuestionIsPut
PassIsMeasured == part = "agent" => Tag!PassIsMeasured
ChangedFilesAreTrue == part = "agent" => Tag!ChangedFilesAreTrue
RemindedOnce == part = "agent" => Tag!RemindedOnce
GreenHasNotWritten == part = "sandbox" => Box!GreenHasNotWritten
RemovalIsSeen == part = "sandbox" => Box!RemovalIsSeen
BlameIsJust == part = "sandbox" => Box!BlameIsJust
IsolationIsReal == part = "sandbox" => Box!IsolationIsReal
FirstIsCurrent == part = "assistants" => Asst!FirstIsCurrent
HashIsExact == part = "assistants" => Asst!HashIsExact
LabelsAreTrue == part = "assistants" => Asst!LabelsAreTrue
OnlyFinalPlansAreBuilt == part = "manager" => Mgr!OnlyFinalPlansAreBuilt
ConfirmedAreListed == part = "manager" => Mgr!ConfirmedAreListed
AnswersAreToTheQuestion == part = "manager" => Mgr!AnswersAreToTheQuestion
EveryFunctionIsPlanned == part = "manager" => Mgr!EveryFunctionIsPlanned
AddedStays == part = "editors" => Edit!AddedStays
DetailsSurvive == part = "editors" => Edit!DetailsSurvive
StackSurvives == part = "editors" => Edit!StackSurvives
GoalsStay == part = "editors" => Edit!GoalsStay
NumbersAreUnique == part = "editors" => Edit!NumbersAreUnique
TheDeadAreFound == part = "editors" => Edit!TheDeadAreFound
EveryPageIsQuiet == part = "pages" => Page!EveryPageIsQuiet
LeftIsLeftAlone == part = "pages" => Page!LeftIsLeftAlone
TextIsForTheCard == part = "pages" => Page!TextIsForTheCard
AnsweredStaysAway == part = "pages" => Page!AnsweredStaysAway
ContentIsOfTheFile == part = "pages" => Page!ContentIsOfTheFile
EditsAreKept == part = "pages" => Page!EditsAreKept
TasksGoForward == part = "pages" => Page!TasksGoForward
FailureLeavesNoTrace == part = "engineers" => Eng!FailureLeavesNoTrace
EngineFilesAreKept == part = "engineers" => Eng!EngineFilesAreKept
PatchesFitTheFile == part = "engineers" => Eng!PatchesFitTheFile
OneWriterPerFile == part = "engineers" => Eng!OneWriterPerFile
CleanedIsTrue == part = "delivery" => Del!CleanedIsTrue
PapersAreOfTheLastRun == part = "delivery" => Del!PapersAreOfTheLastRun
ShownAsPassed == part = "delivery" => Del!ShownAsPassed
FailedMeansAtFault == part = "delivery" => Del!FailedMeansAtFault
SettledIsWritten == part = "delivery" => Del!SettledIsWritten
GreenMeansAllRan == part = "probe" => Prb!GreenMeansAllRan
FailedAreListed == part = "probe" => Prb!FailedAreListed
BrokenIsNamed == part = "probe" => Prb!BrokenIsNamed
StartIsClean == part = "probe" => Prb!StartIsClean
OwnIsJudged == part = "probe" => Prb!OwnIsJudged
NothingIsLeft == part = "probe" => Prb!NothingIsLeft
DeniesHaveEffect == part = "rules" => Rule!DeniesHaveEffect
NoneIsShadowed == [][part = "rules" => Rule!SparesAll]_<<part, RuleVars>>
DeniedIsNotRun == part = "rules" => Rule!DeniedIsNotRun
=============================================================================
