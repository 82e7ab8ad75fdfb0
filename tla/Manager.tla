--------------------------------- MODULE Manager ---------------------------------
(***************************************************************************)
(* How the requirement becomes a plan (manager.ts, the first part of        *)
(* projectRunner.ts, GraphFactory.ts, Node.ts, confirm.ts).  A turn of the  *)
(* project manager confirms functions, which are refined to tasks and       *)
(* planned at once; between the turns a person is asked.  The columns of    *)
(* sys_project and the cards outlive the process, the dialogue does not.    *)
(* The same dialogue can be held at a terminal (pm-cli.ts): then refinement *)
(* and plan come once, at its end.                                          *)
(* A call of a model is an action and may fail; what it says is any value   *)
(* its schema admits.                                                       *)
(***************************************************************************)
EXTENDS Naturals, FiniteSets

CONSTANTS
    Features,    \* what there is to confirm
    MaxTalk,     \* answers in a dialogue of the engine, 30 in the code
    MaxTerminal, \* turns of one at the terminal, 30 too
    Managers,    \* project managers of the team
    Tries        \* processes

VARIABLES
    clarified,   \* sys_project.clarified_req
    planned,     \* sys_project.dev_plan
    slips,       \* sys_confirm: for which process and manager the card of a turn is
    pm,          \* the process: the state of its graph, and where it is
    agreed       \* what the dialogue has confirmed and refined, and whether answers fit

vars == <<clarified, planned, slips, pm, agreed>>

NoPlan == [of |-> {}, ui |-> "none", usable |-> FALSE, final |-> FALSE]
Plans  == [of : SUBSET Features, ui : {"none", "given", "default"},
           usable : BOOLEAN, final : BOOLEAN]

\* The channels of the graph; each process and each manager has its own.
Empty == [functions |-> {}, tasks |-> {}, plan |-> NoPlan, ui |-> "none", flag |-> FALSE]

NoCard == [of |-> <<0, 0>>, open |-> FALSE]

TypeOK ==
    /\ clarified \subseteq Features
    /\ planned \in Plans
    /\ slips \in [0..(MaxTalk - 1) -> [of : (0..Tries) \X (0..Managers), open : BOOLEAN]]
    /\ pm \in [at : {"off", "chat", "features", "ui", "dispose", "planner", "asked",
                     "waiting", "writing", "building", "failed"},
               face : {"graph", "content"},
               graph : [functions : SUBSET Features, tasks : SUBSET Features, plan : Plans,
                        ui : {"none", "given", "default"}, flag : BOOLEAN],
               fresh : SUBSET Features, turns : 0..(MaxTalk + MaxTerminal), who : 1..Managers,
               tries : 0..Tries]
    /\ agreed \in [confirmed : SUBSET Features, refined : SUBSET Features, fits : BOOLEAN]

Init ==
    /\ clarified = {} /\ planned = NoPlan
    /\ slips = [t \in 0..(MaxTalk - 1) |-> NoCard]
    /\ pm = [at |-> "off", face |-> "graph", graph |-> Empty, fresh |-> {}, turns |-> 0, who |-> 1, tries |-> 0]
    /\ agreed = [confirmed |-> {}, refined |-> {}, fits |-> TRUE]

-----------------------------------------------------------------------------
(* The process *)

Forgotten == [confirmed |-> {}, refined |-> {}, fits |-> agreed.fits]

\* runProject: a plan with phases in the column is built at once, by whoever
\* it was written; otherwise the first manager begins its dialogue.
Start ==
    /\ pm.at \in {"off", "failed"} /\ pm.tries < Tries
    /\ pm' = [at |-> IF planned.usable THEN "building" ELSE "chat", face |-> "graph",
              graph |-> IF planned.usable THEN [Empty EXCEPT !.plan = planned] ELSE Empty,
              fresh |-> {}, turns |-> 0, who |-> 1, tries |-> pm.tries + 1]
    /\ agreed' = Forgotten
    /\ UNCHANGED <<clarified, planned, slips>>

\* pm-cli: the dialogue alone, whatever is in the columns.
ByTerminal ==
    /\ pm.at \in {"off", "failed"} /\ pm.tries < Tries
    /\ pm' = [at |-> "chat", face |-> "content", graph |-> Empty, fresh |-> {}, turns |-> 0,
              who |-> 1, tries |-> pm.tries + 1]
    /\ agreed' = Forgotten
    /\ UNCHANGED <<clarified, planned, slips>>

OfGraph == pm.face = "graph"

AtWork == pm.at \notin {"off", "building", "failed"}

Die ==
    /\ AtWork
    /\ pm' = [pm EXCEPT !.at = "off", !.graph = Empty, !.fresh = {}]
    /\ agreed' = Forgotten
    /\ UNCHANGED <<clarified, planned, slips>>

\* settleOnFailure: a turn that throws ends the run.
Throws ==
    /\ pm' = [pm EXCEPT !.at = "failed", !.graph = Empty, !.fresh = {}]
    /\ agreed' = Forgotten
    /\ UNCHANGED <<clarified, planned, slips>>

\* retryStructured has tried five times, invokeWithTimeout has cancelled the call.
CallFails == pm.at \in {"chat", "features", "dispose", "planner"} /\ Throws

\* requiresFeatureRepair
requiresFeatureRepair(done, new) == done /\ new = {} /\ pm.graph.functions = {}

\* saveClarifiedReq and saveDevPlan: a write that fails is only logged.
Saved(column, value) == {column, value}

\* Whether a turn goes on to the refinement, and the node that follows each; the
\* graph ends where a person is asked.
afterPm(functions) == functions # {}
DEFAULT_EDGES == [pm |-> "dispose", dispose |-> "planner", planner |-> "asked"]

\* The end of pmNode: the list is written, and afterPm leads to the refinement;
\* at the terminal what is confirmed is kept until the dialogue is done (absorb).
Confirm(new, done, ui) ==
    LET functions == pm.graph.functions \cup new
        refine    == IF OfGraph THEN afterPm(functions) ELSE done
    IN  /\ pm' = [pm EXCEPT !.graph.functions = functions, !.graph.flag = done,
                            !.graph.ui = ui, !.fresh = {},
                            !.at = IF refine THEN DEFAULT_EDGES.pm ELSE "asked"]
        /\ IF functions = {} \/ ~OfGraph THEN UNCHANGED clarified
           ELSE clarified' \in Saved(clarified, functions)
        /\ agreed' = [agreed EXCEPT !.confirmed = @ \cup new]
        /\ UNCHANGED <<planned, slips>>

\* The answer is read; a manager that is done has to have a UI decision.
Read(new, done, given) ==
    LET ui == IF given THEN "given" ELSE pm.graph.ui
    IN  IF done /\ ui = "none"
        THEN /\ pm' = [pm EXCEPT !.at = "ui", !.fresh = new]
             /\ UNCHANGED <<clarified, planned, slips, agreed>>
        ELSE Confirm(new, done, ui)

\* pmNode: the manager is asked.
Chat ==
    /\ pm.at = "chat"
    /\ \E new \in SUBSET Features, done \in BOOLEAN, given \in BOOLEAN :
           IF requiresFeatureRepair(done, new)
           THEN /\ pm' = [pm EXCEPT !.at = "features"]
                /\ UNCHANGED <<clarified, planned, slips, agreed>>
           ELSE Read(new, done, given)

\* The first repair: without functions the turn throws.
FeaturesRepaired ==
    /\ pm.at = "features"
    /\ \E new \in SUBSET Features, given \in BOOLEAN :
           IF new = {} THEN Throws ELSE Read(new, TRUE, given)

\* The second repair: one that gives no decision, or fails, is made up for.
UiRepaired ==
    /\ pm.at = "ui"
    /\ \E more \in SUBSET Features, given \in BOOLEAN :
           Confirm(pm.fresh \cup more, TRUE, IF given THEN "given" ELSE "default")

\* Mutant: the channel holds the tasks of the last turn.
DisposeReplacing ==
    /\ pm.at = "dispose" /\ OfGraph
    /\ \E tasks \in SUBSET pm.graph.functions :
           /\ pm' = [pm EXCEPT !.at = "planner", !.graph.functions = {}, !.graph.tasks = tasks]
           /\ agreed' = [agreed EXCEPT !.refined = @ \cup tasks]
    /\ UNCHANGED <<clarified, planned, slips>>

\* disposeNode: the functions become tasks, as many as the model names; the
\* channel of the tasks is added to, that of the functions is emptied.
Dispose ==
    /\ pm.at = "dispose" /\ OfGraph
    /\ \E tasks \in SUBSET pm.graph.functions :
           /\ pm' = [pm EXCEPT !.at = DEFAULT_EDGES.dispose, !.graph.functions = {},
                               !.graph.tasks = @ \cup tasks]
           /\ agreed' = [agreed EXCEPT !.refined = @ \cup tasks]
    /\ UNCHANGED <<clarified, planned, slips>>

\* generatePmContent, third part: without a task it throws.
Refine ==
    /\ pm.at = "dispose" /\ ~OfGraph
    /\ \E tasks \in SUBSET pm.graph.functions :
           IF tasks = {} THEN Throws
           ELSE /\ pm' = [pm EXCEPT !.at = "planner", !.graph.tasks = tasks]
                /\ agreed' = [agreed EXCEPT !.refined = tasks]
                /\ UNCHANGED <<clarified, planned, slips>>

\* assemblePmPlan: the phases are the model's, tasks and UI decision are not.
assemblePmPlan(usable) ==
    [of |-> pm.graph.tasks, ui |-> pm.graph.ui, usable |-> usable, final |-> pm.graph.flag]

\* plannerNode
Planner ==
    /\ pm.at = "planner" /\ OfGraph
    /\ \E usable \in BOOLEAN :
           /\ pm' = [pm EXCEPT !.at = DEFAULT_EDGES.planner,
                               !.graph.plan = assemblePmPlan(usable)]
           /\ planned' \in Saved(planned, assemblePmPlan(usable))
    /\ UNCHANGED <<clarified, slips, agreed>>

\* assertPlanCore: a plan without phases throws.
PlanContent ==
    /\ pm.at = "planner" /\ ~OfGraph
    /\ \E usable \in BOOLEAN :
           IF ~usable THEN Throws
           ELSE /\ pm' = [pm EXCEPT !.at = "writing", !.graph.plan = assemblePmPlan(usable)]
                /\ UNCHANGED <<clarified, planned, slips, agreed>>

\* writeBackToDb, after the files: a write that fails leaves out what follows it.
WriteBack ==
    /\ pm.at = "writing"
    /\ \/ UNCHANGED <<clarified, planned>>
       \/ clarified' = pm.graph.functions /\ planned' \in Saved(planned, pm.graph.plan)
    /\ pm' = [pm EXCEPT !.at = "off", !.graph = Empty]
    /\ agreed' = Forgotten
    /\ UNCHANGED slips

\* The dialogue of a manager is over, by its word or by the number of turns:
\* a plan with phases is built, without one the next manager is tried.
Conclude ==
    /\ pm.at = "asked" /\ OfGraph /\ (pm.graph.flag \/ pm.turns = MaxTalk)
    /\ IF pm.graph.plan.usable
       THEN /\ pm' = [pm EXCEPT !.at = "building"]
            /\ UNCHANGED agreed
       ELSE IF pm.who < Managers
            THEN /\ pm' = [pm EXCEPT !.at = "chat", !.who = @ + 1, !.turns = 0,
                                     !.graph = Empty]
                 /\ agreed' = Forgotten
            ELSE /\ pm' = [pm EXCEPT !.at = "failed", !.graph = Empty]
                 /\ agreed' = Forgotten
    /\ UNCHANGED <<clarified, planned, slips>>

\* HttpQuestioner.ask: the card is named by the project and the turn, and one
\* that exists is left as it is.
Ask ==
    /\ pm.at = "asked" /\ OfGraph /\ ~pm.graph.flag /\ pm.turns < MaxTalk
    /\ pm' = [pm EXCEPT !.at = "waiting"]
    /\ slips' = IF slips[pm.turns] = NoCard
                THEN [slips EXCEPT ![pm.turns] = [of |-> <<pm.tries, pm.who>>, open |-> TRUE]]
                ELSE slips
    /\ UNCHANGED <<clarified, planned, agreed>>

\* It polls until the card is settled, and the answer begins the next turn.
Answered ==
    /\ pm.at = "waiting" /\ ~slips[pm.turns].open
    /\ pm' = [pm EXCEPT !.at = "chat", !.turns = @ + 1]
    /\ agreed' = [agreed EXCEPT !.fits = @ /\ slips[pm.turns].of = <<pm.tries, pm.who>>]
    /\ UNCHANGED <<clarified, planned, slips>>

\* A green project is finalised turn by turn without a card.
AutoConfirm ==
    /\ pm.at = "asked" /\ OfGraph /\ ~pm.graph.flag /\ pm.turns < MaxTalk
    /\ pm' = [pm EXCEPT !.at = "chat", !.turns = @ + 1]
    /\ UNCHANGED <<clarified, planned, slips, agreed>>

\* At the terminal, or from the script of answers: the last turn may not be asked after.
TerminalAnswers ==
    /\ pm.at = "asked" /\ ~OfGraph
    /\ IF pm.turns + 1 < MaxTerminal
       THEN /\ pm' = [pm EXCEPT !.at = "chat", !.turns = @ + 1]
            /\ UNCHANGED <<clarified, planned, slips, agreed>>
       ELSE Throws

-----------------------------------------------------------------------------
(* The people *)

\* Somebody answers the card of a turn, or thirty minutes are over.
Settle(t) ==
    /\ slips[t].open
    /\ slips' = [slips EXCEPT ![t].open = FALSE]
    /\ UNCHANGED <<clarified, planned, pm, agreed>>

Stay == UNCHANGED vars

Next ==
    \/ Start \/ ByTerminal \/ Die \/ CallFails
    \/ Chat \/ FeaturesRepaired \/ UiRepaired \/ Dispose \/ Refine \/ Planner \/ PlanContent
    \/ WriteBack \/ Conclude \/ Ask \/ Answered \/ AutoConfirm \/ TerminalAnswers
    \/ \E t \in 0..(MaxTalk - 1) : Settle(t)
    \/ Stay

Spec == Init /\ [][Next]_vars

-----------------------------------------------------------------------------
(***************************************************************************)
(* A plan that comes out of a finished dialogue is whole: it holds every    *)
(* task refined in any of its turns, and says how the pages are to be, be   *)
(* it by default.  So does the plan in the column.                          *)
(***************************************************************************)
FinalPlanIsWhole ==
    /\ pm.at = "building" /\ pm.graph.flag =>
           pm.graph.plan.of = agreed.refined /\ pm.graph.plan.ui # "none"
    /\ planned.final => planned.ui # "none"

(***************************************************************************)
(* Not so in the code: only a plan the dialogue has finished is built       *)
(* (Node.ts:183: dev_plan is written after the manager is done).  Each turn *)
(* with a new function writes one, a process that starts then builds it,    *)
(* and so does the thirtieth turn.                                          *)
(***************************************************************************)
OnlyFinalPlansAreBuilt == pm.at = "building" => pm.graph.plan.final

(***************************************************************************)
(* Not so: what the dialogue has confirmed stays in clarified_req, to which *)
(* each turn is to add (manager.ts:388).  The functions are emptied by the  *)
(* refinement, and the next turn writes its own only.                       *)
(***************************************************************************)
ConfirmedAreListed ==
    pm.at = "building" /\ pm.graph.flag => clarified \in {{}, agreed.confirmed}

(***************************************************************************)
(* Not so: the answer to a question of the manager is one to that question. *)
(* The names of the cards are the same in every process and for every       *)
(* manager, and a card that is settled answers for the next at once.        *)
(***************************************************************************)
AnswersAreToTheQuestion == agreed.fits

(***************************************************************************)
(* Not so: every function confirmed is in the final plan; that refinement   *)
(* keeps one task for each is said to the model only (manager.ts:199).      *)
(***************************************************************************)
EveryFunctionIsPlanned ==
    pm.at = "building" /\ pm.graph.flag => agreed.confirmed \subseteq pm.graph.plan.of
=============================================================================
