--------------------------------- MODULE Editors ---------------------------------
(***************************************************************************)
(* The pages that write columns of sys_project which the engine writes too: *)
(* the list of functions (CreateProjectView.vue) and the plan with the      *)
(* techniques (ArchitectView.vue), with what they make of a column          *)
(* (utils/json.ts).  A page has read the row at some time; the list reads   *)
(* it again every four seconds, the plan never.  One page is open at a time.   *)
(* A function of the row is written out ("full"), a mere name ("bare") or   *)
(* missing; a phase is its number, its name and the goal that goes with it. *)
(***************************************************************************)
EXTENDS Naturals, Sequences

CONSTANTS
    Wanted,   \* names of functions
    MaxPhases,   \* phases of the engine's plan
    MaxMoves     \* actions of a person on the sheet

VARIABLES
    column,      \* the row of sys_project
    list,        \* the page of the functions
    sheet,       \* the page of the plan
    pen          \* the engine: whether it runs, and what it has written so far

vars == <<column, list, sheet, pen>>

None == [n \in Wanted |-> "none"]

Added    == 0
Renamed  == MaxPhases + 1
Unstated == 0                         \* no number, no goal

Phase    == [nr : 0..(MaxPhases + 1), name : 0..(MaxPhases + 1), goal : 0..MaxPhases]
Columns  == [req : [Wanted -> {"none", "bare", "full"}], modules : SUBSET Wanted]

Nothing == [req |-> None, modules |-> {}]
Closed  == [open |-> FALSE, features |-> {}, added |-> {}, base |-> None,
            coming |-> FALSE, reply |-> Nothing]
Folded  == [open |-> FALSE, orig |-> <<>>, names |-> <<>>, stack |-> "none", moves |-> 0]

TypeOK ==
    /\ column.req \in [Wanted -> {"none", "bare", "full"}] /\ column.modules \subseteq Wanted
    /\ column.plan \in Seq(Phase) /\ column.stack \in {"none", "list", "engine"}
    /\ column.status \in {"clarifying", "planning", "executing"}
    /\ list \in [open : BOOLEAN, features : SUBSET Wanted, added : SUBSET Wanted,
                 base : [Wanted -> {"none", "bare", "full"}], coming : BOOLEAN, reply : Columns]
    /\ sheet.orig \in Seq(Phase) /\ sheet.names \in Seq(0..(MaxPhases + 1))
    /\ sheet.open \in BOOLEAN /\ sheet.stack \in {"none", "list", "engine"} /\ sheet.moves \in 0..MaxMoves
    /\ pen \in [up : {"idle", "talks", "splits", "dead"}, confirmed : SUBSET Wanted,
                stack : BOOLEAN]

Init ==
    /\ column = [req |-> None, modules |-> {}, plan |-> <<>>, stack |-> "none", status |-> "clarifying"]
    /\ list = Closed /\ sheet = Folded
    /\ pen = [up |-> "idle", confirmed |-> {}, stack |-> FALSE]

-----------------------------------------------------------------------------
(* The engine *)

\* The server writes executing before the process begins.
EngineStarts ==
    /\ pen.up = "idle"
    /\ pen' = [pen EXCEPT !.up = "talks"]
    /\ column' = [column EXCEPT !.status = "executing"]
    /\ UNCHANGED <<list, sheet>>

EngineDies ==
    /\ pen.up \in {"talks", "splits"}
    /\ pen' = [pen EXCEPT !.up = "dead"]
    /\ UNCHANGED <<column, list, sheet>>

\* The reconciler asks for rows that are executing.
Recovered ==
    /\ pen.up = "dead" /\ column.status = "executing"
    /\ pen' = [pen EXCEPT !.up = "talks"]
    /\ UNCHANGED <<column, list, sheet>>

\* saveClarifiedReq: the whole list of the dialogue, over what is there.
saveClarifiedReq(n) ==
    /\ pen.up = "talks"
    /\ pen' = [pen EXCEPT !.confirmed = @ \cup {n}]
    /\ column' = [column EXCEPT
           !.req = [m \in Wanted |-> IF m \in pen'.confirmed THEN "full" ELSE "none"]]
    /\ UNCHANGED <<list, sheet>>

\* saveDevPlan: the numbers are the model's.
saveDevPlan(numbers) ==
    /\ pen.up = "talks"
    /\ column' = [column EXCEPT !.plan =
           [i \in 1..Len(numbers) |-> [nr |-> numbers[i], name |-> i, goal |-> i]]]
    /\ pen' = [pen EXCEPT !.up = "splits"]
    /\ UNCHANGED <<list, sheet>>

\* saveArchitectOutput
saveArchitectOutput(modules) ==
    /\ pen.up = "splits"
    /\ column' = [column EXCEPT !.modules = modules, !.stack = "engine", !.status = "executing"]
    /\ pen' = [pen EXCEPT !.stack = TRUE]
    /\ UNCHANGED <<list, sheet>>

-----------------------------------------------------------------------------
(* The list of functions *)

\* pmFeaturesOf
pmFeaturesOf(p) ==
    LET pm == {n \in Wanted : p.req[n] # "none"} IN IF pm # {} THEN pm ELSE p.modules

Read == [req |-> column.req, modules |-> column.modules]

\* What onMounted and reloadFeatures put on the page.
Shown(page, p) ==
    [page EXCEPT !.open = TRUE, !.features = pmFeaturesOf(p), !.base = p.req, !.coming = FALSE,
                 !.reply = Nothing]

OpenList ==
    /\ ~list.open /\ ~sheet.open
    /\ list' = Shown(Closed, Read)
    /\ UNCHANGED <<column, sheet, pen>>

\* A poll: the row is read, and later it is shown.
AskFeatures ==
    /\ list.open /\ ~list.coming
    /\ list' = [list EXCEPT !.coming = TRUE, !.reply = Read]
    /\ UNCHANGED <<column, sheet, pen>>

reloadFeatures ==
    /\ list.open /\ list.coming
    /\ list' = Shown(list, list.reply)
    /\ UNCHANGED <<column, sheet, pen>>

addFeature(n) ==
    /\ list.open /\ n \notin list.features
    /\ list' = [list EXCEPT !.features = @ \cup {n}, !.added = @ \cup {n}]
    /\ UNCHANGED <<column, sheet, pen>>

removeFeature(n) ==
    /\ list.open /\ n \in list.features
    /\ list' = [list EXCEPT !.features = @ \ {n}, !.added = @ \ {n}]
    /\ UNCHANGED <<column, sheet, pen>>

\* buildClarifiedReqJson: by name, on what the page has read.
buildClarifiedReqJson(base, features) ==
    [n \in Wanted |-> IF n \notin features THEN "none"
                         ELSE IF base[n] # "none" THEN base[n] ELSE "bare"]

saveFeatures ==
    /\ list.open /\ list.features # {}
    /\ column' = [column EXCEPT !.req = buildClarifiedReqJson(list.base, list.features)]
    /\ list' = Closed
    /\ UNCHANGED <<sheet, pen>>

-----------------------------------------------------------------------------
(* The plan *)

\* onMounted, normalizePhases
OpenSheet ==
    /\ ~sheet.open /\ ~list.open /\ sheet.moves < MaxMoves
    /\ sheet' = [open |-> TRUE, orig |-> column.plan,
                 names |-> [i \in DOMAIN column.plan |-> column.plan[i].name],
                 stack |-> column.stack, moves |-> sheet.moves + 1]
    /\ UNCHANGED <<column, list, pen>>

Edit(names) ==
    /\ sheet.open /\ sheet.moves < MaxMoves
    /\ sheet' = [sheet EXCEPT !.names = names, !.moves = @ + 1]
    /\ UNCHANGED <<column, list, pen>>

addPhase == Len(sheet.names) <= MaxPhases /\ Edit(Append(sheet.names, Added))

Without(s, i) == SubSeq(s, 1, i - 1) \o SubSeq(s, i + 1, Len(s))

removePhase(i) == i \in DOMAIN sheet.names /\ Edit(Without(sheet.names, i))

\* An empty name leaves the old one.
savePhaseName(i) == i \in DOMAIN sheet.names /\ Edit([sheet.names EXCEPT ![i] = Renamed])

EngineShape(plan) == \E i \in DOMAIN plan : plan[i].nr # Unstated

\* Mutant: the plan is made anew from the page, as it once was.
RebuiltPlan(orig, names, engineShape) ==
    [i \in DOMAIN names |-> [nr |-> Unstated, name |-> names[i], goal |-> Unstated]]

\* buildDevPlanJson: each phase on the one in its place.
buildDevPlanJson(orig, names, engineShape) ==
    [i \in DOMAIN names |->
        IF i \in DOMAIN orig THEN [orig[i] EXCEPT !.name = names[i]]
        ELSE [nr |-> IF engineShape THEN i ELSE Unstated, name |-> names[i], goal |-> Unstated]]

\* confirmPlan, savePlan; buildTechStackJson keeps what it has read.
savePlan ==
    /\ sheet.open
    /\ column' = [column EXCEPT
           !.plan   = buildDevPlanJson(sheet.orig, sheet.names, EngineShape(sheet.orig)),
           !.stack  = IF sheet.stack = "engine" THEN "engine" ELSE "list",
           !.status = "planning"]
    /\ sheet' = [Folded EXCEPT !.moves = sheet.moves]
    /\ UNCHANGED <<list, pen>>

\* goBack
LeaveSheet ==
    /\ sheet.open
    /\ sheet' = [Folded EXCEPT !.moves = sheet.moves]
    /\ UNCHANGED <<column, list, pen>>

Engine ==
    \/ EngineStarts \/ EngineDies \/ Recovered
    \/ \E n \in Wanted : saveClarifiedReq(n)
    \/ \E numbers \in {<<1>>, <<1, 2>>, <<1, 3>>} : saveDevPlan(numbers)
    \/ \E modules \in SUBSET Wanted : saveArchitectOutput(modules)

Next ==
    \/ Engine
    \/ OpenList \/ AskFeatures \/ reloadFeatures \/ saveFeatures
    \/ \E n \in Wanted : addFeature(n) \/ removeFeature(n)
    \/ OpenSheet \/ addPhase \/ savePlan \/ LeaveSheet
    \/ \E i \in 1..(MaxPhases + 1) : removePhase(i) \/ savePhaseName(i)

Spec == Init /\ [][Next]_vars

-----------------------------------------------------------------------------
(* Properties *)

\* usablePhases of projectRunner.ts
usable(plan) == plan # <<>> /\ \A i \in DOMAIN plan : plan[i].nr # Unstated

\* While a sheet is open that shows a plan the engine builds from, the plan in
\* the column is one it builds from, or has been emptied; and what the person
\* makes of it, phases added, renamed and taken away, will be one as long as a
\* phase is left.  Otherwise the engine holds the whole dialogue again.
PlanStaysUsable ==
    /\ column.plan # <<>> /\ EngineShape(column.plan) => usable(column.plan)
    /\ sheet.open /\ usable(sheet.orig) /\ sheet.names # <<>>
          => usable(buildDevPlanJson(sheet.orig, sheet.names, EngineShape(sheet.orig)))

\* Not so: what was added by hand stays on the page until it is saved
\* (CreateProjectView.vue:171); the next poll takes it away.
AddedStays == list.open => list.added \subseteq list.features

\* Not so: a function keeps its description when the list is saved (json.ts:268).
DetailsSurvive == \A n \in pen.confirmed : column.req[n] # "bare"

\* Not so: a save covers nothing the engine has written since the page was read
\* (CreateProjectView.vue:179).
StackSurvives == pen.stack => column.stack = "engine"

\* Not so: only the name and the tasks of a phase are replaced (json.ts:121);
\* with a phase removed those behind it get the goals of others.
GoalsStay ==
    \A i \in DOMAIN column.plan :
        column.plan[i].name \in 1..MaxPhases => column.plan[i].goal = column.plan[i].name

\* Not so: phases have different numbers, by which the engine tells them apart.
NumbersAreUnique ==
    \A i, j \in DOMAIN column.plan :
        i # j /\ column.plan[i].nr # Unstated => column.plan[i].nr # column.plan[j].nr

\* Not so: an engine that has died is found (Node.ts:179-181).
TheDeadAreFound == pen.up = "dead" => column.status = "executing"
=============================================================================
