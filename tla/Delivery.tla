-------------------------------- MODULE Delivery --------------------------------
(***************************************************************************)
(* The delivery gate: after the last phase the engine verifies what was     *)
(* built (a database in a container or on the host, the application, its    *)
(* health, the contract), removes what it started, leaves its papers under  *)
(* _verify/ and settles the row of the project.  The page on verification   *)
(* reads the papers at any time, and a project is started again at will.    *)
(***************************************************************************)
EXTENDS Naturals

CONSTANT Begins        \* how often the project is started

VARIABLES
    gate,       \* the engine: where it is, and what this check is about
    upkeep,     \* what runs: [what, nr], nr being the start it belongs to
    lost,       \* of these: what nobody is going to remove any more (for the properties)
    papers,     \* what the tree of the project holds under _verify/
    verdict     \* the row of the project

vars == <<gate, upkeep, lost, papers, verdict>>

Outcomes == {"ok", "contract_failed", "boot_failed", "env_error", "skipped_unverified",
             "tool_error"}
Checking == {"db", "ready", "app", "health", "contract"}
Things   == [what : {"container", "database", "app"}, nr : 1..Begins]
NoPaper  == [nr |-> 0, says |-> "none"]

TypeOK ==
    /\ gate \in [at : {"off", "work", "gate", "kill", "drop", "report", "settle"} \cup Checking,
                 nr : 0..Begins, rows : {"none", "good", "failed"},
                 db : {"none", "docker", "host"}, app : BOOLEAN,
                 outcome : Outcomes \cup {"none", "unfinished"}]
    /\ upkeep \subseteq Things /\ lost \subseteq upkeep
    /\ papers \in [report : [nr : 0..Begins, says : Outcomes \cup {"none"}],
                   completion : [nr : 0..Begins, says : {"none", "done", "failed", "blocked"}],
                   cases : BOOLEAN]
    /\ verdict \in {"planning", "executing", "done", "failed", "blocked"}

Init ==
    /\ gate = [at |-> "off", nr |-> 0, rows |-> "none", db |-> "none", app |-> FALSE,
               outcome |-> "none"]
    /\ upkeep = {} /\ lost = {}
    /\ papers = [report |-> NoPaper, completion |-> NoPaper, cases |-> FALSE]
    /\ verdict = "planning"

Mine(what) == [what |-> what, nr |-> gate.nr]
Goes(at)   == gate' = [gate EXCEPT !.at = at]

\* The check is over, one way or the other: what it started is cleared away.
Early(outcome) == gate' = [gate EXCEPT !.at = "kill", !.outcome = outcome]

-----------------------------------------------------------------------------
(* The phases, seen from here *)

\* A project without a single task has its old tree put away first.
Begin ==
    /\ gate.at = "off" /\ gate.nr < Begins
    /\ gate' = [gate EXCEPT !.at = "work", !.nr = gate.nr + 1, !.db = "none", !.app = FALSE,
                            !.outcome = "none"]
    /\ papers' = IF gate.rows = "none"
                 THEN [report |-> NoPaper, completion |-> NoPaper, cases |-> FALSE] ELSE papers
    /\ verdict' = "executing"
    /\ UNCHANGED <<upkeep, lost>>

\* The phases end, with tasks done or failed or none at all; the split has left its cases.
Work ==
    /\ gate.at = "work"
    /\ \E rows \in {"none", "good", "failed"}, cases \in BOOLEAN, over \in BOOLEAN :
           /\ papers.cases => cases
           /\ rows = "none" => gate.rows = "none"
           /\ gate' = [gate EXCEPT !.rows = rows, !.at = IF over THEN "gate" ELSE "settle",
                                   !.outcome = IF over THEN "none" ELSE "unfinished"]
           /\ papers' = [papers EXCEPT !.cases = cases]
    /\ UNCHANGED <<upkeep, lost, verdict>>

-----------------------------------------------------------------------------
(* The gate *)

\* Left out by a setting, no verifier for the stack, nothing to verify: no report is written.
Skips ==
    /\ gate.at = "gate"
    /\ gate' = [gate EXCEPT !.at = "settle", !.outcome = "skipped_unverified"]
    /\ UNCHANGED <<upkeep, lost, papers, verdict>>

Throws ==
    /\ gate.at = "gate"
    /\ gate' = [gate EXCEPT !.at = "settle", !.outcome = "unfinished"]
    /\ UNCHANGED <<upkeep, lost, papers, verdict>>

Verifies == gate.at = "gate" /\ Goes("db") /\ UNCHANGED <<upkeep, lost, papers, verdict>>

\* Mutant: the container is not noted before its database answers.
ContainerUnnoted ==
    /\ gate.at = "db"
    /\ upkeep' = upkeep \cup {Mine("container")}
    /\ Goes("ready")
    /\ UNCHANGED <<lost, papers, verdict>>

\* Docker answers: from here on the container is known to the check.
Container ==
    /\ gate.at = "db"
    /\ upkeep' = upkeep \cup {Mine("container")}
    /\ gate' = [gate EXCEPT !.at = "ready", !.db = "docker"]
    /\ UNCHANGED <<lost, papers, verdict>>

\* No docker, or the host is preferred by a setting: a database of its own on the host.
Database ==
    /\ gate.at = "db"
    /\ upkeep' = upkeep \cup {Mine("database")}
    /\ gate' = [gate EXCEPT !.at = "app", !.db = "host"]
    /\ UNCHANGED <<lost, papers, verdict>>

NoDatabase ==
    /\ gate.at = "db"
    /\ Early("skipped_unverified")
    /\ UNCHANGED <<upkeep, lost, papers, verdict>>

\* The command failed or its time was up, which need not mean that nothing was begun.
DatabaseFails ==
    /\ gate.at = "db"
    /\ Early("env_error")
    /\ \E begun \in {{}, {Mine("database")}, {Mine("container")}} :
           upkeep' = upkeep \cup begun /\ lost' = lost \cup begun
    /\ UNCHANGED <<papers, verdict>>

Ready == gate.at = "ready" /\ Goes("app") /\ UNCHANGED <<upkeep, lost, papers, verdict>>

NotReady ==
    /\ gate.at = "ready"
    /\ Early("env_error")
    /\ UNCHANGED <<upkeep, lost, papers, verdict>>

\* Built and launched; a build that fails leaves nothing behind.
StartApp ==
    /\ gate.at = "app"
    /\ upkeep' = upkeep \cup {Mine("app")}
    /\ gate' = [gate EXCEPT !.at = "health", !.app = TRUE]
    /\ UNCHANGED <<lost, papers, verdict>>

NotStarted ==
    /\ gate.at = "app"
    /\ Early("boot_failed")
    /\ UNCHANGED <<upkeep, lost, papers, verdict>>

Healthy == gate.at = "health" /\ Goes("contract") /\ UNCHANGED <<upkeep, lost, papers, verdict>>

\* Two minutes without an answer; the application may have ended by itself.
Unhealthy ==
    /\ gate.at = "health"
    /\ Early("boot_failed")
    /\ upkeep' \in {upkeep, upkeep \ {Mine("app")}}
    /\ UNCHANGED <<lost, papers, verdict>>

\* What runContractTests reports, and what becomes of it: a script that could not be run
\* counts as a contract that is broken.
Judged(ran) ==
    CASE ran = "ok"        -> "ok"
      [] ran = "env_error" -> "env_error"
      [] OTHER             -> "contract_failed"

Contract ==
    /\ gate.at = "contract"
    /\ \E ran \in {"ok", "failed", "env_error", "tool_error"} : Early(Judged(ran))
    /\ UNCHANGED <<upkeep, lost, papers, verdict>>

\* An exception anywhere in between.
Exception ==
    /\ gate.at \in Checking
    /\ Early("tool_error")
    /\ UNCHANGED <<upkeep, lost, papers, verdict>>

-----------------------------------------------------------------------------
(* What the check owes at its end, whatever happened *)

\* The removal is asked for; nothing waits for it or looks whether it worked.
Removed(thing) ==
    \/ upkeep' = upkeep \ {thing} /\ lost' = lost \ {thing}
    \/ thing \in upkeep /\ upkeep' = upkeep /\ lost' = lost \cup {thing}

KillApp ==
    /\ gate.at = "kill"
    /\ Goes("drop")
    /\ IF gate.app THEN Removed(Mine("app")) ELSE UNCHANGED <<upkeep, lost>>
    /\ UNCHANGED <<papers, verdict>>

DropDatabase ==
    /\ gate.at = "drop"
    /\ Goes("report")
    /\ CASE gate.db = "docker" -> Removed(Mine("container"))
         [] gate.db = "host"   -> Removed(Mine("database"))
         [] gate.db = "none"   -> UNCHANGED <<upkeep, lost>>
    /\ UNCHANGED <<papers, verdict>>

\* run-report.md, which says that everything was cleared away; it may fail to be written.
Report ==
    /\ gate.at = "report"
    /\ Goes("settle")
    /\ papers' \in {papers, [papers EXCEPT !.report = [nr |-> gate.nr, says |-> gate.outcome]]}
    /\ UNCHANGED <<upkeep, lost, verdict>>

-----------------------------------------------------------------------------
(* The end of the project *)

\* decideProjectStatus; rows that cannot be read count as none.
Status(rows, outcome) ==
    CASE rows # "good"                    -> "failed"
      [] outcome = "skipped_unverified"   -> "blocked"
      [] outcome = "ok"                   -> "done"
      [] OTHER                            -> "failed"

\* The row is written, or the write fails and is logged; the paper says the same either way.
Settle ==
    /\ gate.at = "settle"
    /\ \E rows \in {gate.rows, "none"} :
           LET status == Status(rows, gate.outcome)
               paper  == [papers EXCEPT !.completion = [nr |-> gate.nr, says |-> status]]
           IN  /\ verdict' \in {verdict, status}
               /\ papers' \in {papers} \cup (IF status = "done" THEN {} ELSE {paper})
    /\ Goes("off")
    /\ UNCHANGED <<upkeep, lost>>

\* The engine is killed, dies, or pauses between two phases: nothing of the above is made up for.
Dies ==
    /\ gate.at # "off"
    /\ upkeep' \in {upkeep, upkeep \ {Mine("app")}}
    /\ lost' = upkeep'
    /\ Goes("off")
    /\ UNCHANGED <<papers, verdict>>

\* What was lost may end by itself.
EndsByItself ==
    /\ \E t \in lost : upkeep' = upkeep \ {t} /\ lost' = lost \ {t}
    /\ UNCHANGED <<gate, papers, verdict>>

Stay == UNCHANGED vars

Next ==
    \/ Begin \/ Work \/ Skips \/ Throws \/ Verifies
    \/ Container \/ Database \/ NoDatabase \/ DatabaseFails \/ Ready \/ NotReady
    \/ StartApp \/ NotStarted \/ Healthy \/ Unhealthy \/ Contract \/ Exception
    \/ KillApp \/ DropDatabase \/ Report \/ Settle \/ Dies \/ EndsByItself \/ Stay

Spec == Init /\ [][Next]_vars

-----------------------------------------------------------------------------
(* Properties *)

\* The page on verification: what evidence() hands over, and the tone it is shown in.
Tone ==
    IF papers.report # NoPaper THEN "pass" ELSE IF papers.cases THEN "wait" ELSE "void"

\* What a check starts and knows of, it tries to remove before its result is heard, whichever
\* way it ended (verifyRun, its finally): after that there is only what could not be removed.
NothingIsForgotten ==
    gate.at \in {"off", "work", "gate", "report", "settle"} => upkeep = lost

\* Not so in the code: a report says "cleared away" only when it is so.
CleanedIsTrue ==
    papers.report # NoPaper =>
        \A t \in upkeep : t.nr # papers.report.nr

\* Not so in the code: the papers beside a settled row are of the run that settled it.
PapersAreOfTheLastRun ==
    gate.at = "off" /\ verdict = "done" =>
        papers.completion = NoPaper /\ papers.report.says \in {"none", "ok"}

\* Not so in the code: what the page shows as passed has passed.
ShownAsPassed == Tone = "pass" => papers.report.says = "ok"

\* Not so in the code: a project fails by what was built, not by its surroundings.
FailedMeansAtFault ==
    gate.at = "off" /\ verdict = "failed" /\ gate.rows = "good"
        => gate.outcome \notin {"env_error", "tool_error"}

\* Not so in the code: an engine that has come to its end has settled the row.
SettledIsWritten ==
    gate.at = "off" /\ papers.completion.nr = gate.nr /\ gate.nr > 0 => verdict # "executing"
=============================================================================
