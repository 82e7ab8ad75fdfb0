------------------------------- MODULE Processes -------------------------------
(***************************************************************************)
(* The child processes of a task (tools/processManager.ts,                 *)
(* tools/processSandbox.ts, tools/processTools.ts): what the operating     *)
(* system runs, and what the manager believes of it.                       *)
(*                                                                         *)
(* A tool starts a process and waits for its end (run) or only looks after *)
(* a while whether it is still there (start), reads it, or stops it; timer *)
(* and watch of a run kill its process from a callback.  The end of a task *)
(* cleans up beside a tool that may still be at work, and closes the       *)
(* ledger last.  A kill may reach the process with all its descendants, or *)
(* only the process, or nothing; the record says which.  A process is up   *)
(* here as long as any of its descendants is.  Left out: output and exit   *)
(* codes, and with them readProcess, the environment, other tasks;         *)
(* PROCESS_LIMIT is an answer and changes nothing.                         *)
(***************************************************************************)
EXTENDS Naturals, FiniteSets

CONSTANTS
    Procs,      \* bound: the processes ever started
    Limit,      \* maxProcessCount
    Ghosts      \* tools may still be at work when the task is closed

VARIABLES
    os,      \* what each process is: "absent", "up" or "gone"
    entry,   \* the manager's record: status, exit observed, what the last kill reached
    tool,    \* the tool at work and its process
    alarms,  \* timer and watch of the run at work that have not fired
    stops,   \* stops whose kill has been tried and whose record is not yet written
    cleanup, \* the clean-up under way: what it found and has still to stop
    open     \* the task is open

pvars == <<os, entry, tool, alarms, stops, cleanup, open>>

Blank == [status |-> "none", seen |-> FALSE, method |-> "none"]
NoTool == [op |-> "none"]
NoCleanup == [on |-> FALSE, left |-> {}, found |-> {}]

Init ==
    /\ os = [p \in Procs |-> "absent"]
    /\ entry = [p \in Procs |-> Blank]
    /\ tool = NoTool /\ alarms = {} /\ stops = {}
    /\ cleanup = NoCleanup /\ open = TRUE

Active == {p \in Procs : entry[p].status = "running"}

-----------------------------------------------------------------------------
(* Starting. *)

\* Processes are numbered as they come.
nextProcessId == CHOOSE p \in Procs : os[p] = "absent"

\* Mutant: one process too many passes the limit.
SpawnAtLimit(p) ==
    /\ os[p] = "absent" /\ p = nextProcessId /\ Cardinality(Active) <= Limit
    /\ os' = [os EXCEPT ![p] = "up"]
    /\ entry' = [entry EXCEPT ![p].status = "running"]

spawn(p) ==
    /\ os[p] = "absent" /\ p = nextProcessId /\ Cardinality(Active) < Limit
    /\ os' = [os EXCEPT ![p] = "up"]
    /\ entry' = [entry EXCEPT ![p].status = "running"]

Usable == tool = NoTool /\ (open \/ Ghosts)

run(p) ==
    /\ Usable /\ spawn(p)
    /\ tool' = [op |-> "run", p |-> p, cause |-> "none"]
    /\ alarms' = {"timeout", "violation"}
    /\ UNCHANGED <<stops, cleanup, open>>

start(p) ==
    /\ Usable /\ spawn(p)
    /\ tool' = [op |-> "start", p |-> p]
    /\ UNCHANGED <<alarms, stops, cleanup, open>>

-----------------------------------------------------------------------------
(* Ending. *)

\* the process ends by itself; its parent learns of it later
OwnExit(p) ==
    /\ os[p] = "up"
    /\ os' = [os EXCEPT ![p] = "gone"]
    /\ UNCHANGED <<entry, tool, alarms, stops, cleanup, open>>

exited(p) ==
    /\ os[p] = "gone" /\ ~entry[p].seen
    /\ entry' = [entry EXCEPT
          ![p].seen = TRUE,
          ![p].status = IF @ = "running" THEN "exited" ELSE @]
    /\ UNCHANGED <<os, tool, alarms, stops, cleanup, open>>

\* "tree" is the process group or taskkill, "none" also the kill of the one process
killTree(p, method) ==
    os' = IF method = "tree" THEN [os EXCEPT ![p] = "gone"] ELSE os

\* stop up to the await of its kill; a process no longer running is left alone
Kill(p) ==
    /\ UNCHANGED entry
    /\ IF entry[p].status = "running"
       THEN \E method \in {"tree", "none"} :
               killTree(p, method) /\ stops' = stops \cup {[p |-> p, method |-> method]}
       ELSE UNCHANGED <<os, stops>>

\* and after it, whatever the kill has come to
stopped(k) ==
    /\ stops' = stops \ {k}
    /\ entry' = [entry EXCEPT ![k.p].status = "killed", ![k.p].method = k.method]
    /\ UNCHANGED <<os, tool, alarms, cleanup, open>>

Stopping == {k.p : k \in stops}

Alarm(reason) ==
    /\ reason \in alarms /\ tool.op = "run" /\ ~entry[tool.p].seen
    /\ Kill(tool.p)
    /\ alarms' = alarms \ {reason}
    /\ tool' = [tool EXCEPT !.cause = reason]
    /\ UNCHANGED <<cleanup, open>>

\* a run waits for the end itself, whoever brings it about
RunEnds ==
    /\ tool.op = "run" /\ entry[tool.p].seen
    /\ tool' = NoTool /\ alarms' = {}
    /\ UNCHANGED <<os, entry, stops, cleanup, open>>

StartLooks ==
    /\ tool.op = "start"
    /\ tool' = NoTool
    /\ UNCHANGED <<os, entry, alarms, stops, cleanup, open>>

stopTool(p) ==
    /\ Usable /\ entry[p].status # "none"
    /\ Kill(p)
    /\ tool' = [op |-> "stop", p |-> p]
    /\ UNCHANGED <<alarms, cleanup, open>>

StopEnds ==
    /\ tool.op = "stop" /\ tool.p \notin Stopping
    /\ tool' = NoTool
    /\ UNCHANGED <<os, entry, alarms, stops, cleanup, open>>

-----------------------------------------------------------------------------
(* The end of the task.  With a tool still at work only where Ghosts says  *)
(* so: the driver gave the invocation up.                                  *)

cleanupTaskProcesses ==
    /\ open /\ ~cleanup.on /\ (tool = NoTool \/ Ghosts)
    /\ cleanup' = [on |-> TRUE, left |-> Active, found |-> Active]
    /\ UNCHANGED <<os, entry, tool, alarms, stops, open>>

\* one after the other, each awaited
CleanNext ==
    /\ cleanup.on /\ Stopping \cap (cleanup.found \ cleanup.left) = {}
    /\ \E p \in cleanup.left :
          /\ Kill(p)
          /\ cleanup' = [cleanup EXCEPT !.left = @ \ {p}]
    /\ UNCHANGED <<tool, alarms, open>>

\* a clean-up at the start of a run, or before the ledger is closed
Cleaned ==
    /\ cleanup.on /\ cleanup.left = {} /\ Stopping \cap cleanup.found = {}
    /\ cleanup' = NoCleanup
    /\ open' \in BOOLEAN
    /\ UNCHANGED <<os, entry, tool, alarms, stops>>

Over ==
    /\ ~open /\ tool = NoTool /\ UNCHANGED pvars

Next ==
    \/ \E p \in Procs :
          run(p) \/ start(p) \/ OwnExit(p) \/ exited(p) \/ stopTool(p)
    \/ \E k \in stops : stopped(k)
    \/ Alarm("timeout") \/ Alarm("violation")
    \/ RunEnds \/ StartLooks \/ StopEnds
    \/ cleanupTaskProcesses \/ CleanNext \/ Cleaned \/ Over

Spec == Init /\ [][Next]_pvars

-----------------------------------------------------------------------------
TypeOK ==
    /\ os \in [Procs -> {"absent", "up", "gone"}]
    /\ \A p \in Procs : entry[p].status \in {"none", "running", "exited", "killed"}
    /\ Stopping \subseteq Procs /\ cleanup.left \subseteq cleanup.found
    /\ tool.op # "none" => os[tool.p] # "absent"

(* What runs is known to run, or its record says that the last kill did not *)
(* reach all of it (processManager.ts:366), however its end, a timer, the   *)
(* watch of the protected paths, a stop and a clean-up fall together: so    *)
(* the limit counts it, and the next clean-up finds it.                    *)
Unreached == {p \in Procs : entry[p].status = "killed" /\ entry[p].method = "none"}

NothingRunsUnseen ==
    /\ \A p \in Procs \ Unreached : os[p] = "up" => entry[p].status = "running"
    /\ Cardinality({p \in Procs \ Unreached : os[p] = "up"}) <= Limit

(* Nothing of a task is left when its ledger is closed (index.ts:1341).    *)
(* The code does not have it with Ghosts.                                  *)
NothingOutlivesTheTask == ~open /\ ~cleanup.on => \A p \in Procs : os[p] # "up"

(* Who cannot be killed is not said to have been (processSandbox.ts, the   *)
(* sixth step of run).  The code does not have it.                         *)
KillsAreReal == \A p \in Procs : entry[p].status = "killed" => os[p] # "up"
=============================================================================
