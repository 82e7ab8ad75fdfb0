----------------------------- MODULE ProjectRun -----------------------------
(***************************************************************************)
(* How the Java server keeps the engine process of one project running     *)
(* (ProjectRunServiceImpl): the requests to start and stop it, each on a   *)
(* thread of its own, the reconciler with its fuse, the watchdog of each   *)
(* process, and the engines.                                               *)
(*                                                                         *)
(* The account is the project's row of sys_project_run.  Every thread      *)
(* reads it whole, goes on with its copy and writes it back whole; a step  *)
(* is a database access with what the thread does in memory beside it.     *)
(* Times are counted in spawns.                                            *)
(*                                                                         *)
(* Faults:                                                                 *)
(*   overlap  requests and the reconciler run at the same time             *)
(*   restart  the server restarts between two operations                   *)
(*   crash    the server restarts at any point                             *)
(***************************************************************************)
EXTENDS Integers, FiniteSets

CONSTANTS
    Clerks,       \* the threads that serve requests
    MaxIdle,      \* MAX_NO_PROGRESS_RESTARTS
    Faults,
    MaxStarts,    \* bound: uses of the start button
    MaxStops,     \* bound: uses of the stop button
    MaxProgress,  \* bound: processes that get any task on
    MaxSpawns     \* bound: processes started

ASSUME ProjectRunConstants ==
    /\ MaxIdle \in Nat \ {0}
    /\ MaxStarts \in Nat /\ MaxStops \in Nat /\ MaxProgress \in Nat /\ MaxSpawns \in Nat

Pids == 1..MaxSpawns

VARIABLES
    executing, \* sys_project.status says so
    account,   \* the row of sys_project_run
    moved,     \* spawns made when a task row was last updated, 0 never
    pending,   \* an unexpired question of the project waits in sys_confirm
    alive,     \* the engine processes the operating system has
    spawns,    \* processes started so far
    held,      \* the server's process handle, 0 without one
    watched,   \* processes with a watchdog thread
    clerk, reconciler,           \* the threads of the server
    starts, stops, progresses,   \* counters of the bounds
    barren,    \* history: spawns by the reconciler since a start or progress
    met        \* history: two operations have been under way at a time

server  == <<held, watched, clerk, reconciler>>
world   == <<moved, pending, alive, spawns>>
bounds  == <<starts, stops, progresses>>
history == <<barren, met>>
vars    == <<executing, account, world, server, bounds, history>>

NoRow == [state |-> "none", pid |-> 0, lastSpawn |-> 0, restarts |-> 0]
Resting == [pc |-> "idle", row |-> NoRow, pid |-> 0, executing |-> FALSE]

Rows == [state : {"none", "running", "stopped"}, pid : 0..MaxSpawns,
         lastSpawn : 0..MaxSpawns, restarts : Nat]
Threads == [row : Rows, pid : 0..MaxSpawns, executing : BOOLEAN,
            pc : {"idle", "spawn", "note", "account", "status",
                  "kill", "close", "mark", "write", "fuse"}]

TypeOK ==
    /\ executing \in BOOLEAN /\ account \in Rows
    /\ moved \in 0..MaxSpawns /\ spawns \in 0..MaxSpawns
    /\ pending \in BOOLEAN
    /\ alive \subseteq Pids /\ watched \subseteq Pids
    /\ held \in 0..MaxSpawns
    /\ clerk \in [Clerks -> Threads] /\ reconciler \in Threads

Init ==
    /\ executing = FALSE /\ account = NoRow
    /\ moved = 0 /\ pending = FALSE /\ alive = {} /\ spawns = 0
    /\ held = 0 /\ watched = {}
    /\ clerk = [c \in Clerks |-> Resting] /\ reconciler = Resting
    /\ starts = 0 /\ stops = 0 /\ progresses = 0
    /\ barren = 0 /\ met = FALSE

Idle(c) == clerk[c].pc = "idle"
Quiet == reconciler.pc = "idle" /\ \A c \in Clerks : Idle(c)

\* An operation begins.
Begins ==
    /\ "overlap" \in Faults \/ Quiet
    /\ met' = (met \/ ~Quiet)

\* A watchdog ends with its process.
Kill(p) == alive' = alive \ {p} /\ watched' = watched \ {p}

Running == held \in alive \/ account.pid \in alive

Becomes(c, t) == clerk' = [clerk EXCEPT ![c] = t]
Goes(c, pc) == clerk' = [clerk EXCEPT ![c].pc = pc]

-----------------------------------------------------------------------------
(* spawnEngine: the process is launched, and the account read *)

Launch ==
    /\ spawns < MaxSpawns
    /\ spawns' = spawns + 1
    /\ alive' = alive \cup {spawns'}
    /\ held' = spawns'
    /\ UNCHANGED <<executing, account, moved, pending, watched>>

Launched == [Resting EXCEPT !.pc = "note", !.row = account, !.pid = spawns']

\* The row as read then, with the pid and the time.
NoteSpawn(t) ==
    /\ account' = IF t.row.state = "none" THEN account
                  ELSE [t.row EXCEPT !.pid = t.pid, !.lastSpawn = spawns]
    /\ watched' = watched \cup ({t.pid} \cap alive)
    /\ UNCHANGED <<executing, world, held>>

-----------------------------------------------------------------------------
(* start *)

CheckStart(c) ==
    /\ Idle(c) /\ Begins /\ starts < MaxStarts
    /\ ~Running
    /\ starts' = starts + 1
    /\ Goes(c, "spawn")
    /\ UNCHANGED <<executing, account, world, held, watched, reconciler, stops, progresses, barren>>

LaunchStart(c) ==
    /\ clerk[c].pc = "spawn"
    /\ Launch
    /\ Becomes(c, Launched)
    /\ UNCHANGED <<reconciler, bounds, history>>

\* The program cannot be started, and the request fails.
LaunchFails(c) ==
    /\ clerk[c].pc = "spawn"
    /\ Becomes(c, Resting)
    /\ UNCHANGED <<executing, account, world, held, watched, reconciler, bounds, history>>

NoteStart(c) ==
    /\ clerk[c].pc = "note"
    /\ NoteSpawn(clerk[c])
    /\ Becomes(c, [Resting EXCEPT !.pc = "account", !.pid = clerk[c].pid])
    /\ UNCHANGED <<reconciler, bounds, history>>

\* Every column is set anew, whatever the row was.
OpenAccount(c) ==
    /\ clerk[c].pc = "account"
    /\ account' = [state |-> "running", pid |-> clerk[c].pid,
                   lastSpawn |-> spawns, restarts |-> 0]
    /\ Goes(c, "status")
    /\ barren' = 0
    /\ UNCHANGED <<executing, world, held, watched, reconciler, bounds, met>>

FinishStart(c) ==
    /\ clerk[c].pc = "status"
    /\ executing' = TRUE
    /\ Becomes(c, Resting)
    /\ UNCHANGED <<account, world, held, watched, reconciler, bounds, history>>

\* One of these accesses throws, as an insert does when another has come before: the
\* process is destroyed.
TakeBack(c) ==
    /\ clerk[c].pc \in {"account", "status"}
    /\ Kill(clerk[c].pid)
    /\ Becomes(c, Resting)
    /\ UNCHANGED <<executing, account, moved, pending, spawns, held, reconciler, bounds, history>>

StartGoesOn(c) ==
    \/ LaunchStart(c) \/ LaunchFails(c) \/ NoteStart(c)
    \/ OpenAccount(c) \/ FinishStart(c) \/ TakeBack(c)

-----------------------------------------------------------------------------
(* stop *)

BeginStop(c) ==
    /\ Idle(c) /\ Begins /\ stops < MaxStops
    /\ stops' = stops + 1
    /\ Becomes(c, [Resting EXCEPT !.pc = "kill", !.row = account,
                                  !.executing = executing])
    /\ UNCHANGED <<executing, account, world, held, watched, reconciler, starts, progresses, barren>>

KillEngine(c) ==
    /\ clerk[c].pc = "kill"
    /\ Kill(IF held \in alive THEN held ELSE clerk[c].row.pid)
    /\ held' = 0
    /\ Goes(c, "close")
    /\ UNCHANGED <<executing, account, moved, pending, spawns, reconciler, bounds, history>>

CloseAccount(c) ==
    /\ clerk[c].pc = "close"
    /\ account' = IF clerk[c].row.state = "none" THEN account
                  ELSE [clerk[c].row EXCEPT !.state = "stopped"]
    /\ Becomes(c, [Resting EXCEPT !.pc = "mark", !.executing = clerk[c].executing])
    /\ UNCHANGED <<executing, world, held, watched, reconciler, bounds, history>>

FinishStop(c) ==
    /\ clerk[c].pc = "mark"
    /\ executing' = (executing /\ ~clerk[c].executing)
    /\ Becomes(c, Resting)
    /\ UNCHANGED <<account, world, held, watched, reconciler, bounds, history>>

StopGoesOn(c) == KillEngine(c) \/ CloseAccount(c) \/ FinishStop(c)

-----------------------------------------------------------------------------
(* reconcile *)

LookFor(due) ==
    /\ reconciler.pc = "idle" /\ Begins
    /\ executing /\ account.state = "running" /\ due /\ ~pending
    /\ reconciler' = [Resting EXCEPT !.pc = "write", !.row = account, !.pid = held]
    /\ UNCHANGED <<executing, account, world, held, watched, clerk, bounds, barren>>

\* Mutant: an engine left over from before a restart of the server is not seen.
LookWithoutOrphans == LookFor(held \notin alive)

\* Mutant: a handle is taken for a running engine.
LookAtHandle == LookFor(held = 0 /\ account.pid \notin alive)

\* reconcileOne up to the decision to act: no engine of this server's lives, without a
\* handle none that the account names, and no person is being asked.  (Questions that
\* have expired are swept here; pending stands for the others.)
Look == LookFor(held \notin alive /\ (held = 0 => account.pid \notin alive))

\* hasTaskProgressSince
Progressed(row) == row.lastSpawn # 0 /\ moved >= row.lastSpawn

Counted(row) == [row EXCEPT !.restarts = IF Progressed(row) THEN 0 ELSE @ + 1]

\* The handle of a dead process, if one was seen, is removed by key, and the copy of the
\* row is written back with the new count: to go on, or with the fuse blown.
Count ==
    /\ reconciler.pc = "write"
    /\ LET row   == Counted(reconciler.row)
           blown == row.restarts >= MaxIdle
       IN  /\ account' = [row EXCEPT !.state = IF blown THEN "stopped" ELSE "running"]
           /\ reconciler' = [Resting EXCEPT !.pc = IF blown THEN "fuse" ELSE "spawn"]
    /\ held' = IF reconciler.pid # 0 THEN 0 ELSE held
    /\ UNCHANGED <<executing, world, watched, clerk, bounds, history>>

BlowFuse ==
    /\ reconciler.pc = "fuse"
    /\ executing' = FALSE
    /\ reconciler' = Resting
    /\ UNCHANGED <<account, world, held, watched, clerk, bounds, history>>

LaunchAgain ==
    /\ reconciler.pc = "spawn"
    /\ Launch
    /\ reconciler' = Launched
    /\ barren' = barren + 1
    /\ UNCHANGED <<clerk, bounds, met>>

\* The program cannot be started; the count stays as written.
LaunchAgainFails ==
    /\ reconciler.pc = "spawn"
    /\ reconciler' = Resting
    /\ UNCHANGED <<executing, account, world, held, watched, clerk, bounds, history>>

NoteAgain ==
    /\ reconciler.pc = "note"
    /\ NoteSpawn(reconciler)
    /\ reconciler' = Resting
    /\ UNCHANGED <<clerk, bounds, history>>

Reconciler ==
    \/ Look \/ Count \/ BlowFuse \/ LaunchAgain \/ LaunchAgainFails \/ NoteAgain

-----------------------------------------------------------------------------
(* watchdogs, engines, people, the server *)

\* Mutant: a watchdog that finds the engine waiting for an answer gives up.
DeadlineOnce(p) ==
    /\ p \in watched \cap alive
    /\ alive' = IF pending THEN alive ELSE alive \ {p}
    /\ watched' = watched \ {p}
    /\ UNCHANGED <<executing, account, moved, pending, spawns, held, clerk, reconciler, bounds, history>>

\* While a question is pending the deadline starts again.
Deadline(p) ==
    /\ p \in watched \cap alive
    /\ ~pending
    /\ Kill(p)
    /\ UNCHANGED <<executing, account, moved, pending, spawns, held, clerk, reconciler, bounds, history>>

\* An engine gets a task on.
Progress(p) ==
    /\ p \in alive /\ progresses < MaxProgress
    /\ moved' = spawns
    /\ progresses' = progresses + 1
    /\ barren' = 0
    /\ UNCHANGED <<executing, account, pending, alive, spawns, server, starts, stops, met>>

\* At a phase boundary, by a crash, or with the project settled.
EngineEnds(p) ==
    /\ p \in alive
    /\ Kill(p)
    /\ executing' \in {executing, FALSE}
    /\ UNCHANGED <<account, moved, pending, spawns, held, clerk, reconciler, bounds, history>>

Ask(p) ==
    /\ p \in alive /\ ~pending
    /\ pending' = TRUE
    /\ UNCHANGED <<executing, account, moved, alive, spawns, server, bounds, history>>

\* Answered or expired.
Answer ==
    /\ pending
    /\ pending' = FALSE
    /\ UNCHANGED <<executing, account, moved, alive, spawns, server, bounds, history>>

ServerRestarts ==
    /\ \/ "crash" \in Faults
       \/ "restart" \in Faults /\ Quiet
    /\ held' = 0 /\ watched' = {}
    /\ clerk' = [c \in Clerks |-> Resting] /\ reconciler' = Resting
    /\ UNCHANGED <<executing, account, world, bounds, history>>

Next ==
    \/ \E c \in Clerks : CheckStart(c) \/ StartGoesOn(c) \/ BeginStop(c) \/ StopGoesOn(c)
    \/ Reconciler \/ Answer \/ ServerRestarts
    \/ \E p \in Pids : Deadline(p) \/ Progress(p) \/ EngineEnds(p) \/ Ask(p)

Spec == Init /\ [][Next]_vars

\* The reconciler is scheduled, threads go on, timers expire, a question that stays
\* unanswered expires, and the program can be started at last; engines need not do
\* anything by themselves.
FairSpec ==
    /\ Spec
    /\ WF_vars(Reconciler) /\ SF_vars(LaunchAgain) /\ WF_vars(Answer)
    /\ \A c \in Clerks : WF_vars(StartGoesOn(c)) /\ WF_vars(StopGoesOn(c))
    /\ \A p \in Pids : WF_vars(Deadline(p))

-----------------------------------------------------------------------------
(***************************************************************************)
(* Two engines never work on one project ...                               *)
(***************************************************************************)
OneEngine == Cardinality(alive) <= 1

(***************************************************************************)
(* ... unless it is started a second time and operations overlap: with     *)
(* either alone, and restarts of the server between operations, there are  *)
(* never two engines, although the server's handle, the account and the    *)
(* processes are three different records of who runs (the entity           *)
(* ProjectRun.java:15: no second start after a restart).                   *)
(***************************************************************************)
SecondEngineIsRaced == starts <= 1 \/ ~met => OneEngine

(***************************************************************************)
(* A project that was stopped is not started again by anybody but a person *)
(* (ProjectRunServiceImpl.java:192): the account of a stopped project is   *)
(* set to running by a start under way, never by the reconciler alone.     *)
(***************************************************************************)
StartUnderWay == \E c \in Clerks : clerk[c].pc \in {"spawn", "note", "account", "status"}
StoppedStaysDown ==
    [][account.state = "stopped" /\ account'.state = "running" => StartUnderWay]_vars

(***************************************************************************)
(* The fuse: the reconciler does not go on starting engines that get       *)
(* nothing done (with the same exception).  One more than the count allows *)
(* can come after progress, which sets the count to zero at the restart    *)
(* after it.                                                               *)
(***************************************************************************)
FuseHolds == starts <= 1 \/ ~met => barren <= MaxIdle

(***************************************************************************)
(* A project that should have an engine and has none gets one, or ends, or *)
(* is stopped.                                                             *)
(***************************************************************************)
DueEngineComes ==
    (executing /\ account.state = "running" /\ alive = {})
        ~> (alive # {} \/ ~executing \/ account.state = "stopped")

(***************************************************************************)
(* No engine the server holds a handle of lives for ever                   *)
(* (ProjectRunServiceImpl.java:294): not one that hangs, and not one whose *)
(* question nobody answers, unless it goes on asking; a server that        *)
(* restarts loses its handles.                                             *)
(***************************************************************************)
EveryEngineEnds ==
    <>[]~pending =>
        \A p \in Pids : p \in alive /\ held = p ~> p \notin alive \/ held # p

\* Said without the exception: every engine ends (ProjectRunServiceImpl.java:294).
OrphansEndToo ==
    <>[]~pending => \A p \in Pids : p \in alive ~> p \notin alive
=============================================================================
