--------------------------------- MODULE Sandbox ---------------------------------
(***************************************************************************)
(* A task's workspace (developerAgent/workspace.ts) and the running of its  *)
(* commands (tools/processSandbox.ts): a command is free in what it does;    *)
(* what must not be written is looked at before, in between and after.  At    *)
(* the same time a service of the task may run, and what other processes of   *)
(* the project or of CrewForge itself write is there as well.                *)
(***************************************************************************)
EXTENDS Naturals, FiniteSets

CONSTANTS
    Commands,   \* commands and services begun
    Slots,      \* processes at a time
    MaxWrites   \* writes of what is guarded

VARIABLES
    setting,    \* how commands are to be run
    kept,       \* what is guarded: its mark of time, 0 when it is not there; the last one
    entries,    \* rows of the ledger
    code,       \* places that the developer's tools have written
    command,    \* the command at work
    services,   \* services at work
    ended,      \* what the last command came to
    begins

vars == <<setting, kept, entries, code, command, services, ended, begins>>

(***************************************************************************)
(* Where the tools may read and write                                       *)
(***************************************************************************)

\* In the roots of the task, a test in there, elsewhere in the project, the
\* scripts of the tester, the contract and what else belongs to the engine, what
\* the task's own package forbids, the logs of commands, CrewForge, and the rest.
Places == {"root", "test", "project", "scripts", "engine's", "forbidden", "log",
           "control plane", "beyond"}

InProject == {"root", "test", "project", "scripts", "engine's", "forbidden"}

checkPath(place) ==
    CASE place = "control plane" -> "CONTROL_PLANE"
      [] place \in {"beyond", "log"} -> "ESCAPE"
      [] place = "engine's" -> "ENGINE_OWNED"
      [] place = "test" -> "TEST_SCRIPT"
      [] place = "forbidden" -> "CONTROL_PLANE"
      [] OTHER -> "none"

resolveRead(place) ==
    IF place = "log" THEN "none"
    ELSE IF place \notin InProject THEN "ESCAPE" ELSE checkPath(place)

\* what is forbidden comes before what is allowed, however wide that is
resolveWrite(place) ==
    CASE place \notin InProject -> "ESCAPE"
      [] place \in InProject /\ checkPath(place) # "none" -> checkPath(place)
      [] place = "scripts" -> "TEST_SCRIPT"
      [] place = "project" -> "NOT_IN_ALLOWED_ROOTS"
      [] OTHER -> "none"

(***************************************************************************)
(* How commands are run                                                     *)
(***************************************************************************)

\* A container backend counts if it has an image and its daemon answers.
Settings == [mode : {"strict", "soft"}, docker : BOOLEAN]

\* Isolated, bounded on this machine, or not at all.
resolveSandboxCapabilities(s) ==
    CASE s.mode = "soft" -> "soft"
      [] s.mode = "strict" /\ s.docker -> "real"
      [] OTHER -> "none"

assertAvailable == resolveSandboxCapabilities(setting) # "none"

\* Every process is begun on this machine, whatever the settings.
spawnedIn == "host"

None == [at |-> "none"]
NotYet == [how |-> "none"]

Init ==
    /\ setting \in Settings
    /\ kept \in [mark : {0, 1}, last : {1}]
    /\ entries = 1
    /\ code = {}
    /\ command = None
    /\ services = 0
    /\ ended = NotYet
    /\ begins = 0

\* What is guarded is looked for anew each time, and only what is there is seen, by its time; the
\* walk goes four levels deep and to 4000 entries, passes over node_modules, dist, build and the
\* like and over the roots of the task: what is written there moves no mark.
protectedSnapshot == kept.mark

diffSnapshots(before, after) == after # 0 /\ after # before

integrityDeltas(before, after) == after < before

(***************************************************************************)
(* Commands                                                                 *)
(***************************************************************************)

Refused(how) == ended' = [how |-> how, ok |-> FALSE]

\* a command outside of the project, none allowed by the deployment, none to run it
refuse ==
    /\ command = None /\ begins < Commands
    /\ \/ ~assertAvailable /\ Refused("SANDBOX_UNAVAILABLE")
       \/ assertAvailable /\ Refused("DEPLOYMENT_COMMAND_DENIED")
       \/ \E cwd \in Places : assertAvailable /\ checkPath(cwd) # "none" /\ Refused("PATH_ESCAPE")
       \/ assertAvailable /\ services >= Slots /\ Refused("PROCESS_LIMIT")
    /\ UNCHANGED <<setting, kept, entries, code, command, services, begins>>

\* Mutant: nobody looks again when the command has ended by itself.
PollOnly(c) == c.writes

Violations(c) == c.writes \/ diffSnapshots(c.before, protectedSnapshot)
                          \/ integrityDeltas(c.rows, entries)

run ==
    /\ command = None /\ begins < Commands
    /\ assertAvailable
    /\ services < Slots
    /\ begins' = begins + 1
    /\ command' = [at |-> "runs", before |-> protectedSnapshot, rows |-> entries,
                   watched |-> protectedSnapshot # 0, writes |-> FALSE, cause |-> "none",
                   late |-> FALSE, wrote |-> FALSE, hid |-> FALSE, removed |-> FALSE,
                   where |-> spawnedIn]
    /\ UNCHANGED <<setting, kept, entries, code, services, ended>>

start ==
    /\ assertAvailable
    /\ begins < Commands
    /\ services + (IF command = None THEN 0 ELSE 1) < Slots
    /\ begins' = begins + 1
    /\ services' = services + 1
    /\ UNCHANGED <<setting, kept, entries, code, command, ended>>

stop ==
    /\ services > 0
    /\ services' = services - 1
    /\ UNCHANGED <<setting, kept, entries, code, command, ended, begins>>

\* What is guarded is written or removed: by the command, or by somebody else.
touch(byCommand) ==
    /\ byCommand => command.at = "runs"
    /\ \/ /\ kept.last < MaxWrites
          /\ kept' = [mark |-> kept.last + 1, last |-> kept.last + 1]
          /\ command' = IF byCommand THEN [command EXCEPT !.wrote = TRUE] ELSE command
       \/ /\ kept.mark # 0
          /\ kept' = [kept EXCEPT !.mark = 0]
          /\ command' = IF command = None THEN None
                        ELSE [command EXCEPT !.removed = @ \/ byCommand, !.wrote = FALSE]
    /\ UNCHANGED <<setting, entries, code, services, ended, begins>>

\* The command writes where the walk does not come, or puts the time back after it has written.
conceal ==
    /\ command.at = "runs" /\ kept.mark # 0
    /\ \/ /\ command' = [command EXCEPT !.hid = TRUE]
          /\ UNCHANGED kept
       \/ /\ command.wrote /\ command.before # 0
          /\ kept' = [kept EXCEPT !.mark = command.before]
          /\ command' = [command EXCEPT !.hid = TRUE, !.wrote = FALSE]
    /\ UNCHANGED <<setting, entries, code, services, ended, begins>>

\* The command takes rows out of the ledger, or the developer enters some.
rows ==
    /\ \/ command.at = "runs" /\ entries > 0 /\ entries' = entries - 1
       \/ entries < 2 /\ entries' = entries + 1
    /\ UNCHANGED <<setting, kept, code, command, services, ended, begins>>

\* the poll, which ends the command and itself
watch ==
    /\ command.at = "runs" /\ command.watched
    /\ diffSnapshots(command.before, protectedSnapshot)
    /\ command' = [command EXCEPT !.writes = TRUE, !.watched = FALSE, !.cause = "violation"]
    /\ UNCHANGED <<setting, kept, entries, code, services, ended, begins>>

timeout ==
    /\ command.at = "runs" /\ ~command.late
    /\ command' = [command EXCEPT !.late = TRUE, !.cause = "timeout"]
    /\ UNCHANGED <<setting, kept, entries, code, services, ended, begins>>

\* A green one is one that has ended by itself, in time, and has done nothing seen.
Verdict(c, exit) ==
    LET measured == ~c.late /\ c.cause # "violation"
    IN [how |-> "ran", seen |-> Violations(c), killed |-> c.cause,
        ok |-> measured /\ exit = 0 /\ ~Violations(c),
        wrote |-> c.wrote, hid |-> c.hid, removed |-> c.removed]

awaitExit ==
    /\ command.at = "runs"
    /\ \E exit \in {0, 1} : ended' = Verdict(command, exit)
    /\ command' = None
    /\ UNCHANGED <<setting, kept, entries, code, services, begins>>

\* Written beside and put in place at once.
writeAtomic(place) ==
    /\ resolveWrite(place) = "none"
    /\ code' = code \union {place}
    /\ UNCHANGED <<setting, kept, entries, command, services, ended, begins>>

Next ==
    \/ refuse \/ run \/ start \/ stop \/ conceal \/ rows \/ watch \/ timeout \/ awaitExit
    \/ \E byCommand \in BOOLEAN : touch(byCommand)
    \/ \E place \in Places : writeAtomic(place)
    \/ UNCHANGED vars

(***************************************************************************)
(* Properties                                                               *)
(***************************************************************************)

TypeOK ==
    /\ setting \in Settings /\ kept.mark \in 0..kept.last /\ entries \in 0..2
    /\ code \subseteq Places /\ services \in 0..Slots /\ begins \in 0..Commands
    /\ command.at \in {"none", "runs"}

(* A command is not called green that has written what is guarded, where the   *)
(* walk of a look comes, and has left it there with its new time, though it    *)
(* did so between two polls or where there was nothing to guard before, and    *)
(* whoever ran beside it (processSandbox.ts, run).                             *)
GreenIsClean ==
    ended.how = "ran" /\ ended.ok => ~ended.wrote /\ ended.killed = "none"

(* The same of one that has written out of the walk, or put the time back. The  *)
(* code does not have it.                                                      *)
GreenHasNotWritten ==
    ended.how = "ran" /\ ended.ok => ~ended.wrote /\ ~ended.hid

(* The same of one that has removed it.  The code does not have it: only what is *)
(* there afterwards is compared.                                               *)
RemovalIsSeen ==
    ended.how = "ran" /\ ended.ok => ~ended.removed

(* A command is blamed for its own writes (workspace.ts, protectedSnapshot).    *)
(* The code does not have it: whoever writes, the command at work is ended.     *)
BlameIsJust ==
    ended.how = "ran" /\ ended.killed = "violation" => ended.wrote \/ ended.hid \/ ended.removed

(* What calls itself isolated is (processSandbox.ts:219).  The code does not have  *)
(* it: with the settings for a container processes are begun on this machine.    *)
IsolationIsReal ==
    command.at = "runs" /\ resolveSandboxCapabilities(setting) = "real"
        => command.where = "container"
=============================================================================
