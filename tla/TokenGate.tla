------------------------------ MODULE TokenGate ------------------------------
(***************************************************************************)
(* The token gate of agent/engine/concurrency.ts: at most `limit` callers  *)
(* are inside, the limit is read again at every check and may be changed   *)
(* at any moment from the settings page, the others queue.                 *)
(*                                                                         *)
(* JavaScript runs one synchronous segment at a time, so an action is one  *)
(* segment: the check of acquire() up to its await, the body of release(), *)
(* or the continuation of a caller release() has woken.  Between the       *)
(* wake-up and the continuation any other segment may run, and a newcomer  *)
(* may take the token the woken caller was meant for.                      *)
(***************************************************************************)
EXTENDS Integers, Sequences, FiniteSets

CONSTANTS
    Callers,       \* the concurrent users of one gate
    Settings,      \* values the settings table may hold for this gate
    NoSetting,     \* the settings have not been read (or the read failed)
    DefaultLimit,  \* the built-in limit used then (6 for llm, 5 for a station)
    MinLimit,      \* lower and upper bound of every limit that can be in force
    MaxLimit,
    MaxCalls       \* bound: calls of acquire() per caller

\* A settings row that is missing, or whose column is NULL or 0, leaves the
\* built-in default; a negative number counts as 1.
LimitUnder(s) == IF s \in {NoSetting, 0} THEN DefaultLimit
                 ELSE IF s < 1 THEN 1 ELSE s

ASSUME CallersFinite == IsFiniteSet(Callers)

ASSUME LimitBounds ==
    /\ MinLimit \in Nat \ {0} /\ MaxLimit \in Nat /\ MaxCalls \in Nat
    /\ \A s \in Settings \cup {NoSetting} :
           LimitUnder(s) \in Nat /\ MinLimit <= LimitUnder(s) /\ LimitUnder(s) <= MaxLimit

VARIABLES
    setting,  \* what runtimeSettings() returns now
    inUse,    \* tokens handed out
    waiters,  \* callers whose wake-up callback is queued, in order
    state,    \* where each caller is
    calls     \* calls each caller has made (bounds the model)

vars == <<setting, inUse, waiters, state, calls>>

Limit == LimitUnder(setting)

In(where) == {c \in Callers : state[c] = where}

TypeOK ==
    /\ setting \in Settings \cup {NoSetting}
    /\ inUse \in Nat
    /\ waiters \in Seq(Callers)
    /\ state \in [Callers -> {"out", "queued", "woken", "inside"}]
    /\ calls \in [Callers -> 0..MaxCalls]

Init ==
    /\ setting = NoSetting
    /\ inUse = 0
    /\ waiters = <<>>
    /\ state = [c \in Callers |-> "out"]
    /\ calls = [c \in Callers |-> 0]

\* Mutant: the counter is only incremented when the limit leaves room for two.
TryAcquireCountingLate(c) ==
    \/ /\ inUse < Limit
       /\ inUse' = IF inUse + 1 < Limit THEN inUse + 1 ELSE inUse
       /\ state' = [state EXCEPT ![c] = "inside"]
       /\ UNCHANGED waiters
    \/ /\ inUse >= Limit
       /\ waiters' = Append(waiters, c)
       /\ state' = [state EXCEPT ![c] = "queued"]
       /\ UNCHANGED inUse

(***************************************************************************)
(* One pass of the loop in acquire(): take a token if one is free, else    *)
(* push the callback at the tail and await.                                *)
(***************************************************************************)
TryAcquire(c) ==
    \/ /\ inUse < Limit
       /\ inUse' = inUse + 1
       /\ state' = [state EXCEPT ![c] = "inside"]
       /\ UNCHANGED waiters
    \/ /\ inUse >= Limit
       /\ waiters' = Append(waiters, c)
       /\ state' = [state EXCEPT ![c] = "queued"]
       /\ UNCHANGED inUse

\* A new call of acquire().
Acquire(c) ==
    /\ state[c] = "out"
    /\ calls[c] < MaxCalls
    /\ calls' = [calls EXCEPT ![c] = @ + 1]
    /\ TryAcquire(c)
    /\ UNCHANGED setting

\* The continuation of a woken caller checks again.
Resume(c) ==
    /\ state[c] = "woken"
    /\ TryAcquire(c)
    /\ UNCHANGED <<setting, calls>>

\* Mutant: the token comes back and nobody is woken.
ReleaseWithoutWake(c) ==
    /\ state[c] = "inside"
    /\ inUse' = inUse - 1
    /\ state' = [state EXCEPT ![c] = "out"]
    /\ UNCHANGED <<setting, waiters, calls>>

\* release(): give the token back and wake the first waiter, if there is one.
Release(c) ==
    /\ state[c] = "inside"
    /\ inUse' = inUse - 1
    /\ IF waiters = <<>>
       THEN /\ state' = [state EXCEPT ![c] = "out"]
            /\ UNCHANGED waiters
       ELSE /\ state' = [state EXCEPT ![c] = "out", ![Head(waiters)] = "woken"]
            /\ waiters' = Tail(waiters)
    /\ UNCHANGED <<setting, calls>>

\* The 30 s refresh of the settings, or a test pinning the limit.
ChangeSetting(s) ==
    /\ setting' = s
    /\ UNCHANGED <<inUse, waiters, state, calls>>

Next ==
    \/ \E c \in Callers : Acquire(c) \/ Resume(c) \/ Release(c)
    \/ \E s \in Settings : ChangeSetting(s)

Spec == Init /\ [][Next]_vars

\* A continuation that is ready runs; whoever holds a token gives it back (the
\* callers wrap the work in try/finally and the work has its own time limit).
FairSpec == Spec /\ \A c \in Callers : WF_vars(Resume(c)) /\ WF_vars(Release(c))

-----------------------------------------------------------------------------
(***************************************************************************)
(* The counter agrees with the callers inside, and the queue holds exactly *)
(* the callers that sleep, each once: a token that leaked or a callback    *)
(* queued twice would show here long before it stalls the pipeline.        *)
(***************************************************************************)
Accounting ==
    /\ inUse = Cardinality(In("inside"))
    /\ \A c \in Callers : state[c] = "queued" <=> \E i \in 1..Len(waiters) : waiters[i] = c
    /\ \A i, j \in 1..Len(waiters) : waiters[i] = waiters[j] => i = j

(***************************************************************************)
(* No lost wake-up (concurrency.ts:41): while somebody sleeps, callers     *)
(* that hold a token or have been woken fill at least the smallest limit   *)
(* ever in force, so a release() is still to come that wakes the sleeper.  *)
(* Overtaking newcomers and changes of the limit must not break it.        *)
(***************************************************************************)
NoLostWakeup ==
    waiters # <<>> => inUse + Cardinality(In("woken")) >= MinLimit

(***************************************************************************)
(* Lowering the limit never evicts, so more than the current limit may be  *)
(* inside, but never more than the largest limit that was in force.        *)
(***************************************************************************)
InsideAtMostLargest == inUse <= MaxLimit

(***************************************************************************)
(* Everybody who queued gets in, however the limit moves, provided the     *)
(* newcomers that can overtake them are finitely many (MaxCalls).          *)
(***************************************************************************)
QueuedGetsIn == \A c \in Callers : state[c] = "queued" ~> state[c] = "inside"

(***************************************************************************)
(* concurrency.ts:12 says that raising the limit on the settings page      *)
(* admits more at once: nobody would sleep while a token is free and no    *)
(* wake-up is on its way.                                                  *)
(***************************************************************************)
RaiseAdmitsAtOnce ==
    waiters # <<>> => inUse + Cardinality(In("woken")) >= Limit
=============================================================================
