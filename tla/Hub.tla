--------------------------------- MODULE Hub ---------------------------------
(***************************************************************************)
(* One name of the message bus (TransferStation in agent/engine/Hub.ts):   *)
(* its inbox, its load account, the flag that decides whether a sender     *)
(* wakes or only queues, and the receivers that loop                       *)
(*     waitForMessage -> markDone -> waitForMessage ...                    *)
(* A BaseAgent works before markDone, the HubAdapter and the developer     *)
(* line after it; time may pass in both places, so one loop covers both.   *)
(*                                                                         *)
(* An action is one synchronous segment of JavaScript.  A receiver that    *)
(* has been resolved runs its continuation only later.                     *)
(***************************************************************************)
EXTENDS Integers, Sequences

CONSTANTS
    Receivers,  \* loops that call waitForMessage of this name
    Nobody,     \* no resolver is stored
    MaxSent     \* bound: messages sent in one behaviour

ASSUME HubConstants == MaxSent \in Nat /\ Nobody \notin Receivers

Messages == 1..MaxSent

VARIABLES
    inbox,         \* Hub.inbox
    signaled,      \* Hub._signaled
    resolver,      \* whose promise Hub._resolve would resolve
    pendingCount,  \* AgentStatus.pendingCount
    isProcessing,  \* AgentStatus.isProcessing
    registered,    \* an AgentStatus exists under this name
    pc,            \* where each receiver's loop is
    sent,          \* number of messages sent so far
    delivered      \* messages handed out, in order

hubVars == <<inbox, signaled, resolver, pendingCount, isProcessing, registered>>
vars    == <<hubVars, pc, sent, delivered>>

TypeOK ==
    /\ inbox \in Seq(Messages)
    /\ signaled \in BOOLEAN
    /\ resolver \in Receivers \cup {Nobody}
    /\ pendingCount \in Nat
    /\ isProcessing \in BOOLEAN
    /\ registered \in BOOLEAN
    /\ pc \in [Receivers -> {"new", "calling", "asleep", "woken", "handed"}]
    /\ sent \in 0..MaxSent
    /\ delivered \in Seq(Messages)

Init ==
    /\ inbox = <<>>
    /\ signaled = FALSE
    /\ resolver = Nobody
    /\ pendingCount = 0
    /\ isProcessing = FALSE
    /\ registered = FALSE
    /\ pc = [r \in Receivers |-> "new"]
    /\ sent = 0
    /\ delivered = <<>>

\* Hub.set() and Hub.clear().
WakeAgent ==
    /\ signaled' = TRUE
    /\ resolver' = Nobody
    /\ pc' = IF resolver = Nobody THEN pc ELSE [pc EXCEPT ![resolver] = "woken"]

\* A receiver registers its name before it first waits.  register() replaces
\* box and account, so HubAdapter and the developer line probe for an existing
\* status: a message sent before created one, and must survive.
Start(r) ==
    /\ pc[r] = "new"
    /\ pc' = [pc EXCEPT ![r] = "calling"]
    /\ registered' = TRUE
    /\ IF registered
       THEN UNCHANGED <<inbox, signaled, resolver, pendingCount, isProcessing>>
       ELSE /\ inbox' = <<>> /\ pendingCount' = 0
            /\ signaled' = FALSE /\ resolver' = Nobody /\ isProcessing' = FALSE
    /\ UNCHANGED <<sent, delivered>>

\* sendMessage(): the status is created on demand; only the message that finds
\* the receiver idle wakes it, the others stay queued behind it.
Send ==
    /\ sent < MaxSent
    /\ sent' = sent + 1
    /\ inbox' = Append(inbox, sent + 1)
    /\ pendingCount' = pendingCount + 1
    /\ registered' = TRUE
    /\ isProcessing' = TRUE
    /\ IF isProcessing
       THEN UNCHANGED <<signaled, resolver, pc>>
       ELSE WakeAgent
    /\ UNCHANGED delivered

\* Mutant: the head is read and left in the inbox.
PollWithoutShift(r) ==
    /\ pc[r] \in {"calling", "woken"}
    /\ inbox # <<>>
    /\ delivered' = Append(delivered, Head(inbox))
    /\ pc' = [pc EXCEPT ![r] = "handed"]
    /\ UNCHANGED <<hubVars, sent>>

\* One pass of the loop in waitForMessage(): hand out the head, or clear the
\* signal and sleep on a new promise.
Poll(r) ==
    /\ pc[r] \in {"calling", "woken"}
    /\ \/ /\ inbox # <<>>
          /\ delivered' = Append(delivered, Head(inbox))
          /\ inbox' = Tail(inbox)
          /\ pc' = [pc EXCEPT ![r] = "handed"]
          /\ UNCHANGED <<signaled, resolver>>
       \/ /\ inbox = <<>>
          /\ signaled' = FALSE
          /\ resolver' = r
          /\ pc' = [pc EXCEPT ![r] = "asleep"]
          /\ UNCHANGED <<inbox, delivered>>
    /\ UNCHANGED <<pendingCount, isProcessing, registered, sent>>

\* Mutant: the receiver stays marked busy when its last message is done.
MarkDoneStayingBusy(r) ==
    /\ pc[r] = "handed"
    /\ pendingCount' = pendingCount - 1
    /\ pc' = [pc EXCEPT ![r] = "calling"]
    /\ UNCHANGED <<inbox, signaled, resolver, isProcessing, registered, sent, delivered>>

\* markDone(): at zero the receiver becomes idle and the signal is cleared.
MarkDone(r) ==
    /\ pc[r] = "handed"
    /\ pendingCount' = pendingCount - 1
    /\ IF pendingCount = 1
       THEN isProcessing' = FALSE /\ signaled' = FALSE /\ resolver' = Nobody
       ELSE UNCHANGED <<isProcessing, signaled, resolver>>
    /\ pc' = [pc EXCEPT ![r] = "calling"]
    /\ UNCHANGED <<inbox, registered, sent, delivered>>

Next ==
    \/ Send
    \/ \E r \in Receivers : Start(r) \/ Poll(r) \/ MarkDone(r)

Spec == Init /\ [][Next]_vars

\* Continuations that are ready run, and every handler returns (the agents
\* bound their work by timeouts); nothing obliges anybody to send.
FairSpec ==
    Spec /\ \A r \in Receivers :
                WF_vars(Start(r)) /\ WF_vars(Poll(r)) /\ WF_vars(MarkDone(r))

-----------------------------------------------------------------------------
Asleep == {r \in Receivers : pc[r] = "asleep"}
Busy   == {r \in Receivers : pc[r] = "handed"}

(***************************************************************************)
(* The account markDone() alone can lower agrees with the box: what is     *)
(* pending lies in the inbox or is in somebody's hands, and the flag that  *)
(* suppresses wake-ups is up exactly as long as something is pending.      *)
(***************************************************************************)
AccountMatchesBox ==
    /\ pendingCount = Len(inbox) + (IF Busy = {} THEN 0 ELSE 1)
    /\ isProcessing <=> pendingCount > 0

(***************************************************************************)
(* No lost wake-up: a receiver sleeps only beside an empty box, with its   *)
(* promise stored where the next sender finds it and the flag down, so     *)
(* that this sender wakes it.                                              *)
(***************************************************************************)
SleeperCanBeWoken ==
    \A r \in Asleep : inbox = <<>> /\ resolver = r /\ ~isProcessing

(***************************************************************************)
(* Nothing is lost, duplicated or reordered between send and hand-out,     *)
(* whenever the receivers register and whenever they sleep.                *)
(***************************************************************************)
ExactlyOnceInOrder == delivered \o inbox = [i \in 1..sent |-> i]

\* The bus implements the mailbox.
Box == INSTANCE Mailbox WITH queue <- inbox
ImplementsMailbox == Box!MailboxSpec

(***************************************************************************)
(* Every message sent is handed to a handler.                              *)
(***************************************************************************)
EveryMessageArrives ==
    \A n \in Messages : sent >= n ~> \E i \in 1..Len(delivered) : delivered[i] = n

(***************************************************************************)
(* developerAgent/index.ts:982 says that two concurrent waitForMessage     *)
(* calls wake together on one message.                                     *)
(***************************************************************************)
WaitersWakeTogether ==
    \A r, s \in Receivers : pc[r] = "woken" => pc[s] # "asleep"
=============================================================================
