------------------------------ MODULE Hub_proofs ------------------------------
(***************************************************************************)
(* Proofs about one name of the bus with a single receiver loop, for any   *)
(* number of messages.  The account, the sleeper's promise and the order   *)
(* of delivery are inductive together with one more fact: as long as the   *)
(* name has no status nothing has been sent, so that registering it wipes  *)
(* an empty box.                                                           *)
(***************************************************************************)
EXTENDS Hub, SequenceTheorems, TLAPS

\* Every name is read by one loop at a time.
SoleReceiver == \A r, s \in Receivers : r = s

UnregisteredIsUntouched ==
    ~registered => inbox = <<>> /\ pendingCount = 0 /\ ~isProcessing

Inv ==
    /\ TypeOK
    /\ AccountMatchesBox
    /\ SleeperCanBeWoken
    /\ ExactlyOnceInOrder
    /\ UnregisteredIsUntouched

-----------------------------------------------------------------------------
\* Moving the head of the box to the end of the log changes no position.
LEMMA HandOutKeepsOrder ==
    ASSUME NEW d \in Seq(Messages), NEW q \in Seq(Messages), q # <<>>
    PROVE  Append(d, Head(q)) \o Tail(q) = d \o q
<1>. DEFINE lhs == Append(d, Head(q)) \o Tail(q)
            rhs == d \o q
<1>1. lhs \in Seq(Messages) /\ rhs \in Seq(Messages) /\ Len(lhs) = Len(rhs)
  OBVIOUS
<1>2. ASSUME NEW i \in 1..Len(lhs)  PROVE lhs[i] = rhs[i]
  OBVIOUS
<1>. QED
  BY <1>1, <1>2, SeqEqual

\* The first n messages in the order of sending.
FirstMessages(n) == [i \in 1..n |-> i]

\* A new message is the next number at the end.
LEMMA SendKeepsOrder ==
    ASSUME NEW d \in Seq(Messages), NEW q \in Seq(Messages), NEW n \in Nat,
           d \o q = FirstMessages(n), n + 1 \in Messages
    PROVE  d \o Append(q, n + 1) = FirstMessages(n + 1)
<1>. DEFINE e == Append(q, n + 1)
            lhs == d \o e
<1>0. Len(d) \in Nat /\ Len(q) \in Nat /\ Len(d \o q) = Len(d) + Len(q)
  OBVIOUS
<1>1. Len(d \o q) = n /\ Len(d) + Len(q) = n
  <2>1. Len(FirstMessages(n)) = n
    BY DEF FirstMessages
  <2>. QED
    BY <1>0, <2>1
<1>2. e \in Seq(Messages) /\ Len(e) = Len(q) + 1 /\ e[Len(e)] = n + 1
  OBVIOUS
<1>3. ASSUME NEW j \in 1..Len(q)  PROVE e[j] = q[j]
  OBVIOUS
<1>. HIDE DEF e
<1>4. lhs \in Seq(Messages) /\ Len(lhs) = n + 1
  <2>0. e \in Seq(Messages)
    BY <1>2
  <2>1. lhs \in Seq(Messages)
    BY <2>0
  <2>2. Len(lhs) = Len(d) + Len(e)
    BY <2>0
  <2>. QED
    BY <1>0, <1>1, <1>2, <2>1, <2>2
<1>5. ASSUME NEW i \in 1..(n + 1)  PROVE lhs[i] = i
  <2>1. CASE i \in 1..Len(d)
    <3>1. lhs[i] = d[i] /\ (d \o q)[i] = d[i]
      BY <1>2, <2>1
    <3>2. i \in 1..n
      BY <1>1, <2>1
    <3>3. (d \o q)[i] = i
      BY <3>2 DEF FirstMessages
    <3>. QED
      BY <3>1, <3>3
  <2>2. CASE i - Len(d) \in 1..Len(q)
    <3>1. lhs[i] = e[i - Len(d)] /\ (d \o q)[i] = q[i - Len(d)]
      BY <1>2, <2>2
    <3>2. i \in 1..n
      BY <1>1, <2>2
    <3>3. (d \o q)[i] = i
      BY <3>2 DEF FirstMessages
    <3>. QED
      BY <1>3, <2>2, <3>1, <3>3
  <2>3. CASE i = n + 1
    <3>1. i - Len(d) = Len(e)
      BY <1>0, <1>1, <1>2, <2>3
    <3>2. lhs[i] = e[i - Len(d)]
      BY <1>2, <3>1
    <3>. QED
      BY <1>2, <2>3, <3>1, <3>2
  <2>4. i \in 1..Len(d) \/ i - Len(d) \in 1..Len(q) \/ i = n + 1
    <3>. HIDE DEF lhs
    <3>. QED
      BY <1>0, <1>1
  <2>. QED
    BY <2>1, <2>2, <2>3, <2>4
<1>. HIDE DEF lhs
<1>6. lhs = [i \in 1..(n + 1) |-> i]
  BY <1>4, <1>5
<1>. QED
  BY <1>6 DEF FirstMessages, lhs, e

-----------------------------------------------------------------------------
\* With one loop per name, whoever is not this receiver does not exist.
LEMMA SoleBusy ==
    ASSUME SoleReceiver, NEW r \in Receivers
    PROVE  Busy = IF pc[r] = "handed" THEN {r} ELSE {}
BY DEF SoleReceiver, Busy

\* Nothing is sent, handed out or pending before the first step.
LEMMA InitInv == Init => Inv
<1>. SUFFICES ASSUME Init PROVE Inv
  OBVIOUS
<1>. USE DEF Init
<1>1. TypeOK
  <2>1. sent \in 0..MaxSent /\ pendingCount \in Nat
    BY HubConstants
  <2>2. inbox \in Seq(Messages) /\ delivered \in Seq(Messages)
    OBVIOUS
  <2>3. signaled \in BOOLEAN /\ isProcessing \in BOOLEAN /\ registered \in BOOLEAN
    OBVIOUS
  <2>4. /\ resolver \in Receivers \cup {Nobody}
        /\ pc \in [Receivers -> {"new", "calling", "asleep", "woken", "handed"}]
    OBVIOUS
  <2>. QED
    BY <2>1, <2>2, <2>3, <2>4 DEF TypeOK
<1>2. Busy = {} /\ Asleep = {}
  BY DEF Busy, Asleep
<1>3. ExactlyOnceInOrder
  <2>1. [i \in 1..0 |-> i] = <<>>
    OBVIOUS
  <2>. QED
    BY <2>1 DEF ExactlyOnceInOrder
<1>. QED
  BY <1>1, <1>2, <1>3 DEF Inv, AccountMatchesBox, SleeperCanBeWoken, UnregisteredIsUntouched

\* Registering a name that has no status wipes nothing.
LEMMA StartInv ==
    ASSUME Inv, SoleReceiver, NEW r \in Receivers, Start(r)
    PROVE  Inv' /\ UNCHANGED <<inbox, delivered>>
<1>. USE DEF Inv
<1>1. UNCHANGED <<inbox, pendingCount, isProcessing, sent, delivered>>
  BY DEF Start, UnregisteredIsUntouched, TypeOK
<1>2. TypeOK'
  BY <1>1 DEF Start, TypeOK
<1>3. Asleep' = {} /\ Busy' = {} /\ Busy = {}
  BY DEF Start, TypeOK, SoleReceiver, Asleep, Busy
<1>. QED
  BY <1>1, <1>2, <1>3 DEF Start, AccountMatchesBox, SleeperCanBeWoken,
     ExactlyOnceInOrder, UnregisteredIsUntouched

\* A send that finds the flag down wakes the sleeper; with the flag up there
\* is no sleeper.
LEMMA SendInv ==
    ASSUME Inv, SoleReceiver, Send
    PROVE  Inv'
<1>. USE DEF Inv
<1>0. sent \in Nat /\ sent + 1 \in Messages
  BY HubConstants DEF Send, TypeOK, Messages
<1>1. TypeOK'
  <2>1. sent' \in 0..MaxSent /\ inbox' \in Seq(Messages) /\ pendingCount' \in Nat
    BY <1>0, HubConstants DEF Send, TypeOK
  <2>2. /\ signaled' \in BOOLEAN /\ resolver' \in Receivers \cup {Nobody}
        /\ pc' \in [Receivers -> {"new", "calling", "asleep", "woken", "handed"}]
    BY DEF Send, WakeAgent, TypeOK
  <2>. QED
    BY <2>1, <2>2 DEF Send, TypeOK
<1>2. Busy' = Busy
  <2>1. CASE isProcessing
    BY <2>1 DEF Send, Busy
  <2>2. CASE ~isProcessing
    <3>1. Busy = {}
      BY <2>2 DEF AccountMatchesBox, TypeOK
    <3>2. Busy' = {}
      BY <2>2, <3>1 DEF Send, WakeAgent, Busy, TypeOK
    <3>. QED
      BY <3>1, <3>2
  <2>. QED
    BY <2>1, <2>2
<1>3. AccountMatchesBox'
  BY <1>0, <1>2 DEF Send, AccountMatchesBox, TypeOK
<1>4. Asleep' = {}
  <2>1. CASE isProcessing
    BY <2>1 DEF Send, Asleep, SleeperCanBeWoken
  <2>2. CASE ~isProcessing
    <3>1. SUFFICES ASSUME NEW s \in Receivers, pc'[s] = "asleep"  PROVE FALSE
      BY DEF Asleep
    <3>2. pc' = IF resolver = Nobody THEN pc ELSE [pc EXCEPT ![resolver] = "woken"]
      BY <2>2 DEF Send, WakeAgent
    <3>3. pc[s] = "asleep"
      BY <3>1, <3>2 DEF TypeOK
    <3>4. resolver = s /\ resolver # Nobody
      BY <3>3, HubConstants DEF SleeperCanBeWoken, Asleep
    <3>. QED
      BY <3>1, <3>2, <3>4 DEF TypeOK
  <2>. QED
    BY <2>1, <2>2
<1>5. ExactlyOnceInOrder'
  <2>1. delivered \in Seq(Messages) /\ inbox \in Seq(Messages)
    BY DEF TypeOK
  <2>2. delivered \o inbox = FirstMessages(sent)
    BY DEF ExactlyOnceInOrder, FirstMessages
  <2>3. delivered \o Append(inbox, sent + 1) = FirstMessages(sent + 1)
    BY <1>0, <2>1, <2>2, SendKeepsOrder
  <2>. QED
    BY <2>3 DEF Send, ExactlyOnceInOrder, FirstMessages
<1>. QED
  BY <1>1, <1>3, <1>4, <1>5 DEF Send, SleeperCanBeWoken, UnregisteredIsUntouched

\* A receiver that finds the box empty has nothing in hand either, so the flag
\* is down when it goes to sleep.
LEMMA PollInv ==
    ASSUME Inv, SoleReceiver, NEW r \in Receivers, Poll(r)
    PROVE  Inv'
<1>. USE DEF Inv
<1>0. Busy = {}
  BY SoleBusy DEF Poll
<1>1. CASE /\ inbox # <<>>
           /\ delivered' = Append(delivered, Head(inbox))
           /\ inbox' = Tail(inbox)
           /\ pc' = [pc EXCEPT ![r] = "handed"]
           /\ UNCHANGED <<signaled, resolver>>
  <2>1. TypeOK'
    BY <1>1 DEF Poll, TypeOK
  <2>2. Busy' = {r}
    BY <1>0, <1>1 DEF Busy, TypeOK
  <2>3. AccountMatchesBox'
    BY <1>0, <1>1, <2>2 DEF Poll, AccountMatchesBox, TypeOK
  <2>4. Asleep' = {}
    BY <1>1 DEF Asleep, SoleReceiver, TypeOK
  <2>5. ExactlyOnceInOrder'
    BY <1>1, HandOutKeepsOrder DEF Poll, ExactlyOnceInOrder, TypeOK
  <2>. QED
    BY <1>1, <2>1, <2>3, <2>4, <2>5 DEF Poll, SleeperCanBeWoken, AccountMatchesBox,
       UnregisteredIsUntouched, TypeOK
<1>2. CASE /\ inbox = <<>>
           /\ signaled' = FALSE
           /\ resolver' = r
           /\ pc' = [pc EXCEPT ![r] = "asleep"]
           /\ UNCHANGED <<inbox, delivered>>
  <2>1. TypeOK'
    BY <1>2 DEF Poll, TypeOK
  <2>2. Busy' = {}
    BY <1>0, <1>2 DEF Busy, TypeOK
  <2>3. ~isProcessing
    BY <1>0, <1>2 DEF AccountMatchesBox, TypeOK
  <2>. QED
    BY <1>0, <1>2, <2>1, <2>2, <2>3 DEF Poll, AccountMatchesBox, Asleep,
       SleeperCanBeWoken, SoleReceiver, ExactlyOnceInOrder, UnregisteredIsUntouched
<1>. QED
  BY <1>1, <1>2 DEF Poll

\* The receiver that marks its message done is awake, so clearing the stored
\* promise forgets nobody.
LEMMA MarkDoneInv ==
    ASSUME Inv, SoleReceiver, NEW r \in Receivers, MarkDone(r)
    PROVE  Inv'
<1>. USE DEF Inv
<1>1. TypeOK'
  <2>1. /\ inbox' \in Seq(Messages) /\ delivered' \in Seq(Messages)
        /\ sent' \in 0..MaxSent /\ registered' \in BOOLEAN
    BY DEF MarkDone, TypeOK
  <2>2. pendingCount' \in Nat
    <3>1. Busy # {}
      BY SoleBusy DEF MarkDone
    <3>2. pendingCount = Len(inbox) + 1 /\ Len(inbox) \in Nat
      BY <3>1 DEF AccountMatchesBox, TypeOK
    <3>. QED
      BY <3>2 DEF MarkDone
  <2>3. pc' \in [Receivers -> {"new", "calling", "asleep", "woken", "handed"}]
    BY DEF MarkDone, TypeOK
  <2>4. resolver' \in Receivers \cup {Nobody}
    BY DEF MarkDone, TypeOK
  <2>5. isProcessing' \in BOOLEAN /\ signaled' \in BOOLEAN
    BY Zenon DEF MarkDone, TypeOK
  <2>. QED
    BY <2>1, <2>2, <2>3, <2>4, <2>5 DEF TypeOK
<1>2. Busy = {r} /\ Busy' = {}
  BY DEF MarkDone, Busy, SoleReceiver, TypeOK
<1>3. AccountMatchesBox'
  BY <1>2 DEF MarkDone, AccountMatchesBox, TypeOK
<1>4. Asleep' = {}
  BY DEF MarkDone, Asleep, SoleReceiver, TypeOK
<1>. QED
  BY <1>1, <1>2, <1>3, <1>4 DEF MarkDone, SleeperCanBeWoken, ExactlyOnceInOrder,
     AccountMatchesBox, UnregisteredIsUntouched, TypeOK

\* One step of the bus keeps the invariant.
LEMMA NextInv == SoleReceiver /\ Inv /\ [Next]_vars => Inv'
<1>. SUFFICES ASSUME SoleReceiver, Inv, [Next]_vars PROVE Inv'
  OBVIOUS
<1>1. CASE Send
  BY <1>1, SendInv
<1>2. ASSUME NEW r \in Receivers, Start(r)  PROVE Inv'
  BY <1>2, StartInv
<1>3. ASSUME NEW r \in Receivers, Poll(r)  PROVE Inv'
  BY <1>3, PollInv
<1>4. ASSUME NEW r \in Receivers, MarkDone(r)  PROVE Inv'
  BY <1>4, MarkDoneInv
<1>5. CASE UNCHANGED vars
  BY <1>5 DEF vars, hubVars, Inv, TypeOK, AccountMatchesBox, SleeperCanBeWoken,
     ExactlyOnceInOrder, UnregisteredIsUntouched, Busy, Asleep
<1>. QED
  BY <1>1, <1>2, <1>3, <1>4, <1>5 DEF Next

(***************************************************************************)
(* Every reachable state of a bus name with one receiver loop has all the  *)
(* properties above: this is the invariant the two theorems read off.      *)
(***************************************************************************)
THEOREM HubInvariant ==
    ASSUME SoleReceiver
    PROVE  Spec => []Inv
<1>1. Inv /\ [Next]_vars => Inv'
  BY NextInv
<1>. QED
  BY InitInv, <1>1, PTL DEF Spec

(***************************************************************************)
(* No lost wake-up in waitForMessage/sendMessage/markDone: a sleeping      *)
(* receiver has an empty box and the next sender wakes it.                 *)
(***************************************************************************)
THEOREM SleepersCanBeWoken ==
    ASSUME SoleReceiver
    PROVE  Spec => []SleeperCanBeWoken
BY HubInvariant, PTL DEF Inv

(***************************************************************************)
(* pendingCount counts what lies in the box or is in hand, and the flag    *)
(* that suppresses wake-ups is up exactly while it is positive.            *)
(***************************************************************************)
THEOREM AccountsMatchBoxes ==
    ASSUME SoleReceiver
    PROVE  Spec => []AccountMatchesBox
BY HubInvariant, PTL DEF Inv

(***************************************************************************)
(* sendMessage and waitForMessage together implement the mailbox: exactly  *)
(* once, in order.                                                         *)
(***************************************************************************)
THEOREM HubImplementsMailbox ==
    ASSUME SoleReceiver
    PROVE  Spec => ImplementsMailbox
<1>1. Init => Box!MailboxInit
  BY DEF Init, Box!MailboxInit
<1>2. ASSUME Inv, [Next]_vars
      PROVE  [Box!MailboxNext]_(Box!mailboxVars)
  <2>. USE DEF Box!mailboxVars
  <2>1. CASE Send
    <3>1. sent + 1 \in Messages
      BY <1>2, <2>1, HubConstants DEF Inv, TypeOK, Send, Messages
    <3>. QED
      BY <2>1, <3>1 DEF Send, Box!MailboxNext, Box!Put
  <2>2. ASSUME NEW r \in Receivers, Start(r)  PROVE UNCHANGED <<inbox, delivered>>
    BY <1>2, <2>2, StartInv
  <2>3. ASSUME NEW r \in Receivers, Poll(r)
        PROVE  Box!Take \/ UNCHANGED <<inbox, delivered>>
    BY <2>3 DEF Poll, Box!Take
  <2>4. ASSUME NEW r \in Receivers, MarkDone(r)  PROVE UNCHANGED <<inbox, delivered>>
    BY <2>4 DEF MarkDone
  <2>5. CASE UNCHANGED vars
    BY <2>5 DEF vars, hubVars
  <2>. QED
    BY <1>2, <2>1, <2>2, <2>3, <2>4, <2>5 DEF Next, Box!MailboxNext
<1>. QED
  BY <1>1, <1>2, HubInvariant, PTL DEF Spec, ImplementsMailbox, Box!MailboxSpec
=============================================================================
