------------------------------- MODULE Mailbox -------------------------------
(***************************************************************************)
(* What the message bus of agent/engine/Hub.ts promises to one receiver:   *)
(* every message put into its box is handed out exactly once, in the order *)
(* of sending.  How a receiver sleeps and is woken is not visible here.    *)
(***************************************************************************)
EXTENDS Integers, Sequences

CONSTANT Messages

VARIABLES
    queue,     \* sent and not handed out yet
    delivered  \* handed out so far, in order

mailboxVars == <<queue, delivered>>

MailboxInit == queue = <<>> /\ delivered = <<>>

Put(m) ==
    /\ queue' = Append(queue, m)
    /\ UNCHANGED delivered

Take ==
    /\ queue # <<>>
    /\ delivered' = Append(delivered, Head(queue))
    /\ queue' = Tail(queue)

MailboxNext == Take \/ \E m \in Messages : Put(m)

MailboxSpec == MailboxInit /\ [][MailboxNext]_mailboxVars
=============================================================================
