--------------------------------- MODULE Consult ---------------------------------
(***************************************************************************)
(* The developer consults a station (E/consult.ts, E/consultStation.ts and  *)
(* consultPort of E/developerAgent/index.ts): the question goes out under an *)
(* id, the station answers from what it owns and may amend it, and the reply *)
(* is kept in the ledger, to be used again.  All agents are one process;    *)
(* with it go the messages, the counter of ids and the memory of stations.  *)
(***************************************************************************)
EXTENDS Naturals, Sequences, Functions

CONSTANTS
    Stations,   \* the stations consulted
    Nrs,        \* questions to the architect; the others are asked one thing
    Consults,   \* how often the model consults
    Restarts    \* how often the process is restarted

VARIABLES
    noted,      \* the ledger: requests made, replies in their order
    ids,        \* the counter of ids of this process
    wait,       \* the request whose reply is waited for
    out,        \* requests on their way
    back,       \* replies on their way, the late ones included
    plan,       \* revisions of the plan: in the architect's memory and in the file
    wishes,  \* the clarified requirements in the file of the manager of projects
    heard,      \* what consultStation has returned, the timeouts left out
    consulted,  \* how often it was called
    boots

vars == <<noted, ids, wait, out, back, plan, wishes, heard, consulted, boots>>

CONSULT_ROLES == {"architect", "pm", "test-core", "maintainer"}
Matters == {m \in [role : Stations \intersect CONSULT_ROLES, nr : Nrs] :
                m.role = "architect" \/ m.nr = 1}
Nobody == [id |-> 0]

Init ==
    /\ noted = [requested |-> 0, replied |-> <<>>]
    /\ ids = 0
    /\ wait = Nobody
    /\ out = {} /\ back = {}
    /\ plan = [memory |-> <<>>, file |-> <<>>, made |-> 0]
    /\ wishes = [file |-> <<>>, made |-> 0]
    /\ heard = {}
    /\ consulted = 0
    /\ boots = 0

(***************************************************************************)
(* The developer                                                            *)
(***************************************************************************)

\* Mutant: ids are counted by the replies in the ledger.
IdsByReplies(n) == Len(noted.replied) + 1

newConsultId(n) == n

\* The replies under the same id or to the same question, the last of which is taken.
priorConsultReply(id, q) ==
    {i \in DOMAIN noted.replied : noted.replied[i].id = id \/ noted.replied[i].to = q}

\* A question that was answered is not asked again; its id is used up all the same.
consultPort(q) ==
    LET id == newConsultId(ids + 1)
        prior == priorConsultReply(id, q) IN
    /\ wait = Nobody /\ consulted < Consults
    /\ consulted' = consulted + 1
    /\ ids' = ids + 1
    /\ IF prior # {}
       THEN /\ \E last \in prior :
                  /\ \A i \in prior : i <= last
                  /\ heard' = heard \union
                       {[q |-> q, reply |-> noted.replied[last], boot |-> boots]}
            /\ UNCHANGED <<noted, wait, out>>
       ELSE /\ noted' = [noted EXCEPT !.requested = @ + 1]
            /\ wait' = [id |-> id, q |-> q]
            /\ out' = out \union {[id |-> id, q |-> q]}
            /\ UNCHANGED heard
    /\ UNCHANGED <<back, plan, wishes, boots>>

\* the tool of the model's
consultStation(q) ==
    /\ q.role \in CONSULT_ROLES
    /\ consultPort(q)

\* Who may sign what.
AMENDMENT_ISSUERS == [plan_revision |-> {"architect"}, batch_resend |-> {"architect"},
                      criterion_clarification |-> {"test-core"},
                      requirement_clarification |-> {"pm"},
                      acceptance_note |-> {"maintainer", "test-core"}]
Kinds == DOMAIN AMENDMENT_ISSUERS
Signed(role, kind) == kind \in Kinds /\ role \in AMENDMENT_ISSUERS[kind]

\* An amendment says what it is; its number is the one of the revision or the
\* clarification, for what a batch or a note says is not followed here.
ConsultAmendmentSchema(kind, nr) == [kind |-> kind, nr |-> nr]
NoAmendment == ConsultAmendmentSchema("nothing", 0)

\* The stations sign for themselves alone, and this is looked at on both sides.
ConsultReplySchema(m, amendment) == [id |-> m.id, to |-> m.q, amendment |-> amendment]
parseConsultReply(r) == r.amendment # NoAmendment => Signed(r.to.role, r.amendment.kind)

\* Only the reply with the id is taken; others are set aside.
consultReceives ==
    /\ wait # Nobody
    /\ \E r \in back :
          /\ r.id = wait.id /\ parseConsultReply(r)
          /\ noted' = [noted EXCEPT !.replied = Append(@, r)]
          /\ heard' = heard \union {[q |-> wait.q, reply |-> r, boot |-> boots]}
          /\ back' = back \ {r}
    /\ wait' = Nobody
    /\ UNCHANGED <<ids, out, plan, wishes, consulted, boots>>

\* The model goes on by itself; the request is not taken back.
consultTimesOut ==
    /\ wait # Nobody
    /\ wait' = Nobody
    /\ UNCHANGED <<noted, ids, out, back, plan, wishes, heard, consulted, boots>>

Restart ==
    /\ boots < Restarts
    /\ boots' = boots + 1
    /\ ids' = noted.requested
    /\ wait' = Nobody
    /\ out' = {} /\ back' = {}
    /\ plan' = [plan EXCEPT !.memory = <<>>]
    /\ UNCHANGED <<noted, wishes, heard, consulted>>

(***************************************************************************)
(* The stations                                                             *)
(***************************************************************************)

\* What the model of a station proposes may be nothing, when it fails or is not
\* there too, or not the station's to sign.  Without a model nothing is amended.
parseStationOutput == Kinds \union {"nothing"}

\* The reply bears the amendment that is the station's to sign and was carried out.
handleConsultRequest(m, kind, nr, done) ==
    /\ out' = out \ {m}
    /\ back' = back \union
         {ConsultReplySchema(m, IF Signed(m.q.role, kind) /\ done
                                THEN ConsultAmendmentSchema(kind, nr) ELSE NoAmendment)}
    /\ UNCHANGED <<noted, ids, wait, heard, consulted, boots>>

\* A revision is kept in memory before all of them are written; when that fails it
\* stays there, and is said not to be in force.
applyArchitectAmendment(written) ==
    LET nr == plan.made + 1
        list == Append(plan.memory, nr) IN
    [memory |-> list, file |-> IF written THEN list ELSE plan.file, made |-> nr]

\* The other thing that is the architect's: a batch goes to the developer again, if
\* its file is there.
answerArchitect(m) ==
    \E kind \in parseStationOutput, done \in BOOLEAN :
        LET revised == kind = "plan_revision" IN
        /\ plan' = IF revised THEN applyArchitectAmendment(done) ELSE plan
        /\ handleConsultRequest(m, kind, IF revised THEN plan.made + 1 ELSE 0, done)
        /\ UNCHANGED wishes

\* The loop that drives the phases answers for the manager of projects.  A file that
\* cannot be read counts as one without clarifications.
readRequirementClarifications(read) == IF read THEN wishes.file ELSE <<>>

answerPmConsult(m) ==
    \E kind \in parseStationOutput, read, written \in BOOLEAN :
        LET nr == wishes.made + 1
            done == Signed("pm", kind) /\ written IN
        /\ wishes' = IF done
                        THEN [file |-> Append(readRequirementClarifications(read), nr),
                              made |-> nr]
                        ELSE wishes
        /\ handleConsultRequest(m, kind, nr, done)
        /\ UNCHANGED plan

\* The maintainer and the test station have no model: they tell what they hold.
answerWithoutModel(m) ==
    /\ handleConsultRequest(m, "nothing", 0, FALSE)
    /\ UNCHANGED <<plan, wishes>>

answerConsult ==
    \E m \in out :
        CASE m.q.role = "architect" -> answerArchitect(m)
          [] m.q.role = "pm" -> answerPmConsult(m)
          [] OTHER -> answerWithoutModel(m)

Rest == UNCHANGED vars

Next ==
    \/ \E q \in Matters : consultStation(q)
    \/ consultReceives \/ consultTimesOut \/ Restart
    \/ answerConsult
    \/ Rest

(***************************************************************************)
(* Properties                                                               *)
(***************************************************************************)

TypeOK ==
    /\ ids \in 0..(2 * Consults) /\ consulted \in 0..Consults /\ boots \in 0..Restarts
    /\ wait = Nobody \/ wait.q \in Matters
    /\ \A m \in out : m.q \in Matters
    /\ \A r \in back : r.to \in Matters

ToTheQuestion(h) == h.reply.to = h.q

(* In one process, the reply that the model is given is the one to its        *)
(* question: not a late one to a question that timed out, nor one kept of    *)
(* another (index.ts:551).                                                  *)
RepliesFit ==
    \A h \in heard : h.boot = 0 => ToTheQuestion(h)

(* The same over restarts (index.ts:431, "ids do not collide with those of   *)
(* the last run").  The code does not have it: the counter starts at the     *)
(* number of requests, and a question answered from the ledger takes an id   *)
(* without a request; a later question meets the reply under its id.        *)
RepliesFitForever ==
    \A h \in heard : ToTheQuestion(h)

OnFile(kind) == Range(IF kind = "plan_revision" THEN plan.file ELSE wishes.file)
Numbered == {"plan_revision", "requirement_clarification"}

(* What the model was told is in force stands in the file of revisions or of  *)
(* clarifications (consultStation.ts:399).  The code does not have it: after a *)
(* restart the list of revisions is begun anew and written over the file, and *)
(* clarifications that cannot be read are written over.                      *)
InForceIsOnFile ==
    \A h \in heard : LET a == h.reply.amendment IN
        a.kind \in Numbered => a.nr \in OnFile(a.kind)

(* What is on file was told, or will be: the driver knows it.  The code does   *)
(* not have it: a reply that comes late is not read, and what could not be    *)
(* written before is written with the next revision.                         *)
FileIsKnown ==
    \A kind \in Numbered : \A n \in OnFile(kind) :
        LET a == ConsultAmendmentSchema(kind, n) IN
        \/ \E h \in heard : h.reply.amendment = a
        \/ \E r \in back : r.amendment = a /\ r.id = wait.id
=============================================================================
