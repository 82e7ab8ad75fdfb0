------------------------------- MODULE Acceptance --------------------------------
(***************************************************************************)
(* The judgement of a task: the test engineer (E/testEngineer.ts) takes the  *)
(* developer's request, has a process run the checks and review the project *)
(* (testAgent/src/verify.ts, review.ts), reads what the process says of      *)
(* itself (E/testAgentAdapter.ts) and sends the developer a result.  The     *)
(* process may die, hang, answer for another request or claim what its own  *)
(* evidence does not bear out.                                              *)
(***************************************************************************)
EXTENDS Naturals, Sequences, FiniteSets

CONSTANTS
    CheckCount, \* number of pieces with a check: the blueprint, then the batches
    Asks,       \* how often the developer asks
    Copies      \* how often a request is delivered once more

VARIABLES
    written,    \* pieces the architect has on disk
    mail,       \* requests on their way to the test engineer
    late,       \* requests whose deadline has passed
    copies,
    seen,       \* tickets dealt with
    job,        \* the round under way
    sent        \* what the developer was sent, with the truth of the round

vars == <<written, mail, late, copies, seen, job, sent>>

\* A check that names no command, or one that is not installed, is not run; one
\* that hangs is killed and counts as red.
Outcomes == {"green", "red", "absent"}

\* findings of which one would block, those of no weight are left out
Findings == SUBSET {"major"}
Idle == [at |-> "idle"]

Init ==
    /\ written \in 1..CheckCount
    /\ mail = <<>>
    /\ late = {}
    /\ copies = 0
    /\ seen = {}
    /\ job = Idle
    /\ sent = {}

(***************************************************************************)
(* Around the test engineer                                                 *)
(***************************************************************************)

Tickets == {m.ticket : m \in sent} \union seen \union {mail[i].ticket : i \in DOMAIN mail}

\* The architect may be ahead of the developer, who holds the first pieces.
Write ==
    /\ written < CheckCount
    /\ written' = written + 1
    /\ UNCHANGED <<mail, late, copies, seen, job, sent>>

\* The developer asks with the hash of the checks it holds, once the last request
\* is answered or overdue.
requestTest ==
    LET n == Cardinality(Tickets) IN
    /\ n < Asks
    /\ \A t \in Tickets : t \in late \/ \E m \in sent : m.ticket = t
    /\ \E held \in 1..written : mail' = Append(mail, [ticket |-> n + 1, hash |-> held])
    /\ UNCHANGED <<written, late, copies, seen, job, sent>>

Redeliver ==
    /\ copies < Copies
    /\ mail # <<>>
    /\ mail' = Append(mail, Head(mail))
    /\ copies' = copies + 1
    /\ UNCHANGED <<written, late, seen, job, sent>>

Expire ==
    /\ \E t \in Tickets \ late : late' = late \union {t}
    /\ UNCHANGED <<written, mail, copies, seen, job, sent>>

(***************************************************************************)
(* The round                                                                *)
(***************************************************************************)

Repeated(t) == t \in seen

\* One message at a time; a ticket is marked before anything else is looked at.
handleTestRequest ==
    /\ job = Idle /\ mail # <<>>
    /\ LET req == Head(mail) IN
       IF Repeated(req.ticket) \/ req.ticket \in late
       THEN UNCHANGED job
       ELSE job' = [at |-> "hash", req |-> req]
    /\ seen' = seen \union {Head(mail).ticket}
    /\ mail' = Tail(mail)
    /\ UNCHANGED <<written, late, copies, sent>>

\* A file of a later piece that cannot be read is passed over; without the blueprint, which is
\* the first piece, there is no list.
loadTaskChecks(readable) == IF 1 \in readable THEN readable ELSE {}

\* The checks on disk must be those of the request, else it is dropped unanswered; no list is
\* compared with nothing.
compareHash ==
    /\ job.at = "hash"
    /\ \E readable \in SUBSET (1..written) :
          job' = IF loadTaskChecks(readable) \notin {{}, 1..job.req.hash} THEN Idle
                 ELSE [job EXCEPT !.at = "resolve"]
    /\ UNCHANGED <<written, mail, late, copies, seen, sent>>

\* They are read a second time for the round itself, which is dropped if there are none.
translateChecks ==
    /\ job.at = "resolve"
    /\ \E readable \in SUBSET (1..written) :
          LET checks == loadTaskChecks(readable) IN
          job' = IF checks = {} THEN Idle
                 ELSE [at |-> "run", req |-> job.req, checks |-> checks,
                       missed |-> (1..written) \ readable, ran |-> <<>>]
    /\ UNCHANGED <<written, mail, late, copies, seen, sent>>

\* All checks are run in their order, whatever the ones before yielded; what they
\* yield is the project's affair, and it may be changed meanwhile.
runOne ==
    /\ job.at = "run"
    /\ \E i \in job.checks \ DOMAIN job.ran, o \in Outcomes :
          /\ \A k \in job.checks \ DOMAIN job.ran : i <= k
          /\ job' = [job EXCEPT !.ran = [k \in DOMAIN @ \union {i} |-> IF k = i THEN o ELSE @[k]]]
    /\ UNCHANGED <<written, mail, late, copies, seen, sent>>

Ran(s, kinds) == {i \in DOMAIN s : s[i] \in kinds}

\* the verdict of the machine
verdictOf(ran) ==
    IF Ran(ran, {"red"}) # {} THEN "fail"
    ELSE IF Ran(ran, {"absent"}) # {} THEN "blocked_unverified" ELSE "pass"

\* signals of the scan of sources and pages, which no model can take back
prescanReviewSignals == Findings

NoReview == [verdict |-> "unavailable", findings |-> {}]

\* what the model says, or that it cannot be asked, hangs or breaks its contract
runLlmReview ==
    [verdict : {"pass", "pass with low confidence", "fail", "uncertain"}, findings : Findings]
    \union {NoReview}

decideReview(mechanical, signals, review) ==
    IF mechanical # "pass" THEN mechanical
    ELSE IF "major" \in signals \union review.findings THEN "fail"
    ELSE IF review.verdict = "pass with low confidence" THEN "uncertain"
    ELSE review.verdict

\* The process says what it found.  A round with a check that was not run is
\* not reviewed.
reviewPhase ==
    /\ job.at = "run" /\ DOMAIN job.ran = job.checks
    /\ LET v == verdictOf(job.ran) IN
       \E signals \in IF v = "blocked_unverified" THEN {{}} ELSE prescanReviewSignals,
          review \in IF v = "blocked_unverified" THEN {NoReview} ELSE runLlmReview :
          job' = [at |-> "said", req |-> job.req, checks |-> job.checks,
                  missed |-> job.missed, ran |-> job.ran,
                  verdict |-> v, signals |-> signals, review |-> review,
                  outcome |-> decideReview(v, signals, review)]
    /\ UNCHANGED <<written, mail, late, copies, seen, sent>>

\* It dies, hangs, says something else than a result or answers for another
\* request: an environment failure that the developer is told of.
envFailure ==
    /\ job.at \in {"run", "said"}
    /\ job' = [at |-> "judged", req |-> job.req, kind |-> "failure", origin |-> "env",
               missed |-> job.missed, ran |-> job.ran, review |-> NoReview]
    /\ UNCHANGED <<written, mail, late, copies, seen, sent>>

\* A faulty process claims a verdict and an outcome; its evidence is what it saw.
Claim ==
    /\ job.at = "said" /\ job.verdict # "pass"
    /\ \E o \in {job.outcome, "pass"} : job' = [job EXCEPT !.verdict = "pass", !.outcome = o]
    /\ UNCHANGED <<written, mail, late, copies, seen, sent>>

\* Mutant: the evidence is not gone through again.
BelieveThePass == TRUE

\* every check run, none of them red: a check not run leaves no evidence
EvidenceBearsOut == Ran(job.ran, {"green"}) = job.checks

\* what keeps a green round from passing without being the developer's fault
semanticGateReasons ==
    job.review.verdict # "pass" \/ job.outcome # "pass"

collectBlockingFindings == "major" \in job.signals \union job.review.findings

\* The judgement of the adapter, who takes no verdict on trust.
runTestAgentVerify ==
    /\ job.at = "said"
    /\ LET judged(kind, origin) ==
             [at |-> "judged", req |-> job.req, kind |-> kind, origin |-> origin,
              missed |-> job.missed, ran |-> job.ran, review |-> job.review] IN
       job' =
         IF job.verdict = "blocked_unverified" THEN judged("unverified", "none")
         ELSE IF job.verdict = "fail" THEN judged("failure", "mechanical")
         ELSE IF ~EvidenceBearsOut THEN judged("failure", "env")
         ELSE IF collectBlockingFindings THEN judged("failure", "llm_review")
         ELSE IF semanticGateReasons THEN judged("needs_human", "none")
         ELSE judged("passed", "none")
    /\ UNCHANGED <<written, mail, late, copies, seen, sent>>

\* Only a result in time goes to the developer; what is neither a pass nor a
\* failure goes to an orchestrator, and the team has none (makeTesterDeps).
deliver ==
    /\ job.at = "judged"
    /\ sent' = IF job.req.ticket \in late \/ job.kind \notin {"passed", "failure"} THEN sent
               ELSE sent \union
                      {[nr |-> Cardinality(sent), kind |-> job.kind, ticket |-> job.req.ticket,
                        hash |-> job.req.hash, missed |-> job.missed,
                        ran |-> IF job.kind = "passed" THEN job.ran ELSE <<>>,
                        review |-> IF job.kind = "passed" THEN job.review ELSE NoReview]}
    /\ job' = Idle
    /\ UNCHANGED <<written, mail, late, copies, seen>>

Quiet == UNCHANGED vars

Next ==
    \/ Write \/ requestTest \/ Redeliver \/ Expire
    \/ handleTestRequest \/ compareHash \/ translateChecks \/ runOne
    \/ reviewPhase \/ envFailure \/ Claim \/ runTestAgentVerify \/ deliver
    \/ Quiet

(***************************************************************************)
(* Properties                                                               *)
(***************************************************************************)

TypeOK ==
    /\ written \in 1..CheckCount /\ copies \in 0..Copies
    /\ seen \subseteq 1..Asks /\ late \subseteq 1..Asks
    /\ job.at \in {"idle", "hash", "resolve", "run", "said", "judged"}
    /\ \A m \in sent : m.kind \in {"passed", "failure"} /\ m.ticket \in 1..Asks

(* A pass stands for every check the developer holds that could be read,    *)
(* each one run and green in this round, and for a review that passed       *)
(* without doubt - whatever the process claims, and though the checks are   *)
(* read from disk twice (testAgentAdapter.ts:15, "no pass is ever forged"). *)
PassIsEarned ==
    \A m \in sent : m.kind = "passed" =>
        /\ \A i \in 1..m.hash \ m.missed : i \in DOMAIN m.ran /\ m.ran[i] = "green"
        /\ m.review = [verdict |-> "pass", findings |-> {}]

(* The same of every check the developer holds.  The code does not have it:   *)
(* a file that cannot be read is passed over in silence                      *)
(* (developerTeamRunner.ts:988).                                            *)
PassCoversAll ==
    \A m \in sent : m.kind = "passed" =>
        \A i \in 1..m.hash : i \in DOMAIN m.ran /\ m.ran[i] = "green"

(* A request has one answer, however often it is delivered                  *)
(* (testEngineer.ts:276): a second one would meet the repair of the first.  *)
OneAnswerPerRequest ==
    \A m, n \in sent : m.ticket = n.ticket => m = n

(* A request that is dealt with in time is answered.  The code does not have *)
(* it: what a person must look at goes to nobody, and a request whose checks *)
(* are fewer than those on disk is dropped; the developer waits it out.     *)
AnsweredOrOverdue ==
    job = Idle => \A t \in seen \ late : \E m \in sent : m.ticket = t
=============================================================================
