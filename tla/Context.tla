-------------------------------- MODULE Context --------------------------------
(***************************************************************************)
(* How the history of a tool loop is kept within the model's window        *)
(* (developerAgent/contextCompaction.ts, contextBudget.ts).  Before every  *)
(* request the guard measures the history; over one line it has it         *)
(* summarised and replaced, over another it does not send at all.  After   *)
(* three failed summaries in a row it gives up, and remembers that in the  *)
(* ledger, since memory and history end with the loop.                     *)
(*                                                                         *)
(* A history is a sequence of entries of some size in tokens.  An entry    *)
(* for a tool call becomes two messages, the call and its result, which    *)
(* the provider accepts together only.  Left out: the texts, the clearing  *)
(* of old results (off by default), the restoring of files (the messages   *)
(* it makes have no way back into the history), the budget (ToolLoop).     *)
(***************************************************************************)
EXTENDS Integers, FiniteSets, Sequences, SequencesExt

CONSTANTS
    Settings,        \* what may be set: records of pro, all, env (a window or 0)
                     \* and suffix (the model's name ends in [1m])
    SuffixWindow, DefaultWindow,
    Reserve,         \* what is kept free for an answer: min(max output, 20 000)
    Sizes,           \* tokens of an entry
    Summaries,       \* tokens of a summary
    MaxFailures,     \* MAX_CONSECUTIVE_AUTOCOMPACT_FAILURES
    MaxRetries,      \* MAX_PTL_RETRIES
    MaxEntries       \* bound: entries ever appended

VARIABLES
    window,   \* the window in force
    hist,     \* the history of the loop
    turn,     \* "append", "guard", "summary", "full"
    request,  \* the messages last given to be summarised, and the retries so far
    tracking, \* in the ledger: failures in a row, summaries made
    count,    \* entries appended
    fails,    \* history: summaries that failed since the last that succeeded
    since     \* history: entries of earlier loops

cvars == <<window, hist, turn, request, tracking, count, fails, since>>

-----------------------------------------------------------------------------
(* The lines. *)

\* the tier's own setting, the common one, the model's name, the environment
resolveContextWindow(s) ==
    CASE s.pro # 0 -> s.pro
      [] s.pro = 0 /\ s.all # 0 -> s.all
      [] s.pro = 0 /\ s.all = 0 /\ s.suffix -> SuffixWindow
      [] s.pro = 0 /\ s.all = 0 /\ ~s.suffix /\ s.env # 0 -> s.env
      [] OTHER -> DefaultWindow

Smaller(a, b) == IF a <= b THEN a ELSE b
Larger(a, b)  == IF a >= b THEN a ELSE b

getEffectiveContextWindowSize(w) == Larger(1, w - Smaller(Reserve, w \div 2))

\* absolute buffers of a window of 200 000 tokens, in proportion
ratioBuffer(eff, thousands) == (eff * thousands) \div 180

getAutoCompactThreshold(w) ==
    LET eff == getEffectiveContextWindowSize(w) IN eff - ratioBuffer(eff, 13)

getBlockingLimit(w) ==
    LET eff == getEffectiveContextWindowSize(w) IN eff - ratioBuffer(eff, 3)

-----------------------------------------------------------------------------
(* Messages. *)

Entry(kind, id, size, tells) == [kind |-> kind, id |-> id, size |-> size, tells |-> tells]

historyToMessages(h) ==
    FlattenSeq([i \in DOMAIN h |->
        IF h[i].kind = "call"
        THEN <<[h[i] EXCEPT !.kind = "use"], [h[i] EXCEPT !.kind = "result"]>>
        ELSE <<h[i]>>])

tokenCount(h) == FoldSeq(LAMBDA e, n : e.size + n, 0, h)

\* where the rounds begin: with a call, except perhaps the first
RoundStarts(ms) == {1} \cup {i \in DOMAIN ms : ms[i].kind = "use"}

Marker == Entry("marker", 0, 0, {})
Unmarked(ms) == IF ms # <<>> /\ ms[1] = Marker THEN Tail(ms) ELSE ms

\* Mutant: the head is cut by messages instead of rounds.
truncateMessages(ms) ==
    LET input == Unmarked(ms) IN
    IF Len(input) < 2 THEN <<>> ELSE SubSeq(input, 1 + Larger(1, Len(input) \div 5), Len(input))

\* a fifth of the rounds is dropped, at least one, never all; <<>> if there is one only
truncateHeadForPTLRetry(ms) ==
    LET input  == Unmarked(ms)
        starts == RoundStarts(input)
        drop   == Larger(1, Cardinality(starts) \div 5)
        first  == CHOOSE i \in starts : Cardinality({j \in starts : j < i}) = drop
        left   == SubSeq(input, first, Len(input))
    IN IF Cardinality(starts) < 2 THEN <<>>
       ELSE (IF left[1].kind = "use" THEN <<Marker>> ELSE <<>>) \o left

Ids(ms, kind) == {ms[i].id : i \in {j \in DOMAIN ms : ms[j].kind = kind}}

\* the tail from start, begun earlier if a result in it lacks its call
adjustIndexToPreserveAPIInvariants(ms, start) ==
    LET tail   == SubSeq(ms, start, Len(ms))
        needed == Ids(tail, "result") \ Ids(tail, "use")
    IN Min({start} \cup {j \in 1..(start - 1) : ms[j].kind = "use" /\ ms[j].id \in needed})

\* what a summary made elsewhere keeps beside it, by position: a tail of any length,
\* without boundaries
MessagesToKeep(ms) ==
    {{j \in adjustIndexToPreserveAPIInvariants(ms, start)..Len(ms) : ms[j].kind # "boundary"}
        : start \in DOMAIN ms}

\* each result among these positions has its call among them, further ahead
Paired(ms, places) ==
    \A i \in places : ms[i].kind = "result" =>
        \E j \in places : j < i /\ ms[j].kind = "use" /\ ms[j].id = ms[i].id

-----------------------------------------------------------------------------
NoRequest == [ms |-> <<>>, retries |-> 0]

Init ==
    /\ window \in {resolveContextWindow(s) : s \in Settings}
    /\ hist = <<>> /\ turn = "guard"
    /\ request = NoRequest
    /\ tracking = [failures |-> 0, version |-> 0]
    /\ count = 0 /\ fails = 0 /\ since = 0

\* the model has answered: a tool call, or a refusal or a reminder of the loop's own
Append1(kind, size) ==
    /\ turn = "append" /\ count < MaxEntries
    /\ count' = count + 1
    /\ hist' = Append(hist, Entry(kind, count', size, {count'}))
    /\ turn' = "guard"
    /\ UNCHANGED <<window, request, tracking, fails, since>>

Used == tokenCount(hist)
Over == Used >= getAutoCompactThreshold(window)

\* nothing to be done, nothing to be done it with, or given up: only the blocking
\* limit counts
Pass(canSummarize) ==
    /\ turn = "guard"
    /\ ~Over \/ ~canSummarize \/ tracking.failures >= MaxFailures
    /\ turn' = IF Used >= getBlockingLimit(window) THEN "full" ELSE "append"
    /\ UNCHANGED <<window, hist, request, tracking, count, fails, since>>

\* what lies before the last boundary is not sent again
AfterBoundary(ms) ==
    SubSeq(ms, Max({1} \cup {i \in DOMAIN ms : ms[i].kind = "boundary"}), Len(ms))

Compact ==
    /\ turn = "guard" /\ Over /\ tracking.failures < MaxFailures
    /\ turn' = "summary"
    /\ request' = [ms |-> AfterBoundary(historyToMessages(hist)), retries |-> 0]
    /\ UNCHANGED <<window, hist, tracking, count, fails, since>>

Told(ms) == UNION {ms[i].tells : i \in DOMAIN ms}

\* the history becomes a boundary and the summary, and is measured again
Summarised(size) ==
    LET new == <<Entry("boundary", 0, 0, {}), Entry("summary", 0, size, Told(request.ms))>> IN
    /\ turn = "summary"
    /\ hist' = new
    /\ tracking' = [failures |-> 0, version |-> tracking.version + 1]
    /\ fails' = 0
    /\ turn' = IF tokenCount(new) >= getBlockingLimit(window) THEN "full" ELSE "append"
    /\ UNCHANGED <<window, request, count, since>>

Count(long) ==
    /\ tracking' = [tracking EXCEPT !.failures = @ + 1]
    /\ fails' = fails + 1

Fail(long) ==
    /\ Count(long)
    /\ turn' = IF Used >= getBlockingLimit(window) THEN "full" ELSE "append"
    /\ UNCHANGED <<window, hist, request, count, since>>

\* the request for a summary is itself too long: again without the oldest rounds
TooLong ==
    LET ms == truncateHeadForPTLRetry(request.ms) IN
    /\ turn = "summary"
    /\ IF request.retries < MaxRetries /\ ms # <<>>
       THEN /\ request' = [ms |-> ms, retries |-> request.retries + 1]
            /\ UNCHANGED <<window, hist, turn, tracking, count, fails, since>>
       ELSE Fail(TRUE)

SummaryFails == turn = "summary" /\ Fail(FALSE)

\* the loop has ended, or the process; the next one begins with an empty history
NewLoop ==
    /\ hist # <<>>
    /\ hist' = <<>> /\ turn' = "guard" /\ request' = NoRequest
    /\ since' = count
    /\ UNCHANGED <<window, tracking, count, fails>>

Next ==
    \/ \E size \in Sizes, kind \in {"call", "note"} : Append1(kind, size)
    \/ \E can \in BOOLEAN : Pass(can)
    \/ Compact \/ \E size \in Summaries : Summarised(size)
    \/ TooLong \/ SummaryFails \/ NewLoop
    \/ turn = "append" /\ count = MaxEntries /\ UNCHANGED cvars

Spec == Init /\ [][Next]_cvars

-----------------------------------------------------------------------------
TypeOK ==
    /\ turn \in {"append", "guard", "summary", "full"}
    /\ tracking.failures \in 0..MaxFailures
    /\ request.retries \in 0..MaxRetries
    /\ \A i \in DOMAIN hist : hist[i].tells \subseteq 1..count

(* No request ever holds a result without its call, however often its head *)
(* is cut off, and no tail that may be kept beside a summary does.         *)
PairsStayTogether ==
    /\ Paired(request.ms, DOMAIN request.ms)
    /\ LET ms == historyToMessages(hist)
       IN  \A kept \in MessagesToKeep(ms) : Paired(ms, kept)

(* Summaries are not tried for ever: at most three in a row fail, whatever *)
(* they fail of, over all loops of the task and over crashes.              *)
BreakerHolds == fails <= MaxFailures

(* What happened in the loop is in the history or told by its summary, so  *)
(* that no chain of compactions loses its beginning                        *)
(* (contextBudget.ts:241).  The code does not have it: when a request for  *)
(* a summary is too long, the first round cut is the one with the summary. *)
ChainsAreKept == turn # "summary" /\ hist # <<>> => Told(hist) = (since + 1)..count
=============================================================================
