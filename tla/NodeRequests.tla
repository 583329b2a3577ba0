----------------------------- MODULE NodeRequests -----------------------------
(***************************************************************************)
(* What one node asks of its models, call after call: the output allowance *)
(* and the deadline of each request, and what a truncated answer or a      *)
(* timeout teaches the calls that follow.                                  *)
(*                                                                         *)
(* A lesson is kept twice.  The node's state keeps floors for whatever     *)
(* model comes next; the candidate that is adapted keeps a multiplier,     *)
(* which a fresh candidate starts without.                                 *)
(***************************************************************************)
EXTENDS Integers, Sequences, FiniteSets

CONSTANTS
  Selected,       \* the planned model: [model, rank, visible]
  Rows,           \* the candidates for its recovery
  Precision,      \* decimals kept of a multiplier (10^6 in the code)
  Cap,            \* model_timeout_seconds of the run
  MinimumTimeout, \* _INFRASTRUCTURE_MINIMUM_TIMEOUT_SECONDS
  PromptTokens    \* the estimate of the assembled prompt

ASSUME RequestsAssumption ==
  /\ \A m \in Rows \cup {Selected} : m.rank \in 0..6 /\ m.visible \in Nat \ {0}
  /\ Precision \in Nat \ {0}
  /\ Cap \in Nat \ {0} /\ MinimumTimeout \in Nat
  /\ PromptTokens \in Nat \ {0}

VARIABLES
  turn,       \* idle, bind, sent, failed, settled
  kind,       \* initial, retry, replacement
  candidate,  \* the node about to be called, with its parameter profile
  asked,      \* the request that is out
  attempts,   \* the node's attempts, in order
  floors,     \* _continuous_node_state: what the node has learned
  untried     \* rows that recovery has not taken yet

requestVars == <<turn, kind, candidate, asked, attempts, floors, untried>>

CeilDiv(a, b) == (a + b - 1) \div b
Larger(a, b) == IF a > b THEN a ELSE b
Smaller(a, b) == IF a < b THEN a ELSE b

\* The square root of a token count, rounded up.
Root(n) == Cardinality({r \in 1..n : (r - 1) * (r - 1) < n})

\* _candidate: a row comes with a profile of its own, nothing learned in it.
Fresh(row) == [row |-> row, rank |-> row.rank, stretch |-> Precision,
               patience |-> Precision, tokens |-> 0, seconds |-> 0]

NoRequest == [allowance |-> 0, deadline |-> 0]

\* Before the node's first call.
Unasked ==
  /\ kind = "initial"
  /\ candidate = Fresh(Selected)
  /\ asked = NoRequest
  /\ attempts = <<>>
  /\ floors = [tokens |-> 0, seconds |-> 0]
  /\ untried = Rows

RequestsInit == turn = "bind" /\ Unasked

------------------------------------------------------------------------------
\* dynamic_output_allowance: the visible answer, a reserve for reasoning by the
\* rank of the effort, and what truncation taught this candidate.
Reserve(c) == CeilDiv(c.row.visible * (7 + c.rank), 7)
Baseline(c) == CeilDiv(Reserve(c) * c.stretch, Precision)

Allowance(c) == Larger(Baseline(c), c.tokens)

\* dynamic_model_timeout_seconds, from the payload as it will be sent.
Mass(c) == Root(PromptTokens) + Root(Allowance(c))
Patience(c) == CeilDiv(CeilDiv(Mass(c) * (7 + c.rank), 7) * c.patience, Precision)
Timeout(c) ==
  Smaller(Cap, Larger(Smaller(Cap, MinimumTimeout), Larger(Patience(c), c.seconds)))

BindRequest ==
  /\ turn = "bind"
  /\ asked' = [allowance |-> Allowance(candidate), deadline |-> Timeout(candidate)]
  /\ turn' = "sent"
  /\ UNCHANGED <<kind, candidate, attempts, floors, untried>>

\* A gate in front of the call says no: there is no attempt.
SuppressRequest ==
  /\ turn = "bind"
  /\ turn' = IF attempts = <<>> THEN "settled" ELSE "failed"
  /\ UNCHANGED <<kind, candidate, asked, attempts, floors, untried>>

------------------------------------------------------------------------------
\* How a call ends: passed, truncated, timeout, saturated (an empty answer,
\* reasoning took the output), rejected.  A truncated one reports the tokens it
\* completed; latency is in seconds, and a call that is given up at its deadline
\* has waited that long, while a gateway may time out before.
Outcome == {"passed", "truncated", "timeout", "saturated", "rejected"}
Completions(a) == {a \div 4, a \div 2, a, a + 1}
Latencies(d) == {1, d}

\* _record_feedback on a truncation: half as much again for an answer that used
\* half of its allowance, a quarter at the least and twice at the most.
TokensLearned(allowance, completed) ==
  LET given == Larger(1, allowance)
  IN IF completed >= given THEN 2 * completed
     ELSE IF 4 * completed <= given THEN CeilDiv(5 * given, 4)
     ELSE given + completed

\* _record_feedback on a timeout.  The binding that says what the deadline was
\* is attached to the attempt after feedback: only the latency is known here.
SecondsLearned(latency) == 2 * Larger(1, latency)

Learn(a) ==
  floors' = CASE a.outcome = "truncated" ->
                   [floors EXCEPT !.tokens =
                      Larger(@, TokensLearned(a.allowance, a.completed))]
              [] a.outcome = "timeout" ->
                   [floors EXCEPT !.seconds = Larger(@, SecondsLearned(a.latency))]
              [] OTHER -> floors

Ended(outcome, completed, latency) ==
  LET a == [row |-> candidate.row, kind |-> kind, allowance |-> asked.allowance,
            deadline |-> asked.deadline, outcome |-> outcome,
            completed |-> completed, latency |-> latency]
  IN /\ attempts' = Append(attempts, a)
     /\ Learn(a)

EndRequest ==
  /\ turn = "sent"
  /\ \E outcome \in Outcome :
       /\ \E completed \in IF outcome = "truncated" THEN Completions(asked.allowance)
                           ELSE {0} :
            \E latency \in IF outcome = "timeout" THEN Latencies(asked.deadline) ELSE {1} :
              Ended(outcome, completed, latency)
       /\ turn' = IF outcome = "passed" THEN "settled" ELSE "failed"
  /\ UNCHANGED <<kind, candidate, asked, untried>>

------------------------------------------------------------------------------
\* What the next call takes over from the attempt before it.
Last == attempts[Len(attempts)]

Rounded(a, b) == (2 * a + b) \div (2 * b)

\* By a quarter more at the least, twice at the most, kept to its decimals.
Stretched(multiplier, used, given) ==
  Rounded(Larger(multiplier, Precision)
            * Larger(5 * given, 4 * (given + Smaller(used, given))), 4 * given)

\* (mutant) Only the latest lesson is handed on.
FloorsOfLast(c) ==
  [c EXCEPT !.tokens = IF Last.outcome = "truncated" THEN Larger(@, floors.tokens) ELSE @,
            !.seconds = IF Last.outcome = "timeout" THEN Larger(@, floors.seconds) ELSE @]

\* ContinuousSpatiotemporalExecutionEngine: the node's floors.
Floored(c) == [c EXCEPT !.tokens = Larger(@, floors.tokens),
                        !.seconds = Larger(@, floors.seconds)]

\* EvidenceCompleteExecutionEngine: the multipliers, from the attempt before.
Multiplied(c) ==
  CASE Last.outcome = "truncated" ->
         [c EXCEPT !.stretch = Stretched(@, Last.completed, Larger(1, Last.allowance))]
    [] Last.outcome = "timeout" ->
         [c EXCEPT !.patience = Stretched(@, Last.latency, Larger(1, Last.deadline))]
    [] OTHER -> c

\* _visible_output_only_candidate: no reasoning, the effort is minimal.
VisibleOnly(c) == [c EXCEPT !.rank = 1]

Adapted(c, saturated) ==
  Floored(Multiplied(IF saturated THEN VisibleOnly(c) ELSE c))

\* A truncated call is repeated once on the model that was truncated, the first
\* one of a node and the first one of each replacement.
RepairDue == Last.outcome = "truncated" /\ Last.row = candidate.row /\ kind # "retry"

RepairTruncated ==
  /\ turn = "failed"
  /\ RepairDue
  /\ candidate' = Adapted(candidate, FALSE)
  /\ kind' = "retry"
  /\ turn' = "bind"
  /\ UNCHANGED <<asked, attempts, floors, untried>>

Replace(row) ==
  /\ turn = "failed"
  /\ ~RepairDue
  /\ row \in untried
  /\ candidate' = Adapted(Fresh(row), Last.outcome = "saturated")
  /\ untried' = untried \ {row}
  /\ kind' = "replacement"
  /\ turn' = "bind"
  /\ UNCHANGED <<asked, attempts, floors>>

NothingLeft ==
  /\ turn = "failed"
  /\ ~RepairDue
  /\ untried = {}
  /\ turn' = "settled"
  /\ UNCHANGED <<kind, candidate, asked, attempts, floors, untried>>

NextRequest ==
  \/ BindRequest
  \/ SuppressRequest
  \/ EndRequest
  \/ RepairTruncated
  \/ \E row \in Rows : Replace(row)
  \/ NothingLeft

RequestsSpec == RequestsInit /\ [][NextRequest]_requestVars

------------------------------------------------------------------------------
\* What one call has taught is kept by every later call of the node, whatever
\* model it goes to and whatever failed in between.  After a truncation none
\* asks for less than a quarter more than the truncated one, nor for as little
\* as that one had already written; after a deadline that ran out each gets
\* twice as long, or all that the run allows.
LessonsKept ==
  \A j \in DOMAIN attempts : \A i \in 1 .. j - 1 :
    /\ attempts[i].outcome = "truncated" =>
         /\ 4 * attempts[j].allowance >= 5 * attempts[i].allowance
         /\ attempts[j].allowance > attempts[i].completed
    /\ attempts[i].outcome = "timeout" /\ attempts[i].latency >= attempts[i].deadline =>
         attempts[j].deadline >= Smaller(Cap, 2 * attempts[i].deadline)
==============================================================================
