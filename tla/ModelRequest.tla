----------------------------- MODULE ModelRequest -----------------------------
(***************************************************************************)
(* One request_json call of openrouter_api.py, seen by the node thread     *)
(* that makes it.  Every try starts a daemon worker that opens, reads and  *)
(* decodes the response and leaves it in a queue of its own; the caller    *)
(* waits for the worker until the hard deadline and abandons it then, so   *)
(* an abandoned worker runs on beside the tries that follow.  The worker's *)
(* socket times out when one operation is silent for the same time: a      *)
(* response that trickles never does.  The body of an HTTP error is read   *)
(* by the caller itself, after the deadline-bounded part.                  *)
(*                                                                         *)
(* Time is counted in ticks, and a step that is due is taken before the    *)
(* clock goes on.                                                          *)
(***************************************************************************)
EXTENDS Integers

CONSTANTS
  MaxRetries,     \* 0 for a model call, 1 for a catalog or policy probe
  Deadline,       \* timeout_seconds: of the whole try, and of one socket operation
  BodyReads,      \* most socket reads that exc.read(2000) can take
  NoResponse

\* What a worker can leave in its queue.
Response == {"ok", "tools", "malformed", "http402", "http_retryable",
             "http_fatal", "unreachable", "dropped", "silent"}

ASSUME RequestAssumption ==
  /\ MaxRetries \in Nat /\ BodyReads \in Nat
  /\ Deadline \in Nat \ {0}
  /\ NoResponse \notin Response

Try == 0 .. MaxRetries

HttpError == {"http402", "http_retryable", "http_fatal"}

\* Failures that request_json tries again: RETRYABLE_HTTP_CODES, URLError, and
\* timeouts of the deadline or the socket.
Retryable == {"http_retryable", "unreachable", "silent"}

(***************************************************************************)
(* _failure_from_exception: what the engine makes of the call's end, in    *)
(* the outcome classes of ExpertRuntime.  "raw" is an exception that       *)
(* request_json does not convert, without category or status.              *)
(***************************************************************************)
Verdict(ended) ==
  CASE ended = "ok"         -> "answer"
    [] ended = "tools"      -> "contract"
    [] ended = "http402"    -> "credit402"
    [] ended \in Retryable  -> "transient"
    [] OTHER                -> "invalid"

VARIABLES
  pc,          \* the caller: send, join, body, sleep, returned
  attempt,
  clock,       \* ticks since the current try's worker was started
  worker,      \* of each try: idle, reading, closing, exited
  box,         \* of each try: its results queue
  quiet,       \* of each try: ticks since its socket last moved
  reads,       \* socket reads of the error body so far
  abandoned,   \* tries given up at the deadline
  verdict

vars == <<pc, attempt, clock, worker, box, quiet, reads, abandoned, verdict>>

Init ==
  /\ pc = "send"
  /\ attempt = 0
  /\ clock = 0
  /\ worker = [k \in Try |-> "idle"]
  /\ box = [k \in Try |-> NoResponse]
  /\ quiet = [k \in Try |-> 0]
  /\ reads = 0
  /\ abandoned = {}
  /\ verdict = "none"

(***************************************************************************)
(* The workers                                                             *)
(***************************************************************************)
\* A byte, or the end of a socket operation.
Progress(k) ==
  /\ worker[k] = "reading"
  /\ quiet' = [quiet EXCEPT ![k] = 0]
  /\ UNCHANGED <<pc, attempt, clock, worker, box, reads, abandoned, verdict>>

Put(k, response) ==
  /\ worker[k] = "reading"
  /\ box' = [box EXCEPT ![k] = response]
  /\ worker' = [worker EXCEPT ![k] = "closing"]
  /\ UNCHANGED <<pc, attempt, clock, quiet, reads, abandoned, verdict>>

Respond(k) == \E response \in Response \ {"silent"} : Put(k, response)

SocketTimeout(k) == quiet[k] >= Deadline /\ Put(k, "silent")

Exit(k) ==
  /\ worker[k] = "closing"
  /\ worker' = [worker EXCEPT ![k] = "exited"]
  /\ UNCHANGED <<pc, attempt, clock, box, quiet, reads, abandoned, verdict>>

(***************************************************************************)
(* The caller                                                              *)
(***************************************************************************)
Send ==
  /\ pc = "send"
  /\ worker' = [worker EXCEPT ![attempt] = "reading"]
  /\ clock' = 0
  /\ pc' = "join"
  /\ UNCHANGED <<attempt, box, quiet, reads, abandoned, verdict>>

Return(ended) == pc' = "returned" /\ verdict' = Verdict(ended)

\* The end of one try.
Conclude(ended) ==
  IF ended \in Retryable /\ attempt < MaxRetries
  THEN pc' = "sleep" /\ UNCHANGED verdict
  ELSE Return(ended)

\* (mutant) The deadline is left to the socket timeout.
GiveUpOnSilence ==
  /\ pc = "join"
  /\ quiet[attempt] >= Deadline
  /\ worker[attempt] # "exited"
  /\ abandoned' = abandoned \cup {attempt}
  /\ Conclude("silent")
  /\ UNCHANGED <<attempt, clock, worker, box, quiet, reads>>

\* (mutant) The deadline is looked at, not whether the worker is alive.
GiveUpUnasked ==
  /\ pc = "join"
  /\ clock >= Deadline
  /\ abandoned' = abandoned \cup (IF worker[attempt] # "exited" THEN {attempt} ELSE {})
  /\ Conclude("silent")
  /\ UNCHANGED <<attempt, clock, worker, box, quiet, reads>>

\* join returned at the deadline and the worker is alive, whatever it may
\* already have left in its queue.
GiveUp ==
  /\ pc = "join"
  /\ clock >= Deadline
  /\ worker[attempt] # "exited"
  /\ abandoned' = abandoned \cup {attempt}
  /\ Conclude("silent")
  /\ UNCHANGED <<attempt, clock, worker, box, quiet, reads>>

Collect ==
  /\ pc = "join"
  /\ worker[attempt] = "exited"
  /\ IF box[attempt] \in HttpError
     THEN /\ pc' = "body"
          /\ quiet' = [quiet EXCEPT ![attempt] = 0]
          /\ UNCHANGED verdict
     ELSE Conclude(box[attempt]) /\ UNCHANGED quiet
  /\ UNCHANGED <<attempt, clock, worker, box, reads, abandoned>>

ReadBody ==
  /\ pc = "body"
  /\ reads < BodyReads
  /\ reads' = reads + 1
  /\ quiet' = [quiet EXCEPT ![attempt] = 0]
  /\ UNCHANGED <<pc, attempt, clock, worker, box, abandoned, verdict>>

BodyRead ==
  /\ pc = "body"
  /\ Conclude(box[attempt])
  /\ reads' = 0
  /\ UNCHANGED <<attempt, clock, worker, box, quiet, abandoned>>

\* The socket times out or is reset under exc.read: the handler itself raises.
BodyLost ==
  /\ pc = "body"
  /\ reads < BodyReads
  /\ Return("raw")
  /\ UNCHANGED <<attempt, clock, worker, box, quiet, reads, abandoned>>

\* After _retry_delay.
Retry ==
  /\ pc = "sleep"
  /\ attempt' = attempt + 1
  /\ pc' = "send"
  /\ UNCHANGED <<clock, worker, box, quiet, reads, abandoned, verdict>>

(***************************************************************************)
(* Time                                                                    *)
(***************************************************************************)
BodyDue == pc = "body" /\ (quiet[attempt] >= Deadline \/ reads = BodyReads)

Due ==
  \/ pc = "send" \/ BodyDue
  \/ pc = "join" /\ (clock >= Deadline \/ worker[attempt] = "exited")
  \/ \E k \in Try : worker[k] = "reading" /\ quiet[k] >= Deadline

\* Sockets that are waited on: the workers', and the error body's.
Listening ==
  {k \in Try : worker[k] = "reading" \/ (pc = "body" /\ k = attempt)}

Tick ==
  /\ ~Due
  /\ clock' = IF pc \in {"join", "body"} THEN clock + 1 ELSE clock
  /\ quiet' = [k \in Try |-> IF k \in Listening THEN quiet[k] + 1 ELSE quiet[k]]
  /\ UNCHANGED <<pc, attempt, worker, box, reads, abandoned, verdict>>

Caller ==
  \/ Send \/ GiveUp \/ Collect \/ ReadBody \/ BodyRead \/ BodyLost \/ Retry

Worker(k) == Progress(k) \/ Respond(k) \/ SocketTimeout(k) \/ Exit(k)

Next == Caller \/ Tick \/ \E k \in Try : Worker(k)

Spec == Init /\ [][Next]_vars

(***************************************************************************)
(* Time passes and threads are scheduled; what a server sends, and when,   *)
(* is not assumed: Progress and Respond have no fairness, so a response    *)
(* may trickle for ever.                                                   *)
(***************************************************************************)
Scheduling ==
  /\ WF_vars(Tick)
  /\ WF_vars(Send) /\ WF_vars(GiveUp) /\ WF_vars(Collect) /\ WF_vars(Retry)
  /\ WF_vars(BodyDue /\ (BodyRead \/ BodyLost))
  /\ \A k \in Try : WF_vars(SocketTimeout(k)) /\ WF_vars(Exit(k))

FairSpec == Spec /\ Scheduling

(***************************************************************************)
(* Properties                                                              *)
(***************************************************************************)
\* Every variable holds a value of its kind; no try is made beyond the last.
TypeOK ==
  /\ pc \in {"send", "join", "body", "sleep", "returned"}
  /\ attempt \in Try
  /\ clock \in Nat
  /\ worker \in [Try -> {"idle", "reading", "closing", "exited"}]
  /\ box \in [Try -> Response \cup {NoResponse}]
  /\ quiet \in [Try -> Nat]
  /\ reads \in 0 .. BodyReads
  /\ abandoned \in SUBSET Try
  /\ verdict \in {"none", "answer", "contract", "credit402", "transient", "invalid"}

\* How long one try holds the node's thread.  The deadline bounds a response
\* however it trickles, but the body of an HTTP error is read after it: there
\* the bound is one socket timeout for each read.
HeldBound == clock <= Deadline * (1 + BodyReads)

\* The last try decides.  The call returns an answer exactly when the worker of
\* its last try was done with one before it was given up: no answer that came in
\* time is dropped, and none of an abandoned worker is taken for that of a later
\* try.  And it is the last because nothing that settles the matter came before:
\* a request is sent again only after an abandoned try or a failure that may
\* pass, never after an answer, a rejected one, a 402 or a verdict on the request.
LastTryDecides ==
  \A k \in Try :
    /\ k < attempt \/ pc = "returned" =>
         (k \notin abandoned /\ box[k] = "ok") = (k = attempt /\ verdict = "answer")
    /\ k < attempt => k \in abandoned \/ box[k] \in Retryable

\* A call is settled by its last try, and no try holds the thread for longer
\* than its bound.
CallSound == HeldBound /\ LastTryDecides

\* "Classify account-level 402 responses separately from model failures": a
\* 402 that the server sent in time reaches the engine as one.
Account402Reported ==
  pc = "returned" /\ attempt \notin abandoned /\ box[attempt] = "http402"
    => verdict = "credit402"

\* The call ends, even when a response trickles for ever.
CallReturns == <>(pc = "returned")

=============================================================================
