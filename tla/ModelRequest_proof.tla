-------------------------- MODULE ModelRequest_proof --------------------------
(***************************************************************************)
(* What ModelRequest promises for every number of retries, deadline and    *)
(* number of body reads: the types, the time a try may hold the caller,    *)
(* and which try's answer is returned.  And what NodeRequests promises for *)
(* every set of candidates, every effort and every cap: that a lesson of   *)
(* one call is kept by all the later ones.  And what Catalog promises for  *)
(* every list, every endpoint and every order in which fetches end.        *)
(***************************************************************************)
EXTENDS ModelRequest, NodeRequests, Catalog, FiniteSetTheorems, WellFoundedInduction, TLAPS

LEMMA RequestTypes ==
  /\ MaxRetries \in Nat /\ BodyReads \in Nat /\ Deadline \in Nat /\ Deadline > 0
  /\ NoResponse \notin Response
BY RequestAssumption

LEMMA VerdictType ==
  ASSUME NEW ended
  PROVE  Verdict(ended) \in {"answer", "contract", "credit402", "transient", "invalid"}
BY DEF Verdict

\* A try that is slept on is not the last.
RoomToRetry == pc = "sleep" => attempt < MaxRetries

TypeInv == TypeOK /\ RoomToRetry

LEMMA TypeInvariant == Spec => []TypeInv
<1>1. Init => TypeInv
  BY RequestTypes DEF Init, TypeInv, RoomToRetry, TypeOK, Try
<1>2. TypeInv /\ [Next]_vars => TypeInv'
  <2> SUFFICES ASSUME TypeInv, [Next]_vars PROVE TypeInv'
    OBVIOUS
  <2> USE RequestTypes, VerdictType DEF TypeInv, RoomToRetry, TypeOK, Try
  <2>1. CASE Send
    BY <2>1 DEF Send
  <2>2. CASE GiveUp
    BY <2>2 DEF GiveUp, Conclude, Return
  <2>3. CASE Collect
    BY <2>3 DEF Collect, Conclude, Return
  <2>4. CASE ReadBody
    BY <2>4 DEF ReadBody
  <2>5. CASE BodyRead
    BY <2>5 DEF BodyRead, Conclude, Return
  <2>6. CASE BodyLost
    BY <2>6 DEF BodyLost, Return
  <2>7. CASE Retry
    BY <2>7 DEF Retry
  <2>8. CASE Tick
    BY <2>8 DEF Tick
  <2>9. ASSUME NEW k \in Try, Worker(k) PROVE TypeInv'
    <3>1. CASE Progress(k)
      BY <3>1 DEF Progress
    <3>2. ASSUME NEW response \in Response, Put(k, response) PROVE TypeInv'
      BY <3>2 DEF Put
    <3>3. CASE Exit(k)
      BY <3>3 DEF Exit
    <3> QED BY <2>9, <3>1, <3>2, <3>3
            DEF Worker, Respond, SocketTimeout, Response
  <2>10. CASE UNCHANGED vars
    BY <2>10 DEF vars
  <2> QED BY <2>1, <2>2, <2>3, <2>4, <2>5, <2>6, <2>7, <2>8, <2>9, <2>10
          DEF Next, Caller
<1> QED BY <1>1, <1>2, PTL DEF Spec

\* Every variable keeps a value of its kind, and no try is made beyond the last.
THEOREM TypeCorrect == Spec => []TypeOK
<1>1. TypeInv => TypeOK
  BY DEF TypeInv
<1> QED BY <1>1, TypeInvariant, PTL

(***************************************************************************)
(* How long a try holds the caller.  Waiting for the worker ends at the    *)
(* deadline; after r reads of the error body, the time that has passed is  *)
(* the deadline, one socket timeout per read, and the present silence.     *)
(***************************************************************************)
BodyClock ==
  pc = "body" =>
    /\ worker[attempt] = "exited"
    /\ quiet[attempt] <= Deadline
    /\ reads = BodyReads => quiet[attempt] = 0
    /\ clock <= Deadline * (1 + reads) + quiet[attempt]

HeldInv ==
  /\ pc \in {"send", "join", "sleep"} => reads = 0
  /\ pc = "join" => clock <= Deadline
  /\ BodyClock
  /\ HeldBound

LEMMA Products ==
  ASSUME NEW r \in Nat, r <= BodyReads
  PROVE  /\ Deadline * (1 + r) \in Nat
         /\ Deadline * (1 + (r + 1)) = Deadline * (1 + r) + Deadline
         /\ Deadline <= Deadline * (1 + r)
         /\ Deadline * (1 + r) <= Deadline * (1 + BodyReads)
         /\ r < BodyReads => Deadline * (1 + r) + Deadline <= Deadline * (1 + BodyReads)
BY RequestTypes

\* A try holds the node's thread for at most the deadline and one socket
\* timeout for each read of an error body, however the server behaves.
THEOREM HeldSafe == Spec => []HeldBound
<1>1. Init => HeldInv
  <2>1. 0 <= Deadline * (1 + BodyReads)
    BY Products, RequestTypes
  <2> QED BY <2>1 DEF Init, HeldInv, BodyClock, HeldBound
<1>2. TypeInv /\ HeldInv /\ [Next]_vars => HeldInv'
  <2> SUFFICES ASSUME TypeInv, HeldInv, [Next]_vars PROVE HeldInv'
    OBVIOUS
  <2>0. /\ clock \in Nat /\ attempt \in Try /\ reads \in 0 .. BodyReads
        /\ quiet \in [Try -> Nat] /\ worker \in [Try -> {"idle", "reading", "closing", "exited"}]
    BY DEF TypeInv, TypeOK
  <2>01. /\ Deadline \in Nat /\ BodyReads \in Nat
         /\ reads \in Nat /\ reads <= BodyReads
    BY <2>0, RequestTypes
  <2>02. /\ Deadline * (1 + reads) \in Nat
         /\ Deadline * (1 + reads) <= Deadline * (1 + BodyReads)
         /\ Deadline <= Deadline * (1 + BodyReads)
         /\ Deadline * (1 + BodyReads) \in Nat
         /\ Deadline * (1 + 0) = Deadline
    BY <2>01, Products
  <2>1. CASE Send
    BY <2>0, <2>01, <2>02, <2>1 DEF Send, HeldInv, BodyClock, HeldBound
  <2>2. CASE GiveUp
    BY <2>2 DEF GiveUp, Conclude, Return, HeldInv, BodyClock, HeldBound
  <2>3. CASE Collect
    BY <2>0, <2>01, <2>02, <2>3
       DEF Collect, Conclude, Return, HeldInv, BodyClock, HeldBound
  <2>4. CASE ReadBody
    <3>1. reads + 1 <= BodyReads
          /\ Deadline * (1 + (reads + 1)) = Deadline * (1 + reads) + Deadline
      BY <2>01, <2>4, Products DEF ReadBody
    <3> DEFINE here == Deadline * (1 + reads)
               there == Deadline * (1 + (reads + 1))
    <3>2. here \in Nat /\ there = here + Deadline
      BY <3>1, <2>02
    <3> HIDE DEF here, there
    <3>3. clock <= there
      BY <2>0, <2>01, <3>2, <2>4 DEF ReadBody, HeldInv, BodyClock, here
    <3>4. quiet'[attempt] = 0 /\ there + 0 = there
      BY <2>0, <2>01, <3>2, <2>4 DEF ReadBody
    <3>5. clock <= Deadline * (1 + (reads + 1)) + 0
      BY <3>3, <3>4 DEF there
    <3> QED BY <2>0, <2>01, <2>4, <3>4, <3>5 DEF ReadBody, HeldInv, BodyClock, HeldBound
  <2>5. CASE BodyRead
    BY <2>5 DEF BodyRead, Conclude, Return, HeldInv, BodyClock, HeldBound
  <2>6. CASE BodyLost
    BY <2>6 DEF BodyLost, Return, HeldInv, BodyClock, HeldBound
  <2>7. CASE Retry
    BY <2>7 DEF Retry, HeldInv, BodyClock, HeldBound
  <2>8. CASE Tick
    <3>1. CASE pc = "join"
      BY <2>0, <2>01, <2>02, <2>8, <3>1 DEF Tick, Due, HeldInv, BodyClock, HeldBound
    <3>2. CASE pc = "body"
      <4>1. reads < BodyReads /\ quiet[attempt] < Deadline
        BY <2>0, <2>01, <2>8, <3>2 DEF Tick, Due, BodyDue
      <4>2. quiet'[attempt] = quiet[attempt] + 1 /\ clock' = clock + 1
        BY <2>0, <2>8, <3>2 DEF Tick, Listening
      <4>3. Deadline * (1 + reads) + Deadline <= Deadline * (1 + BodyReads)
        BY <4>1, <2>01, Products
      <4> DEFINE here == Deadline * (1 + reads)
                 bound == Deadline * (1 + BodyReads)
      <4>4. here \in Nat /\ bound \in Nat /\ here + Deadline <= bound
        BY <4>3, <2>02
      <4>5. clock <= here + quiet[attempt]
        BY <3>2 DEF HeldInv, BodyClock
      <4> HIDE DEF here, bound
      <4>6. clock' <= here + quiet'[attempt] /\ clock' <= bound /\ quiet'[attempt] <= Deadline
        BY <2>0, <2>01, <4>1, <4>2, <4>4, <4>5
      <4> QED BY <2>0, <2>8, <3>2, <4>1, <4>6
              DEF Tick, HeldInv, BodyClock, HeldBound, here, bound
    <3>3. CASE pc \notin {"join", "body"}
      BY <2>8, <3>3 DEF Tick, HeldInv, BodyClock, HeldBound
    <3> QED BY <3>1, <3>2, <3>3
  <2>9. ASSUME NEW k \in Try, Worker(k) PROVE HeldInv'
    <3>1. /\ UNCHANGED <<pc, attempt, clock, reads>>
          /\ pc = "body" => quiet'[attempt] = quiet[attempt]
          /\ pc = "body" => worker'[attempt] = "exited"
      BY <2>0, <2>9 DEF Worker, Progress, Respond, SocketTimeout, Put, Exit,
                        HeldInv, BodyClock
    <3> QED BY <3>1 DEF HeldInv, BodyClock, HeldBound
  <2>10. CASE UNCHANGED vars
    BY <2>10 DEF vars, HeldInv, BodyClock, HeldBound
  <2> QED BY <2>1, <2>2, <2>3, <2>4, <2>5, <2>6, <2>7, <2>8, <2>9, <2>10
          DEF Next, Caller
<1>3. HeldInv => HeldBound
  BY DEF HeldInv
<1> QED BY <1>1, <1>2, <1>3, TypeInvariant, PTL DEF Spec

(***************************************************************************)
(* Which answer is returned.  A try that is over was abandoned, or its     *)
(* worker had finished and its queue decided what came next.               *)
(***************************************************************************)
Over(k) == k < attempt \/ (k = attempt /\ pc \in {"sleep", "returned"})

QueuesOK ==
  \A k \in Try :
    /\ worker[k] \in {"idle", "reading"} => box[k] = NoResponse
    /\ worker[k] \in {"closing", "exited"} => box[k] \in Response
    /\ k > attempt \/ (k = attempt /\ pc = "send") => worker[k] = "idle"
    /\ Over(k) /\ k \notin abandoned => worker[k] = "exited"
    /\ k \in abandoned => Over(k)

TriesOK ==
  /\ \A k \in Try : k < attempt \/ (k = attempt /\ pc = "sleep")
       => k \in abandoned \/ box[k] \in Retryable
  /\ pc = "body" => worker[attempt] = "exited" /\ box[attempt] \in HttpError
  /\ (pc = "returned") = (verdict # "none")
  /\ pc = "returned" =>
       (verdict = "answer") = (attempt \notin abandoned /\ box[attempt] = "ok")

AnswerInv == TypeInv /\ QueuesOK /\ TriesOK

LEMMA VerdictAnswer ==
  ASSUME NEW ended
  PROVE  /\ (Verdict(ended) = "answer") = (ended = "ok")
         /\ Verdict(ended) # "none"
BY DEF Verdict, Retryable

LEMMA AnswerInvariant == Spec => []AnswerInv
<1>1. Init => QueuesOK /\ TriesOK
  BY RequestTypes DEF Init, QueuesOK, TriesOK, Over, Try
<1>2. TypeInv /\ QueuesOK /\ TriesOK /\ [Next]_vars => QueuesOK' /\ TriesOK'
  <2> SUFFICES ASSUME TypeInv, QueuesOK, TriesOK, [Next]_vars
               PROVE  QueuesOK' /\ TriesOK'
    OBVIOUS
  <2> USE RequestTypes DEF TypeInv, TypeOK, Try
  <2>1. CASE Send
    BY <2>1 DEF Send, QueuesOK, TriesOK, Over
  <2>2. CASE GiveUp
    BY <2>2, VerdictAnswer
       DEF GiveUp, Conclude, Return, QueuesOK, TriesOK, Over, Retryable
  <2>3. CASE Collect
    BY <2>3, VerdictAnswer
       DEF Collect, Conclude, Return, QueuesOK, TriesOK, Over, HttpError, Retryable
  <2>4. CASE ReadBody
    BY <2>4 DEF ReadBody, QueuesOK, TriesOK, Over
  <2>5. CASE BodyRead
    BY <2>5, VerdictAnswer
       DEF BodyRead, Conclude, Return, QueuesOK, TriesOK, Over, HttpError, Retryable
  <2>6. CASE BodyLost
    BY <2>6, VerdictAnswer
       DEF BodyLost, Return, QueuesOK, TriesOK, Over, HttpError
  <2>7. CASE Retry
    BY <2>7 DEF Retry, QueuesOK, TriesOK, Over, RoomToRetry
  <2>8. CASE Tick
    BY <2>8 DEF Tick, QueuesOK, TriesOK, Over
  <2>9. ASSUME NEW k \in Try, Worker(k) PROVE QueuesOK' /\ TriesOK'
    <3>1. CASE Progress(k)
      BY <3>1 DEF Progress, QueuesOK, TriesOK, Over
    <3>2. ASSUME NEW response \in Response, Put(k, response)
          PROVE  QueuesOK' /\ TriesOK'
      <4>1. Over(k) => k \in abandoned
        BY <3>2 DEF Put, QueuesOK
      <4>2. pc = "body" => k # attempt
        BY <3>2 DEF Put, TriesOK
      <4>3. QueuesOK'
        BY <3>2, <4>1 DEF Put, QueuesOK, Over
      <4>4. TriesOK'
        BY <3>2, <4>1, <4>2 DEF Put, TriesOK, Over
      <4> QED BY <4>3, <4>4
    <3>3. CASE Exit(k)
      BY <3>3 DEF Exit, QueuesOK, TriesOK, Over
    <3> QED BY <2>9, <3>1, <3>2, <3>3 DEF Worker, Respond, SocketTimeout, Response
  <2>10. CASE UNCHANGED vars
    BY <2>10 DEF vars, QueuesOK, TriesOK, Over
  <2> QED BY <2>1, <2>2, <2>3, <2>4, <2>5, <2>6, <2>7, <2>8, <2>9, <2>10
          DEF Next, Caller
<1>3. TypeInv /\ QueuesOK /\ TriesOK <=> AnswerInv
  BY DEF AnswerInv
<1> QED BY <1>1, <1>2, <1>3, TypeInvariant, PTL DEF Spec

\* The call returns an answer exactly when its last try had one in time, and a
\* request is sent again only after an abandoned try or a failure that may pass:
\* an answer that has been paid for, or a 402, ends the call.
THEOREM LastTrySafe == Spec => []LastTryDecides
<1>1. AnswerInv => LastTryDecides
  <2> SUFFICES ASSUME AnswerInv, NEW k \in Try
               PROVE  /\ k < attempt \/ pc = "returned" =>
                           (k \notin abandoned /\ box[k] = "ok")
                             = (k = attempt /\ verdict = "answer")
                      /\ k < attempt => k \in abandoned \/ box[k] \in Retryable
    BY DEF LastTryDecides
  <2>0. k < attempt => k \in abandoned \/ box[k] \in Retryable
    BY DEF AnswerInv, TriesOK
  <2>. SUFFICES ASSUME k < attempt \/ pc = "returned"
                PROVE  (k \notin abandoned /\ box[k] = "ok")
                         = (k = attempt /\ verdict = "answer")
    BY <2>0
  <2>1. k \in Int /\ attempt \in Int
    BY RequestTypes DEF AnswerInv, TypeInv, TypeOK, Try
  <2>2. CASE k < attempt
    BY <2>1, <2>2 DEF AnswerInv, TriesOK, Retryable
  <2>3. CASE k = attempt /\ pc = "returned"
    BY <2>3 DEF AnswerInv, TriesOK
  <2>4. CASE k > attempt
    BY <2>1, <2>4, RequestTypes DEF AnswerInv, QueuesOK, Response
  <2> QED BY <2>1, <2>2, <2>3, <2>4
<1> QED BY <1>1, AnswerInvariant, PTL

\* Whatever the server sends and whenever, a call is settled by its last try and
\* no try holds the node's thread beyond the bound.
THEOREM CallSoundSafe == Spec => []CallSound
<1>1. HeldBound /\ LastTryDecides => CallSound
  BY DEF CallSound
<1> QED BY <1>1, HeldSafe, LastTrySafe, PTL

------------------------------------------------------------------------------
\* The calls of a node.
LEMMA RequestsTypes ==
  /\ \A m \in Rows \cup {Selected} : m.rank \in Int /\ m.visible \in Int
  /\ Precision \in Nat /\ Precision > 0
  /\ Cap \in Nat /\ MinimumTimeout \in Nat
BY RequestsAssumption

Model == Rows \cup {Selected}

Profile == [row : Model, rank : Int, stretch : Int, patience : Int,
            tokens : Nat, seconds : Nat]

Attempted == [row : Model, kind : {"initial", "retry", "replacement"}, allowance : Nat,
              deadline : Int, outcome : Outcome, completed : Int, latency : Int]

RequestsType ==
  /\ turn \in {"bind", "sent", "failed", "settled"}
  /\ kind \in {"initial", "retry", "replacement"}
  /\ candidate \in Profile
  /\ asked \in [allowance : Nat, deadline : Int]
  /\ attempts \in Seq(Attempted)
  /\ floors \in [tokens : Nat, seconds : Nat]
  /\ untried \in SUBSET Rows

\* What the attempt a has taught: tokens and seconds are floors that keep it.
Keeps(a, tokens, seconds) ==
  /\ a.outcome = "truncated" => 4 * tokens >= 5 * a.allowance /\ tokens > a.completed
  /\ a.outcome = "timeout" /\ a.latency >= a.deadline =>
       seconds >= Smaller(Cap, 2 * a.deadline)

\* The node's floors keep every lesson; the candidate that is about to be called,
\* and then its request, keep the node's floors.
LessonsInv ==
  /\ RequestsType
  /\ turn = "failed" => attempts # <<>>
  /\ \A i \in DOMAIN attempts : Keeps(attempts[i], floors.tokens, floors.seconds)
  /\ turn = "bind" /\ attempts # <<>> =>
       candidate.tokens >= floors.tokens /\ candidate.seconds >= floors.seconds
  /\ turn = "sent" /\ attempts # <<>> =>
       asked.allowance >= floors.tokens /\ asked.deadline >= Smaller(Cap, floors.seconds)
  /\ LessonsKept

LEMMA RootType ==
  ASSUME NEW n \in Nat
  PROVE  Root(n) \in Nat
<1>1. IsFiniteSet(1..n) /\ {r \in 1..n : (r - 1) * (r - 1) < n} \subseteq 1..n
  BY FS_Interval
<1>2. IsFiniteSet({r \in 1..n : (r - 1) * (r - 1) < n})
  BY <1>1, FS_Subset
<1> QED BY <1>2, FS_CardinalityType DEF Root

LEMMA CeilDivType ==
  ASSUME NEW a \in Int, NEW b \in Int, b > 0
  PROVE  CeilDiv(a, b) \in Int
BY DEF CeilDiv

LEMMA ProductType ==
  ASSUME NEW a \in Int, NEW b \in Int
  PROVE  a * b \in Int
OBVIOUS

\* A request asks for the floors of its candidate.
LEMMA RequestFloors ==
  ASSUME NEW c \in Profile
  PROVE  /\ Allowance(c) \in Nat /\ Allowance(c) >= c.tokens
         /\ Timeout(c) \in Int /\ Timeout(c) >= Smaller(Cap, c.seconds)
<1>1. /\ c.row.visible \in Int /\ c.rank \in Int /\ c.stretch \in Int
      /\ c.patience \in Int /\ c.tokens \in Nat /\ c.seconds \in Nat
      /\ Precision \in Int /\ Precision > 0
  BY RequestsTypes DEF Profile, Model
<1>2. Reserve(c) \in Int
  <2>1. c.row.visible * (7 + c.rank) \in Int
    BY <1>1
  <2> QED BY <2>1, CeilDivType DEF Reserve
<1>3. Baseline(c) \in Int
  <2>1. Reserve(c) * c.stretch \in Int
    BY <1>1, <1>2
  <2> QED BY <1>1, <2>1, CeilDivType DEF Baseline
<1>4. Allowance(c) \in Nat /\ Allowance(c) >= c.tokens
  BY <1>1, <1>3 DEF Allowance, Larger
<1>5. Mass(c) \in Int
  BY <1>4, RootType, RequestsAssumption DEF Mass
<1>6. Patience(c) \in Int
  <2>1. Mass(c) * (7 + c.rank) \in Int
    BY <1>1, <1>5
  <2>2. CeilDiv(Mass(c) * (7 + c.rank), 7) \in Int
    BY <2>1, CeilDivType
  <2>3. CeilDiv(Mass(c) * (7 + c.rank), 7) * c.patience \in Int
    BY <1>1, <2>2
  <2> QED BY <1>1, <2>3, CeilDivType DEF Patience
<1>7. Timeout(c) \in Int /\ Timeout(c) >= Smaller(Cap, c.seconds)
  BY <1>1, <1>6, RequestsTypes DEF Timeout, Larger, Smaller
<1> QED BY <1>4, <1>7

\* The lesson of an attempt is worth learning.
LEMMA LearnedEnough ==
  ASSUME NEW allowance \in Nat, NEW completed \in Completions(allowance)
  PROVE  /\ completed \in Nat
         /\ TokensLearned(allowance, completed) \in Nat
         /\ 4 * TokensLearned(allowance, completed) >= 5 * allowance
         /\ TokensLearned(allowance, completed) > completed
<1>1. completed \in Nat
  BY DEF Completions
<1>2. Larger(1, allowance) \in Nat /\ Larger(1, allowance) >= 1
      /\ Larger(1, allowance) >= allowance
  BY DEF Larger
<1>3. ASSUME NEW g \in Nat, g >= 1, g >= allowance
      PROVE  LET l == IF completed >= g THEN 2 * completed
                      ELSE IF 4 * completed <= g THEN CeilDiv(5 * g, 4)
                      ELSE g + completed
             IN l \in Nat /\ 4 * l >= 5 * allowance /\ l > completed
  BY <1>1, <1>3 DEF CeilDiv
<1> QED BY <1>1, <1>2, <1>3 DEF TokensLearned

LEMMA RoundedType ==
  ASSUME NEW multiplier \in Int, NEW used \in Int, NEW granted \in Nat, granted >= 1
  PROVE  Stretched(multiplier, used, granted) \in Int
<1>1. Larger(multiplier, Precision) \in Int
  BY RequestsTypes DEF Larger
<1>2. Larger(5 * granted, 4 * (granted + Smaller(used, granted))) \in Int
  BY DEF Larger, Smaller
<1>3. Larger(multiplier, Precision)
        * Larger(5 * granted, 4 * (granted + Smaller(used, granted))) \in Int
  BY <1>1, <1>2
<1> QED BY <1>3 DEF Stretched, Rounded

LEMMA FlooredProfile ==
  ASSUME NEW c \in Profile, floors \in [tokens : Nat, seconds : Nat]
  PROVE  /\ Floored(c) \in Profile
         /\ Floored(c).tokens >= floors.tokens
         /\ Floored(c).seconds >= floors.seconds
<1> DEFINE t == Larger(c.tokens, floors.tokens)
           s == Larger(c.seconds, floors.seconds)
           d == [c EXCEPT !.tokens = t]
<1>1. /\ t \in Nat /\ t >= floors.tokens
      /\ s \in Nat /\ s >= floors.seconds
  BY DEF Larger, Profile
<1>2. Floored(c) = [d EXCEPT !.seconds = s]
  BY DEF Floored
<1> HIDE DEF t, s
<1>3. d \in Profile /\ d.tokens = t
  BY <1>1 DEF Profile
<1> HIDE DEF d
<1>4. [d EXCEPT !.seconds = s] \in Profile
      /\ [d EXCEPT !.seconds = s].tokens = t /\ [d EXCEPT !.seconds = s].seconds = s
  BY <1>1, <1>3 DEF Profile
<1> QED BY <1>1, <1>2, <1>4

\* Adaptation hands the node's floors on.
LEMMA AdaptedFloors ==
  ASSUME LessonsInv, attempts # <<>>, NEW c \in Profile, NEW saturated \in BOOLEAN
  PROVE  /\ Adapted(c, saturated) \in Profile
         /\ Adapted(c, saturated).tokens >= floors.tokens
         /\ Adapted(c, saturated).seconds >= floors.seconds
<1> DEFINE v == IF saturated THEN VisibleOnly(c) ELSE c
           m == Multiplied(v)
<1>1. v \in Profile
  BY DEF VisibleOnly, Profile
<1>2. Last \in Attempted
  BY DEF LessonsInv, RequestsType, Last
<1>3. m \in Profile
  <2>1. /\ v.stretch \in Int /\ v.patience \in Int
        /\ Last.completed \in Int /\ Last.latency \in Int
        /\ Larger(1, Last.allowance) \in Nat /\ Larger(1, Last.allowance) >= 1
        /\ Larger(1, Last.deadline) \in Nat /\ Larger(1, Last.deadline) >= 1
    BY <1>1, <1>2 DEF Profile, Attempted, Larger
  <2>2. /\ Stretched(v.stretch, Last.completed, Larger(1, Last.allowance)) \in Int
        /\ Stretched(v.patience, Last.latency, Larger(1, Last.deadline)) \in Int
    BY <2>1, RoundedType
  <2> HIDE DEF v
  <2> QED BY <1>1, <2>2 DEF Multiplied, Profile
<1>4. floors \in [tokens : Nat, seconds : Nat]
  BY DEF LessonsInv, RequestsType
<1> HIDE DEF m
<1>5. Floored(m) \in Profile /\ Floored(m).tokens >= floors.tokens
      /\ Floored(m).seconds >= floors.seconds
  BY <1>3, <1>4, FlooredProfile
<1> QED BY <1>5 DEF Adapted, m

LEMMA FreshProfile ==
  ASSUME NEW row \in Model
  PROVE  Fresh(row) \in Profile
BY RequestsTypes DEF Fresh, Profile, Model

\* A new attempt keeps what the floors say, and teaches them its own lesson.
LEMMA EndKeeps ==
  ASSUME LessonsInv, EndRequest
  PROVE  LessonsInv'
<1>0. PICK outcome \in Outcome :
        \E completed \in IF outcome = "truncated" THEN Completions(asked.allowance)
                         ELSE {0} :
          \E latency \in IF outcome = "timeout" THEN Latencies(asked.deadline) ELSE {1} :
            Ended(outcome, completed, latency)
  BY DEF EndRequest
<1>c. PICK completed \in IF outcome = "truncated" THEN Completions(asked.allowance)
                        ELSE {0} :
        \E latency \in IF outcome = "timeout" THEN Latencies(asked.deadline) ELSE {1} :
          Ended(outcome, completed, latency)
  BY <1>0
<1>1. PICK latency \in IF outcome = "timeout" THEN Latencies(asked.deadline) ELSE {1} :
        Ended(outcome, completed, latency)
  BY <1>c
<1> DEFINE a == [row |-> candidate.row, kind |-> kind, allowance |-> asked.allowance,
                 deadline |-> asked.deadline, outcome |-> outcome,
                 completed |-> completed, latency |-> latency]
<1>2. attempts' = Append(attempts, a) /\ Learn(a)
  BY <1>1 DEF Ended
<1>3. asked.allowance \in Nat /\ asked.deadline \in Int
  BY DEF LessonsInv, RequestsType
<1>4. a \in Attempted
  <2>1. completed \in Int
    BY <1>3, LearnedEnough
  <2>2. latency \in Int
    BY <1>3 DEF Latencies
  <2>3. candidate.row \in Model /\ kind \in {"initial", "retry", "replacement"}
    BY DEF LessonsInv, RequestsType, Profile
  <2> QED BY <1>3, <2>1, <2>2, <2>3 DEF Attempted
<1>5. a.outcome = "truncated" =>
        /\ TokensLearned(a.allowance, a.completed) \in Nat
        /\ 4 * TokensLearned(a.allowance, a.completed) >= 5 * a.allowance
        /\ TokensLearned(a.allowance, a.completed) > a.completed
  BY <1>3, LearnedEnough
<1>6. SecondsLearned(a.latency) \in Nat
      /\ (a.latency >= a.deadline => SecondsLearned(a.latency) >= 2 * a.deadline)
  BY <1>4 DEF SecondsLearned, Larger, Attempted
<1> HIDE DEF a
<1>7. floors.tokens \in Nat /\ floors.seconds \in Nat
      /\ floors = [tokens |-> floors.tokens, seconds |-> floors.seconds]
  BY DEF LessonsInv, RequestsType
<1>8. /\ floors' \in [tokens : Nat, seconds : Nat]
      /\ floors'.tokens >= floors.tokens /\ floors'.seconds >= floors.seconds
      /\ a.outcome = "truncated" =>
           floors'.tokens >= TokensLearned(a.allowance, a.completed)
      /\ a.outcome = "timeout" => floors'.seconds >= SecondsLearned(a.latency)
  <2>1. CASE a.outcome = "truncated"
    <3>1. floors' = [tokens |-> Larger(floors.tokens, TokensLearned(a.allowance, a.completed)),
                     seconds |-> floors.seconds]
      BY <1>2, <1>7, <2>1 DEF Learn
    <3> QED BY <1>5, <1>7, <2>1, <3>1 DEF Larger
  <2>2. CASE a.outcome = "timeout"
    <3>1. floors' = [tokens |-> floors.tokens,
                     seconds |-> Larger(floors.seconds, SecondsLearned(a.latency))]
      BY <1>2, <1>7, <2>2 DEF Learn
    <3> QED BY <1>6, <1>7, <2>2, <3>1 DEF Larger
  <2>3. CASE a.outcome \notin {"truncated", "timeout"}
    BY <1>2, <1>7, <2>3 DEF Learn
  <2> QED BY <2>1, <2>2, <2>3
<1>9. /\ attempts \in Seq(Attempted) /\ attempts' \in Seq(Attempted)
      /\ DOMAIN attempts = 1 .. Len(attempts) /\ Len(attempts) \in Nat
      /\ DOMAIN attempts' = 1 .. Len(attempts) + 1
      /\ attempts'[Len(attempts) + 1] = a
      /\ \A i \in DOMAIN attempts : attempts'[i] = attempts[i]
      /\ attempts' # <<>>
  BY <1>2, <1>4 DEF LessonsInv, RequestsType
<1>10. RequestsType'
  BY <1>8, <1>9 DEF LessonsInv, RequestsType, EndRequest
<1>11. ASSUME NEW i \in DOMAIN attempts'
       PROVE  Keeps(attempts'[i], floors'.tokens, floors'.seconds)
  <2>1. CASE i \in DOMAIN attempts
    <3>1. Keeps(attempts[i], floors.tokens, floors.seconds) /\ attempts'[i] = attempts[i]
      BY <1>9, <2>1 DEF LessonsInv
    <3>2. attempts[i] \in Attempted
      BY <1>9, <2>1
    <3> QED BY <1>7, <1>8, <3>1, <3>2, RequestsTypes DEF Keeps, Smaller, Attempted
  <2>2. CASE i = Len(attempts) + 1
    <3>1. attempts'[i] = a
      BY <1>9, <2>2
    <3> QED BY <1>4, <1>5, <1>6, <1>8, <3>1, RequestsTypes DEF Keeps, Smaller, Attempted
  <2> QED BY <1>9, <2>1, <2>2
<1>12. LessonsKept'
  <2> SUFFICES ASSUME NEW j \in DOMAIN attempts', NEW i \in 1 .. j - 1
               PROVE  /\ attempts'[i].outcome = "truncated" =>
                           /\ 4 * attempts'[j].allowance >= 5 * attempts'[i].allowance
                           /\ attempts'[j].allowance > attempts'[i].completed
                      /\ attempts'[i].outcome = "timeout"
                           /\ attempts'[i].latency >= attempts'[i].deadline =>
                           attempts'[j].deadline >= Smaller(Cap, 2 * attempts'[i].deadline)
    BY DEF LessonsKept
  <2>1. i \in DOMAIN attempts /\ attempts'[i] = attempts[i] /\ attempts[i] \in Attempted
    BY <1>9
  <2>2. CASE j \in DOMAIN attempts
    BY <1>9, <2>1, <2>2 DEF LessonsInv, LessonsKept
  <2>3. CASE j = Len(attempts) + 1
    <3>1. attempts'[j].allowance = asked.allowance /\ attempts'[j].deadline = asked.deadline
      BY <1>9, <2>3 DEF a
    <3>2. asked.allowance >= floors.tokens /\ asked.deadline >= Smaller(Cap, floors.seconds)
      BY <1>9, <2>1 DEF LessonsInv, EndRequest
    <3>3. Keeps(attempts[i], floors.tokens, floors.seconds)
      BY <2>1 DEF LessonsInv
    <3> QED BY <1>3, <1>7, <2>1, <3>1, <3>2, <3>3, RequestsTypes
            DEF Keeps, Smaller, Attempted
  <2> QED BY <1>9, <2>2, <2>3
<1>13. turn' \in {"settled", "failed"}
  BY DEF EndRequest
<1> QED BY <1>9, <1>10, <1>11, <1>12, <1>13 DEF LessonsInv

LEMMA LessonsInvariant == RequestsSpec => []LessonsInv
<1>1. RequestsInit => LessonsInv
  <2> SUFFICES ASSUME RequestsInit PROVE LessonsInv
    OBVIOUS
  <2>1. candidate \in Profile
    BY FreshProfile DEF RequestsInit, Unasked, Model
  <2> QED BY <2>1 DEF RequestsInit, Unasked, LessonsInv, RequestsType, NoRequest,
                      LessonsKept
<1>2. LessonsInv /\ [NextRequest]_requestVars => LessonsInv'
  <2> SUFFICES ASSUME LessonsInv, [NextRequest]_requestVars PROVE LessonsInv'
    OBVIOUS
  <2>1. CASE BindRequest
    <3>1. candidate \in Profile /\ floors.tokens \in Nat /\ floors.seconds \in Nat
      BY DEF LessonsInv, RequestsType
    <3>2. /\ asked' \in [allowance : Nat, deadline : Int]
          /\ asked'.allowance >= candidate.tokens
          /\ asked'.deadline >= Smaller(Cap, candidate.seconds)
      BY <2>1, <3>1, RequestFloors DEF BindRequest
    <3>3. attempts # <<>> => candidate.tokens >= floors.tokens
                             /\ candidate.seconds >= floors.seconds
      BY <2>1 DEF BindRequest, LessonsInv
    <3>4. attempts # <<>> => asked'.allowance >= floors.tokens
                             /\ asked'.deadline >= Smaller(Cap, floors.seconds)
      BY <3>1, <3>2, <3>3, RequestsTypes DEF Smaller, Profile
    <3> QED BY <2>1, <3>2, <3>4
            DEF BindRequest, LessonsInv, RequestsType, LessonsKept
  <2>2. CASE SuppressRequest
    BY <2>2 DEF SuppressRequest, LessonsInv, RequestsType, LessonsKept
  <2>3. CASE EndRequest
    BY <2>3, EndKeeps
  <2>4. CASE RepairTruncated
    <3>1. candidate \in Profile /\ attempts # <<>>
      BY <2>4 DEF RepairTruncated, LessonsInv, RequestsType
    <3>2. /\ candidate' \in Profile
          /\ candidate'.tokens >= floors.tokens /\ candidate'.seconds >= floors.seconds
      BY <2>4, <3>1, AdaptedFloors DEF RepairTruncated
    <3> QED BY <2>4, <3>2 DEF RepairTruncated, LessonsInv, RequestsType, LessonsKept
  <2>5. ASSUME NEW row \in Rows, Replace(row) PROVE LessonsInv'
    <3>1. Fresh(row) \in Profile /\ attempts # <<>>
      BY <2>5, FreshProfile DEF Replace, LessonsInv, Model
    <3>2. /\ candidate' \in Profile
          /\ candidate'.tokens >= floors.tokens /\ candidate'.seconds >= floors.seconds
      <4>1. (Last.outcome = "saturated") \in BOOLEAN
        OBVIOUS
      <4> QED BY <2>5, <3>1, <4>1, AdaptedFloors DEF Replace
    <3> QED BY <2>5, <3>2 DEF Replace, LessonsInv, RequestsType, LessonsKept
  <2>6. CASE NothingLeft
    BY <2>6 DEF NothingLeft, LessonsInv, RequestsType, LessonsKept
  <2>7. CASE UNCHANGED requestVars
    BY <2>7 DEF requestVars, LessonsInv, RequestsType, LessonsKept
  <2> QED BY <2>1, <2>2, <2>3, <2>4, <2>5, <2>6, <2>7 DEF NextRequest
<1> QED BY <1>1, <1>2, PTL DEF RequestsSpec

\* Whatever candidates, efforts and outcomes a node meets, no later call of it
\* asks for less than a truncated one has taught, or for a shorter deadline than
\* one that ran out has: the floors of the node hand each lesson on, and a
\* candidate's own profile only adds to them.
THEOREM LessonsSafe == RequestsSpec => []LessonsKept
<1>1. LessonsInv => LessonsKept
  BY DEF LessonsInv
<1> QED BY <1>1, LessonsInvariant, PTL

(***************************************************************************)
(* Catalog.  What was sorted, looked up by place and coalesced is put in   *)
(* terms of the properties (Graded, LookedAt, EachOnce, Weakest, RowsStand)*)
(* and CatalogInv says of every phase what has been made of the lists so   *)
(* far.                                                                    *)
(***************************************************************************)
\* A set of natural numbers that is not empty has a least member.
LEMMA LeastOf ==
  ASSUME NEW T \in SUBSET Nat, T # {}
  PROVE  \E x \in T : \A y \in T : x <= y
<1>1. PICK x \in T : \A y \in T : ~ (<<y, x>> \in OpToRel(<, Nat))
  BY NatLessThanWellFounded, WFMin
<1>2. \A y \in T : ~(y < x)
  BY <1>1 DEF OpToRel
<1>. QED BY <1>2

\* The least of a set of places is one of them.
LEMMA MinOf ==
  ASSUME NEW T \in SUBSET Nat, T # {}
  PROVE  Min(T) \in T /\ \A y \in T : Min(T) <= y
<1>1. \E x \in T : \A y \in T : x <= y
  BY LeastOf
<1>. QED BY <1>1 DEF Min

\* The greatest of a finite set of integers is one of them.
LEMMA MaxOf ==
  ASSUME NEW N \in Nat, NEW T \in SUBSET (0 .. N), T # {}
  PROVE  Max(T) \in T /\ \A y \in T : Max(T) >= y
<1>. DEFINE U == {N - x : x \in T}
<1>1. U \in SUBSET Nat /\ U # {}
  <2>1. ASSUME NEW x \in T PROVE N - x \in Nat
    <3>1. x \in 0 .. N
      OBVIOUS
    <3>. QED BY <3>1
  <2>. QED BY <2>1
<1>2. PICK u \in U : \A y \in U : u <= y
  <2>. HIDE DEF U
  <2>. QED BY <1>1, LeastOf
<1>3. PICK x \in T : u = N - x
  BY <1>2
<1>4. \A y \in T : x >= y
  <2>. SUFFICES ASSUME NEW y \in T PROVE x >= y
    OBVIOUS
  <2>1. N - y \in U
    OBVIOUS
  <2>2. u <= N - y
    BY <1>2, <2>1
  <2>. QED BY <1>3, <2>2
<1>5. \E z \in T : \A y \in T : z >= y
  BY <1>4
<1>. QED BY <1>5 DEF Max

\* A function of finite domain has finitely many values.
LEMMA RangeIsFinite ==
  ASSUME NEW f, IsFiniteSet(DOMAIN f)
  PROVE  IsFiniteSet(Range(f))
<1>. DEFINE g == [x \in DOMAIN f |-> f[x]]
<1>1. g \in Surjection(DOMAIN f, Range(f))
  BY DEF Surjection, Range
<1>. QED BY <1>1, FS_Surjection DEF ExistsSurjection

(***************************************************************************)
(* Sorting                                                                 *)
(***************************************************************************)
\* R orders S strictly and totally.
Orders(R, S) ==
  /\ \A x \in S : <<x, x>> \notin R
  /\ \A x, y, z \in S : <<x, y>> \in R /\ <<y, z>> \in R => <<x, z>> \in R
  /\ \A x, y \in S : x = y \/ <<x, y>> \in R \/ <<y, x>> \in R

\* q has the members of S in that order.
InOrder(q, S, R) ==
  /\ Cardinality(S) \in Nat /\ DOMAIN q = 1 .. Cardinality(S)
  /\ Range(q) = S
  /\ \A i, j \in DOMAIN q : i < j => <<q[i], q[j]>> \in R

Below(R, S, x) == {y \in S : <<y, x>> \in R}

\* What stands before in an order has fewer members before it.
LEMMA BelowGrows ==
  ASSUME NEW S, IsFiniteSet(S), NEW R, Orders(R, S), NEW x \in S, NEW y \in S, <<x, y>> \in R
  PROVE  /\ Cardinality(Below(R, S, x)) \in Nat
         /\ Cardinality(Below(R, S, y)) \in Nat
         /\ Cardinality(Below(R, S, x)) < Cardinality(Below(R, S, y))
<1>. DEFINE A == Below(R, S, x)
            B == Below(R, S, y)
<1>1. A \subseteq B /\ B \subseteq S
  BY DEF Orders, Below
<1>2. x \in B /\ x \notin A
  BY DEF Orders, Below
<1>3. IsFiniteSet(A) /\ IsFiniteSet(B)
  BY <1>1, FS_Subset
<1>4. Cardinality(A) \in Nat /\ Cardinality(B) \in Nat
  BY <1>3, FS_CardinalityType
<1>5. Cardinality(A) <= Cardinality(B) /\ Cardinality(A) # Cardinality(B)
  BY <1>1, <1>2, <1>3, FS_Subset
<1>. QED BY <1>4, <1>5

\* What is sorted is a list: it is determined by its entries.
LEMMA SortedIsFunction ==
  ASSUME NEW S, NEW R
  PROVE  Sorted(S, R) = [n \in DOMAIN Sorted(S, R) |-> Sorted(S, R)[n]]
<1>. DEFINE F(n) == CHOOSE x \in S : Cardinality({y \in S : <<y, x>> \in R}) = n - 1
            q == [n \in 1 .. Cardinality(S) |-> F(n)]
<1>1. q = [n \in DOMAIN q |-> q[n]]
  <2>. HIDE DEF F
  <2>. QED OBVIOUS
<1>. QED BY <1>1 DEF Sorted

\* What is sorted has every member once, in the order.
LEMMA SortedIs ==
  ASSUME NEW S, IsFiniteSet(S), NEW R, Orders(R, S)
  PROVE  InOrder(Sorted(S, R), S, R)
<1>. DEFINE n == Cardinality(S)
            f == [x \in S |-> Cardinality(Below(R, S, x))]
            q == Sorted(S, R)
<1>1. n \in Nat
  BY FS_CardinalityType
<1>2. ASSUME NEW x \in S PROVE f[x] \in 0 .. n - 1
  <2>1. x \notin Below(R, S, x) /\ Below(R, S, x) \subseteq S
    BY DEF Orders, Below
  <2>2. IsFiniteSet(Below(R, S, x)) /\ Cardinality(Below(R, S, x)) \in Nat
    BY <2>1, FS_Subset, FS_CardinalityType
  <2>3. Cardinality(Below(R, S, x)) <= n /\ Cardinality(Below(R, S, x)) # n
    BY <2>1, FS_Subset
  <2>. QED BY <1>1, <2>2, <2>3
<1>3. ASSUME NEW x \in S, NEW y \in S, <<x, y>> \in R PROVE f[x] < f[y]
  BY <1>3, BelowGrows
<1>4. ASSUME NEW x \in S, NEW y \in S, f[x] = f[y] PROVE x = y
  <2>1. f[x] \in Int
    BY <1>2
  <2>2. <<x, y>> \notin R /\ <<y, x>> \notin R
    <3>. HIDE DEF f
    <3>. QED BY <1>3, <1>4, <2>1
  <2>. QED BY <2>2 DEF Orders
<1>5. f \in Injection(S, 0 .. n - 1)
  BY <1>2, <1>4 DEF Injection, IsInjective
<1>6. IsFiniteSet(0 .. n - 1) /\ Cardinality(0 .. n - 1) = n
  BY <1>1, FS_Interval
<1>7. f \in Surjection(S, 0 .. n - 1)
  <2>. HIDE DEF f, n
  <2>. QED BY <1>5, <1>6, FS_Injection DEF n
<1>8. \A i \in 0 .. n - 1 : \E x \in S : f[x] = i
  BY <1>7 DEF Surjection
<1>9. /\ DOMAIN q = 1 .. n
      /\ \A i \in 1 .. n : q[i] = CHOOSE x \in S : Cardinality(Below(R, S, x)) = i - 1
  BY DEF Sorted, Below
<1>. HIDE DEF q
<1>10. ASSUME NEW i \in 1 .. n PROVE q[i] \in S /\ f[q[i]] = i - 1
  <2>1. i - 1 \in 0 .. n - 1
    BY <1>1
  <2>2. \E x \in S : Cardinality(Below(R, S, x)) = i - 1
    BY <1>8, <2>1
  <2>3. q[i] \in S /\ Cardinality(Below(R, S, q[i])) = i - 1
    BY <1>9, <2>2
  <2>. QED BY <2>3
<1>. HIDE DEF f, n
<1>11. Range(q) = S
  <2>1. ASSUME NEW x \in S PROVE x \in Range(q)
    <3>1. f[x] \in 0 .. n - 1 /\ f[x] + 1 \in 1 .. n /\ (f[x] + 1) - 1 = f[x]
      BY <1>1, <1>2
    <3>2. q[f[x] + 1] \in S /\ f[q[f[x] + 1]] = f[x]
      BY <1>10, <3>1
    <3>3. q[f[x] + 1] = x
      BY <1>4, <3>2
    <3>. QED BY <1>9, <3>1, <3>3 DEF Range
  <2>. QED BY <1>9, <1>10, <2>1 DEF Range
<1>12. ASSUME NEW i \in 1 .. n, NEW j \in 1 .. n, i < j PROVE <<q[i], q[j]>> \in R
  <2>1. q[i] \in S /\ q[j] \in S /\ f[q[i]] = i - 1 /\ f[q[j]] = j - 1
    BY <1>10
  <2>2. q[i] # q[j]
    BY <1>1, <1>12, <2>1
  <2>3. <<q[j], q[i]>> \notin R
    <3>. SUFFICES ASSUME <<q[j], q[i]>> \in R PROVE FALSE
      OBVIOUS
    <3>1. f[q[j]] < f[q[i]]
      BY <1>3, <2>1
    <3>. QED BY <1>1, <1>12, <2>1, <3>1
  <2>. QED BY <2>1, <2>2, <2>3 DEF Orders
<1>. QED BY <1>1, <1>9, <1>11, <1>12 DEF InOrder, n, q

(***************************************************************************)
(* The table                                                               *)
(***************************************************************************)
ListedOk ==
  /\ DOMAIN listed \subseteq Range(Sorts)
  /\ \A s \in DOMAIN listed : listed[s] \in Listings[s] \cup {Lost}

\* A list that came names models that the market has, and states its facts.
LEMMA ListsAre ==
  ASSUME ListedOk, NEW s \in Answered
  PROVE  /\ s \in Range(Sorts) /\ listed[s] \in Seq(ListedRows)
         /\ \A i \in DOMAIN listed[s] : listed[s][i].model \in Market
<1>1. s \in Range(Sorts) /\ listed[s] \in Listings[s]
  BY DEF ListedOk, Answered
<1>2. listed[s] \in Seq(ListedRows)
  BY <1>1, CatalogAssumption
<1>3. ASSUME NEW i \in DOMAIN listed[s] PROVE listed[s][i].model \in Market
  BY <1>1 DEF Market
<1>. QED BY <1>1, <1>2, <1>3

\* The places of a model are places of the list.
LEMMA PlacesAre ==
  ASSUME NEW T, NEW list \in Seq(T), NEW m
  PROVE  Places(list, m) \in SUBSET (1 .. Len(list)) /\ Len(list) \in Nat
BY DEF Places

\* The facts of a model are those of a row that names it, its rank is a number.
LEMMA FactsAre ==
  ASSUME ListedOk, NEW m \in Models
  PROVE  /\ Facts(m) \in ListedRows /\ Facts(m).model = m /\ m \in Int /\ m \in Market
<1>1. PICK s \in Answered : \E i \in DOMAIN listed[s] : listed[s][i].model = m
  BY DEF Models
<1>2. PICK i \in DOMAIN listed[s] : listed[s][i].model = m
  BY <1>1
<1>3. s \in Range(Sorts) /\ m \in Market
  BY <1>2, ListsAre
<1>4. PICK k \in DOMAIN Sorts : Sorts[k] = s
  BY <1>3 DEF Range
<1>5. DOMAIN Sorts \subseteq Nat
  BY CatalogAssumption
<1>. DEFINE L == Listers(m)
<1>6. L \in SUBSET Nat /\ k \in L
  BY <1>2, <1>4, <1>5 DEF Listers, Places
<1>7. Min(L) \in L
  <2>. HIDE DEF L
  <2>. QED BY <1>6, MinOf
<1>. DEFINE t == Sorts[Min(L)]
            P == Places(listed[t], m)
<1>8. t \in Answered /\ P # {}
  BY <1>7 DEF Listers
<1>9. listed[t] \in Seq(ListedRows)
  BY <1>8, ListsAre
<1>10. P \in SUBSET Nat
  BY <1>9, PlacesAre
<1>11. Min(P) \in P
  <2>. HIDE DEF P
  <2>. QED BY <1>8, <1>10, MinOf
<1>12. listed[t][Min(P)] \in ListedRows /\ listed[t][Min(P)].model = m
  <2>1. Min(P) \in DOMAIN listed[t] /\ listed[t][Min(P)].model = m
    BY <1>11 DEF Places
  <2>. QED BY <1>9, <2>1
<1>13. Facts(m) = listed[t][Min(P)]
  BY DEF Facts
<1>14. m \in Int
  BY <1>12 DEF ListedRows
<1>. QED BY <1>3, <1>12, <1>13, <1>14

\* The rank of a model is a number, listed by the official order or not.
LEMMA RankIs ==
  ASSUME ListedOk, NEW m
  PROVE  Rank(m) \in Int
<1>1. CASE Official \in Answered /\ Places(listed[Official], m) # {}
  <2>. DEFINE P == Places(listed[Official], m)
              N == Len(listed[Official])
  <2>1. listed[Official] \in Seq(ListedRows)
    BY <1>1, ListsAre
  <2>2. P \in SUBSET (0 .. N) /\ P # {} /\ N \in Nat
    BY <1>1, <2>1, PlacesAre
  <2>3. Max(P) \in P
    <3>. HIDE DEF P, N
    <3>. QED BY <2>2, MaxOf
  <2>. QED BY <1>1, <2>2, <2>3 DEF Rank
<1>2. CASE ~(Official \in Answered /\ Places(listed[Official], m) # {})
  BY <1>2, CatalogAssumption DEF Rank
<1>. QED BY <1>1, <1>2

\* There are finitely many models in what came.
LEMMA ModelsAreFinite ==
  ASSUME ListedOk
  PROVE  IsFiniteSet(Models)
<1>1. IsFiniteSet(Answered)
  <2>1. IsFiniteSet(DOMAIN Sorts)
    <3>1. DOMAIN Sorts = 1 .. Len(Sorts) /\ Len(Sorts) \in Nat
      BY CatalogAssumption
    <3>. QED BY <3>1, FS_Interval
  <2>2. IsFiniteSet(Range(Sorts))
    BY <2>1, RangeIsFinite
  <2>3. Answered \subseteq Range(Sorts)
    BY DEF ListedOk, Answered
  <2>. QED BY <2>2, <2>3, FS_Subset
<1>. DEFINE Named(s) == {listed[s][i].model : i \in DOMAIN listed[s]}
<1>2. ASSUME NEW s \in Answered PROVE IsFiniteSet(Named(s))
  <2>. DEFINE l == listed[s]
              h == [i \in DOMAIN l |-> l[i].model]
  <2>1. l \in Seq(ListedRows)
    BY ListsAre
  <2>2. IsFiniteSet(DOMAIN l)
    <3>1. DOMAIN l = 1 .. Len(l) /\ Len(l) \in Nat
      BY <2>1
    <3>. QED BY <3>1, FS_Interval
  <2>3. DOMAIN h = DOMAIN l /\ Range(h) = Named(s)
    BY DEF Range
  <2>. HIDE DEF h
  <2>4. IsFiniteSet(Range(h))
    BY <2>2, <2>3, RangeIsFinite
  <2>. QED BY <2>3, <2>4
<1>. DEFINE F == {Named(s) : s \in Answered}
            r == [s \in Answered |-> Named(s)]
<1>3. IsFiniteSet(F) /\ \A x \in F : IsFiniteSet(x)
  <2>1. \A x \in F : IsFiniteSet(x)
    BY <1>2
  <2>. HIDE DEF Named
  <2>2. DOMAIN r = Answered /\ Range(r) = F
    BY DEF Range
  <2>3. IsFiniteSet(Range(r))
    <3>. HIDE DEF r
    <3>. QED BY <1>1, <2>2, RangeIsFinite
  <2>4. IsFiniteSet(F)
    BY <2>2, <2>3
  <2>. QED BY <2>1, <2>4
<1>4. IsFiniteSet(UNION F)
  <2>. HIDE DEF F
  <2>. QED BY <1>3, FS_UNION
<1>. QED BY <1>4 DEF Models

(***************************************************************************)
(* Ranks                                                                   *)
(***************************************************************************)
\* q has the models of S by rank.
Graded(q, S) ==
  /\ DOMAIN q = 1 .. Cardinality(S) /\ Cardinality(S) \in Nat
  /\ Range(q) = S
  /\ \A i, j \in DOMAIN q : i < j => Before(q[i], q[j])

\* Ranks, then names, put the models in a strict order.
LEMMA BeforeIsStrict ==
  ASSUME ListedOk, NEW m \in Int
  PROVE  /\ ~Before(m, m)
         /\ \A n \in Int : m = n \/ Before(m, n) \/ Before(n, m)
         /\ \A n \in Int : ~(Before(m, n) /\ Before(n, m))
         /\ \A n, o \in Int : Before(m, n) /\ Before(n, o) => Before(m, o)
<1>1. Rank(m) \in Int /\ \A n \in Int : Rank(n) \in Int
  BY RankIs
<1>2. ASSUME NEW n \in Int, NEW o \in Int, Before(m, n), Before(n, o) PROVE Before(m, o)
  <2>1. Rank(n) \in Int /\ Rank(o) \in Int
    BY <1>1
  <2>. QED BY <1>1, <1>2, <2>1 DEF Before
<1>3. ~Before(m, m)
  BY <1>1 DEF Before
<1>4. ASSUME NEW n \in Int
      PROVE  (m = n \/ Before(m, n) \/ Before(n, m)) /\ ~(Before(m, n) /\ Before(n, m))
  <2>1. Rank(n) \in Int
    BY <1>1
  <2>. QED BY <1>1, <2>1 DEF Before
<1>. QED BY <1>2, <1>3, <1>4

\* A model of the table is one that some list may name.
LEMMA ModelsAreNumbers ==
  ASSUME ListedOk
  PROVE  Models \subseteq Int /\ Models \subseteq Market
BY FactsAre

\* Sorting models by rank gives each of them once, none before one that ranks higher.
LEMMA ByRankIs ==
  ASSUME ListedOk, NEW S \in SUBSET Models
  PROVE  Graded(ByRank(S), S)
<1>. DEFINE R == {p \in S \X S : Before(p[1], p[2])}
<1>1. \A x, y \in S : <<x, y>> \in R <=> Before(x, y)
  OBVIOUS
<1>2. S \subseteq Int
  BY ModelsAreNumbers
<1>3. Orders(R, S)
  <2>1. ASSUME NEW x \in S PROVE ~Before(x, x)
    BY <1>2, BeforeIsStrict
  <2>2. ASSUME NEW x \in S, NEW y \in S, NEW z \in S, Before(x, y), Before(y, z)
        PROVE  Before(x, z)
    <3>1. x \in Int /\ y \in Int /\ z \in Int
      BY <1>2
    <3>. QED BY <2>2, <3>1, BeforeIsStrict
  <2>3. ASSUME NEW x \in S, NEW y \in S PROVE x = y \/ Before(x, y) \/ Before(y, x)
    <3>1. x \in Int /\ y \in Int
      BY <1>2
    <3>. QED BY <3>1, BeforeIsStrict
  <2>. HIDE DEF R
  <2>. QED BY <1>1, <2>1, <2>2, <2>3 DEF Orders
<1>4. IsFiniteSet(S)
  BY ModelsAreFinite, FS_Subset
<1>5. InOrder(ByRank(S), S, R)
  <2>1. InOrder(Sorted(S, R), S, R)
    <3>. HIDE DEF R
    <3>. QED BY <1>3, <1>4, SortedIs
  <2>. QED BY <2>1 DEF ByRank
<1>6. \A i \in DOMAIN ByRank(S) : ByRank(S)[i] \in S
  BY <1>5 DEF InOrder, Range
<1>. HIDE DEF R
<1>. QED BY <1>1, <1>5, <1>6 DEF InOrder, Graded

\* The models of a company that may govern.
Fit(c) == Stable \cap Governing[c]

\* The first of them are looked at, and none that is ranked before one of those
\* is left out.
LookedAt(q, S) ==
  /\ \E k \in Nat : DOMAIN q = 1 .. k
  /\ \A n \in DOMAIN q : q[n] \in S
  /\ \A n \in DOMAIN q : \A m \in S :
       Before(m, q[n]) => \E i \in DOMAIN q : i < n /\ q[i] = m

\* The candidates of a company are the highest of its stable models.
LEMMA CandidatesAre ==
  ASSUME ListedOk, NEW c
  PROVE  LookedAt(Candidates(c), Fit(c))
<1>. DEFINE S == Fit(c)
            q == ByRank(S)
            L == Len(q)
            k == Min({PerCompany, L})
            s == Candidates(c)
<1>1. S \in SUBSET Models /\ S \subseteq Int
  <2>1. S \in SUBSET Models
    BY DEF Fit, Stable
  <2>. QED BY <2>1, ModelsAreNumbers
<1>2. Graded(q, S)
  BY <1>1, ByRankIs
<1>3. DOMAIN s = 1 .. k /\ \A n \in 1 .. k : s[n] = q[n]
  BY DEF Candidates, Fit
<1>4. L = Cardinality(S) /\ L \in Nat /\ DOMAIN q = 1 .. L
  <2>1. q = [n \in 1 .. Cardinality(S) |-> q[n]] /\ Cardinality(S) \in Nat
    <3>1. DOMAIN q = 1 .. Cardinality(S) /\ Cardinality(S) \in Nat
      BY <1>2 DEF Graded
    <3>2. q = [n \in DOMAIN q |-> q[n]]
      BY SortedIsFunction DEF ByRank
    <3>. QED BY <3>1, <3>2
  <2>. HIDE DEF q
  <2>. QED BY <2>1
<1>. HIDE DEF q, L, s
<1>5. k \in Nat /\ k <= L
  <2>. DEFINE T == {PerCompany, L}
  <2>1. T \in SUBSET Nat /\ T # {} /\ L \in T
    BY <1>4, CatalogAssumption
  <2>2. Min(T) \in T /\ \A y \in T : Min(T) <= y
    <3>. HIDE DEF T
    <3>. QED BY <2>1, MinOf
  <2>. QED BY <2>1, <2>2
<1>. HIDE DEF k
<1>6. \A n \in 1 .. k : n \in 1 .. L
  BY <1>4, <1>5
<1>7. \A n \in 1 .. L : q[n] \in S
  BY <1>2, <1>4 DEF Graded, Range
<1>8. ASSUME NEW n \in 1 .. k, NEW m \in S, Before(m, s[n])
      PROVE  \E i \in 1 .. k : i < n /\ s[i] = m
  <2>1. PICK i \in 1 .. L : q[i] = m
    BY <1>2, <1>4 DEF Graded, Range
  <2>2. n \in 1 .. L /\ q[n] \in S /\ s[n] = q[n]
    BY <1>3, <1>6, <1>7
  <2>3. m \in Int /\ q[n] \in Int
    BY <1>1, <2>2
  <2>4. i # n
    BY <1>8, <2>1, <2>2, <2>3, BeforeIsStrict
  <2>5. ~(n < i)
    <3>. SUFFICES ASSUME n < i PROVE FALSE
      OBVIOUS
    <3>1. Before(q[n], q[i])
      BY <1>2, <1>4, <2>2 DEF Graded
    <3>. QED BY <1>8, <2>1, <2>2, <2>3, <3>1, BeforeIsStrict
  <2>6. i \in 1 .. k /\ i < n
    BY <1>4, <1>5, <2>2, <2>4, <2>5
  <2>. QED BY <1>3, <2>1, <2>6
<1>9. \A n \in 1 .. k : s[n] \in S
  BY <1>3, <1>6, <1>7
<1>10. LookedAt(s, S)
  <2>. HIDE DEF S
  <2>. QED BY <1>3, <1>5, <1>8, <1>9 DEF LookedAt
<1>. QED BY <1>10 DEF s, S

(***************************************************************************)
(* The governors                                                           *)
(***************************************************************************)
AllCandidates == UNION {Range(Candidates(c)) : c \in DOMAIN Governing}

\* Its own endpoint suffices.
Suffices(c, m) ==
  \E e \in Range(payloads[m]) : Admitted(m, e) /\ CanGovern(c, m, e)

May(c) == {m \in Models : m \in Governing[c] \ Routed}

\* g is the highest of the company's models that suffice.
Highest(c, g) ==
  Suffices(c, g) /\ \A m \in May(c) : Before(m, g) => ~Suffices(c, m)

\* The first usable candidate is the highest of the models that suffice.
LEMMA FirstUsableIsHighest ==
  ASSUME ListedOk, ~dry, NEW c, Usable(c) # {}
  PROVE  Resolved(c, Usable(c)) \in May(c) /\ Highest(c, Resolved(c, Usable(c)))
<1>. DEFINE s == Candidates(c)
            U == Usable(c)
            g == Resolved(c, U)
<1>1. LookedAt(s, Fit(c))
  BY CandidatesAre
<1>2. Fit(c) = May(c)
  BY DEF Fit, May, Stable
<1>3. ASSUME NEW n \in DOMAIN s PROVE n \in U <=> Suffices(c, s[n])
  <2>1. Sent(s[n]) = payloads[s[n]]
    BY DEF Sent
  <2>2. n \in U <=> \E i \in DOMAIN payloads[s[n]] :
                       /\ Admitted(s[n], payloads[s[n]][i])
                       /\ CanGovern(c, s[n], payloads[s[n]][i])
    <3>1. n \in U <=> \E i \in Offers(s[n]) : CanGovern(c, s[n], Sent(s[n])[i])
      BY DEF Usable
    <3>2. \A i : i \in Offers(s[n]) <=> /\ i \in DOMAIN payloads[s[n]]
                                        /\ Admitted(s[n], payloads[s[n]][i])
      BY <2>1 DEF Offers
    <3>. QED BY <2>1, <3>1, <3>2
  <2>3. Suffices(c, s[n]) <=> \E i \in DOMAIN payloads[s[n]] :
                       /\ Admitted(s[n], payloads[s[n]][i])
                       /\ CanGovern(c, s[n], payloads[s[n]][i])
    BY DEF Suffices, Range
  <2>. QED BY <2>2, <2>3
<1>4. U \in SUBSET Nat /\ U \subseteq DOMAIN s
  BY <1>1 DEF LookedAt, Usable
<1>5. Min(U) \in U /\ \A n \in U : Min(U) <= n
  <2>. HIDE DEF U
  <2>. QED BY <1>4, MinOf DEF U
<1>6. g = s[Min(U)]
  BY DEF Resolved
<1>. HIDE DEF s, U, g
<1>7. g \in Fit(c) /\ Suffices(c, g)
  BY <1>1, <1>3, <1>4, <1>5, <1>6 DEF LookedAt
<1>8. ASSUME NEW m \in Fit(c), Before(m, g) PROVE ~Suffices(c, m)
  <2>1. PICK i \in DOMAIN s : i < Min(U) /\ s[i] = m
    BY <1>1, <1>4, <1>5, <1>6, <1>8 DEF LookedAt
  <2>2. i \notin U
    <3>. SUFFICES ASSUME i \in U PROVE FALSE
      OBVIOUS
    <3>. QED BY <1>4, <1>5, <2>1
  <2>. QED BY <1>3, <2>1, <2>2
<1>9. g \in May(c) /\ Highest(c, g)
  BY <1>2, <1>7, <1>8 DEF Highest
<1>. QED BY <1>9 DEF g, U

(***************************************************************************)
(* The plan                                                                *)
(***************************************************************************)
LEMMA MaxOfPair ==
  ASSUME NEW a \in Int, NEW b \in Int
  PROVE  Max({a, b}) \in {a, b} /\ Max({a, b}) >= a /\ Max({a, b}) >= b
<1>1. \E x \in {a, b} : \A y \in {a, b} : x >= y
  OBVIOUS
<1>. QED BY <1>1 DEF Max

\* The smaller of two numbers is one of them and at most either.
LEMMA MinOfPair ==
  ASSUME NEW a \in Int, NEW b \in Int
  PROVE  Min({a, b}) \in {a, b} /\ Min({a, b}) <= a /\ Min({a, b}) <= b
<1>1. \E x \in {a, b} : \A y \in {a, b} : x <= y
  OBVIOUS
<1>. QED BY <1>1 DEF Min

\* ids are the models of the rows, in the order in which they first occur.
EachOnce(ids, rows) ==
  /\ \E k \in Nat : DOMAIN ids = 1 .. k
  /\ Range(ids) = {rows[i].model : i \in DOMAIN rows}
  /\ \A i, j \in DOMAIN ids : i < j =>
       /\ ids[i] # ids[j]
       /\ \E k \in DOMAIN rows : /\ rows[k].model = ids[i]
                                 /\ \A l \in 1 .. k : rows[l].model # ids[j]

\* _planned_ids keeps each model once, at its first place in the plan.
LEMMA PlannedIdsAre ==
  ASSUME assigned \in Seq(PlanRows)
  PROVE  EachOnce(PlannedIds, assigned)
<1>. DEFINE D == DOMAIN assigned
            F == {i \in D : \A j \in 1 .. i - 1 : assigned[j].model # assigned[i].model}
            R == {p \in F \X F : p[1] < p[2]}
            o == Sorted(F, R)
            ids == PlannedIds
<1>1. D = 1 .. Len(assigned) /\ Len(assigned) \in Nat /\ F \subseteq D
  OBVIOUS
<1>2. IsFiniteSet(F) /\ F \subseteq Nat
  <2>1. IsFiniteSet(D)
    BY <1>1, FS_Interval
  <2>. HIDE DEF F, D
  <2>2. F \in SUBSET D /\ F \subseteq Nat
    BY <1>1
  <2>3. IsFiniteSet(F)
    BY <2>1, <2>2, FS_Subset
  <2>. QED BY <2>2, <2>3
<1>3. \A x, y \in F : <<x, y>> \in R <=> x < y
  OBVIOUS
<1>4. DOMAIN ids = DOMAIN o /\ \A n \in DOMAIN o : ids[n] = assigned[o[n]].model
  BY DEF PlannedIds, Ascending
<1>5. ASSUME NEW i \in D PROVE \E k \in F : assigned[k].model = assigned[i].model
  <2>. DEFINE S == {j \in D : assigned[j].model = assigned[i].model}
  <2>1. S \in SUBSET Nat /\ S # {}
    BY <1>1
  <2>2. PICK k \in S : \A j \in S : k <= j
    <3>. HIDE DEF S
    <3>. QED BY <2>1, LeastOf
  <2>3. ASSUME NEW j \in 1 .. k - 1 PROVE assigned[j].model # assigned[k].model
    <3>1. k \in D /\ j \in D /\ ~(k <= j)
      BY <1>1, <2>2
    <3>2. j \notin S
      BY <2>2, <3>1
    <3>. QED BY <2>2, <3>1, <3>2
  <2>. QED BY <2>2, <2>3
<1>6. \A n \in F : \A l \in 1 .. n - 1 : assigned[l].model # assigned[n].model
  OBVIOUS
<1>. HIDE DEF F, R
<1>7. Orders(R, F)
  BY <1>2, <1>3 DEF Orders
<1>8. InOrder(o, F, R)
  BY <1>2, <1>7, SortedIs
<1>. HIDE DEF o, ids, D
<1>9. /\ DOMAIN o = 1 .. Cardinality(F) /\ Cardinality(F) \in Nat
      /\ \A n \in DOMAIN o : o[n] \in F
      /\ \A i, j \in DOMAIN o : i < j => o[i] < o[j]
      /\ \A x \in F : \E n \in DOMAIN o : o[n] = x
  BY <1>3, <1>8 DEF InOrder, Range
<1>10. Range(ids) = {assigned[i].model : i \in D}
  <2>1. ASSUME NEW i \in D PROVE assigned[i].model \in Range(ids)
    <3>1. PICK k \in F : assigned[k].model = assigned[i].model
      BY <1>5
    <3>2. PICK n \in DOMAIN o : o[n] = k
      BY <1>9
    <3>3. n \in DOMAIN ids /\ ids[n] = assigned[i].model
      BY <1>4, <3>1, <3>2
    <3>. QED BY <3>3 DEF Range
  <2>2. ASSUME NEW n \in DOMAIN ids PROVE ids[n] \in {assigned[i].model : i \in D}
    BY <1>1, <1>4, <1>9
  <2>. QED BY <2>1, <2>2 DEF Range
<1>11. ASSUME NEW i \in DOMAIN ids, NEW j \in DOMAIN ids, i < j
       PROVE  /\ ids[i] # ids[j]
              /\ \E k \in D : /\ assigned[k].model = ids[i]
                              /\ \A l \in 1 .. k : assigned[l].model # ids[j]
  <2>. DEFINE k == o[i]
              n == o[j]
  <2>1. k \in F /\ n \in F /\ k < n /\ k \in Nat /\ n \in Nat /\ k \in D
    BY <1>1, <1>2, <1>4, <1>9, <1>11
  <2>2. assigned[k].model = ids[i] /\ assigned[n].model = ids[j]
    BY <1>4
  <2>. HIDE DEF k, n
  <2>3. \A l \in 1 .. k : l \in 1 .. n - 1
    BY <2>1
  <2>4. \A l \in 1 .. k : assigned[l].model # ids[j]
    BY <1>6, <2>1, <2>2, <2>3
  <2>5. k \in 1 .. k
    BY <1>1, <2>1
  <2>. QED BY <2>1, <2>2, <2>4, <2>5
<1>. QED BY <1>4, <1>9, <1>10, <1>11 DEF EachOnce, ids, D

\* The row that a model has in the plan's catalog.
RowStands(r) ==
  /\ r.context >= Facts(r.model).context
  /\ r.context \in {Facts(r.model).context}
       \cup {row.context : row \in {q \in Range(Pool \o assigned) : q.model = r.model}}

\* The row of a planned model states a capacity the plan or the list has, the larger.
LEMMA PlanRowIs ==
  ASSUME ListedOk, assigned \in Seq(PlanRows),
         NEW m \in Models, m \in {assigned[i].model : i \in DOMAIN assigned}
  PROVE  PlanRow(m).model = m /\ RowStands(PlanRow(m))
<1>. DEFINE rows == Pool \o assigned
            P == Places(rows, m)
            f == Facts(m).context
            p == Planned(m, "context")
<1>1. rows \in Seq(PlanRows) /\ Pool \in Seq(PlanRows)
  BY CatalogAssumption
<1>2. PICK i \in DOMAIN assigned : assigned[i].model = m
  OBVIOUS
<1>3. P \in SUBSET Nat /\ P # {}
  <2>1. P \in SUBSET Nat
    <3>. HIDE DEF rows
    <3>. QED BY <1>1, PlacesAre
  <2>2. Len(Pool) + i \in DOMAIN rows /\ rows[Len(Pool) + i] = assigned[i]
    BY <1>1
  <2>. QED BY <1>2, <2>1, <2>2 DEF Places
<1>4. Min(P) \in P
  <2>. HIDE DEF P
  <2>. QED BY <1>3, MinOf
<1>5. Candidate(m) = rows[Min(P)]
  BY DEF Candidate
<1>6. Min(P) \in DOMAIN rows /\ rows[Min(P)].model = m
  BY <1>4 DEF Places
<1>. HIDE DEF rows, P
<1>7. Candidate(m) \in Range(rows) /\ Candidate(m).model = m /\ Candidate(m) \in PlanRows
  BY <1>1, <1>5, <1>6 DEF Range
<1>8. f \in Int /\ Candidate(m).context \in Int
  BY <1>7, FactsAre DEF ListedRows, PlanRows
<1>9. p = IF Candidate(m).context = 0 THEN f ELSE Candidate(m).context
  BY DEF Planned
<1>10. PlanRow(m).model = m /\ PlanRow(m).context = Max({f, p})
  BY DEF PlanRow
<1>. HIDE DEF f, p
<1>11. Max({f, p}) \in {f, p} /\ Max({f, p}) >= f
  BY <1>8, <1>9, MaxOfPair
<1>. DEFINE c == PlanRow(m).context
<1>12. c >= f /\ (c = f \/ c = Candidate(m).context)
  BY <1>9, <1>10, <1>11
<1>. HIDE DEF c
<1>13. c \in {f} \cup {row.context : row \in {q \in Range(rows) : q.model = m}}
  BY <1>7, <1>12
<1>. QED BY <1>10, <1>12, <1>13 DEF RowStands, rows, f, c

(***************************************************************************)
(* Counting                                                                *)
(***************************************************************************)
LEMMA CountUp ==
  ASSUME NEW N \in Nat, NEW K, 0 \in K, \A n \in 1 .. N : n - 1 \in K => n \in K
  PROVE  \A n \in 0 .. N : n \in K
<1>. DEFINE Bad == {n \in 0 .. N : n \notin K}
<1>. SUFFICES ASSUME Bad # {} PROVE FALSE
  OBVIOUS
<1>1. PICK n \in Bad : \A m \in Bad : n <= m
  <2>1. Bad \in SUBSET Nat
    OBVIOUS
  <2>. HIDE DEF Bad
  <2>. QED BY <2>1, LeastOf
<1>2. n \in 1 .. N /\ n - 1 \in 0 .. N /\ ~(n <= n - 1)
  OBVIOUS
<1>3. n - 1 \in K
  BY <1>1, <1>2
<1>. QED BY <1>2, <1>3

\* A function defined by recursion on the numbers up to N, from the step g.
Steps(S, N) == [(1 .. N) \X S -> S]
Unfolds(f, a, N, g) == f[0] = a /\ \A n \in 1 .. N : f[n] = g[<<n, f[n - 1]>>]

\* A function that is given step by step exists on any initial segment.
LEMMA RecursionExists ==
  ASSUME NEW S, NEW a \in S, NEW N \in Nat, NEW g \in Steps(S, N)
  PROVE  \E f \in [0 .. N -> S] : Unfolds(f, a, N, g)
<1>0. g \in [(1 .. N) \X S -> S]
  BY DEF Steps
<1>. DEFINE Good(k) == \E f \in [0 .. k -> S] :
                          f[0] = a /\ \A n \in 1 .. k : f[n] = g[<<n, f[n - 1]>>]
            K == {k \in 0 .. N : Good(k)}
<1>1. 0 \in K
  <2>. DEFINE f == [n \in 0 .. 0 |-> a]
  <2>1. f \in [0 .. 0 -> S] /\ f[0] = a /\ 1 .. 0 = {}
    OBVIOUS
  <2>2. Good(0)
    <3>. HIDE DEF f
    <3>. QED BY <2>1
  <2>. QED BY <2>2
<1>2. ASSUME NEW k \in 1 .. N, k - 1 \in K PROVE k \in K
  <2>1. PICK f \in [0 .. k - 1 -> S] :
          f[0] = a /\ \A n \in 1 .. k - 1 : f[n] = g[<<n, f[n - 1]>>]
    BY <1>2
  <2>. DEFINE h == [n \in 0 .. k |-> IF n = k THEN g[<<k, f[k - 1]>>] ELSE f[n]]
  <2>2. k \in Nat /\ k - 1 \in 0 .. k - 1 /\ <<k, f[k - 1]>> \in (1 .. N) \X S
    OBVIOUS
  <2>3. \A n \in 0 .. k : n = k \/ n \in 0 .. k - 1
    BY <2>2
  <2>4. h \in [0 .. k -> S]
    BY <1>0, <2>1, <2>2, <2>3
  <2>5. h[0] = a
    BY <2>1, <2>2
  <2>6. ASSUME NEW n \in 1 .. k PROVE h[n] = g[<<n, h[n - 1]>>]
    <3>1. n - 1 \in 0 .. k - 1 /\ n \in 0 .. k /\ n - 1 \in 0 .. k /\ n - 1 # k
      BY <2>2
    <3>2. h[n - 1] = f[n - 1]
      BY <3>1
    <3>3. CASE n = k
      <4>1. h[k] = g[<<k, f[k - 1]>>]
        BY <2>2
      <4>. HIDE DEF h
      <4>. QED BY <3>2, <3>3, <4>1
    <3>4. CASE n # k
      <4>1. n \in 1 .. k - 1
        BY <2>2, <3>4
      <4>2. h[n] = f[n]
        BY <3>1, <3>4
      <4>. QED BY <2>1, <3>2, <4>1, <4>2
    <3>. QED BY <3>3, <3>4
  <2>7. Good(k)
    <3>. HIDE DEF h
    <3>. QED BY <2>4, <2>5, <2>6
  <2>. QED BY <2>7
<1>3. N \in K
  <2>. HIDE DEF K
  <2>1. \A n \in 0 .. N : n \in K
    BY <1>1, <1>2, CountUp
  <2>. QED BY <2>1
<1>. QED BY <1>3 DEF Unfolds

(***************************************************************************)
(* The routes                                                              *)
(***************************************************************************)
LEMMA RowIs ==
  ASSUME ListedOk, NEW m \in Eligible, NEW e \in SentRows
  PROVE  /\ RowOf(m, e) \in RouteRows
         /\ RowOf(m, e).model = m /\ RowOf(m, e).provider = e.provider
         /\ Reason(RowOf(m, e)) = "none" => e.provider \in Int
<1>. DEFINE f == Facts(m)
            r == RowOf(m, e)
            price == PerMillion(e.price, f.price)
<1>1. m \in Models /\ Priced(m)
  BY DEF Eligible, Stable
<1>2. f \in ListedRows /\ m \in Int
  BY <1>1, FactsAre
<1>3. f.context \in Int /\ f.completion \in Int /\ f.supports \in SUBSET STRING
  BY <1>2 DEF ListedRows
<1>4. f.price \in Int
  BY <1>1, <1>2 DEF ListedRows, Priced
<1>5. /\ e.context \in Int /\ e.completion \in Int /\ e.supports \in SUBSET STRING
      /\ e.price \in Int \cup {Unstated} /\ e.provider \in Int \cup {Unstated}
  BY DEF SentRows
<1>6. Stated(m, e, "context") \in Int /\ Stated(m, e, "completion") \in Int
  BY <1>3, <1>5 DEF Stated
<1>7. Tenth \in Int /\ Million \in Int /\ Unstated \notin Int
  BY CatalogAssumption
<1>8. price \in Int
  <2>. HIDE DEF f
  <2>. QED BY <1>4, <1>5, <1>7 DEF PerMillion
<1>9. r = [model |-> m, provider |-> e.provider,
           context |-> Stated(m, e, "context"), completion |-> Stated(m, e, "completion"),
           price |-> price,
           supports |-> IF e.supports = {} THEN f.supports ELSE e.supports]
  BY DEF RowOf
<1>. HIDE DEF f, r, price
<1>10. r \in RouteRows
  BY <1>2, <1>3, <1>5, <1>6, <1>8, <1>9 DEF RouteRows
<1>11. r.model = m /\ r.provider = e.provider
  BY <1>9
<1>12. Reason(r) = "none" => r.provider # Unstated
  BY DEF Reason
<1>. QED BY <1>5, <1>10, <1>11, <1>12 DEF r

\* r promises no more of a route than the weakest of the rows B.
Weakest(r, B, m, p) ==
  /\ r \in RouteRows /\ r.model = m /\ r.provider = p
  /\ \A s \in B : /\ r.context <= s.context /\ r.completion <= s.completion
                  /\ r.price >= s.price /\ r.supports \subseteq s.supports
  /\ r.context \in {s.context : s \in B}
  /\ r.price \in {s.price : s \in B}

\* Merging one more endpoint into the weakest of some gives the weakest of them all.
LEMMA MergeKeeps ==
  ASSUME NEW m, NEW p, NEW B \in SUBSET RouteRows, NEW r, Weakest(r, B, m, p),
         NEW s \in RouteRows, s.model = m, s.provider = p
  PROVE  Weakest(Merge(r, s), B \cup {s}, m, p)
<1>. DEFINE c == Min({r.context, s.context})
            d == Min({r.completion, s.completion})
            q == Max({r.price, s.price})
            x == Merge(r, s)
<1>1. /\ r \in RouteRows /\ r.context \in Int /\ r.completion \in Int /\ r.price \in Int
      /\ r.supports \in SUBSET STRING /\ r.provider \in Int \cup {Unstated}
      /\ s.context \in Int /\ s.completion \in Int /\ s.price \in Int
      /\ s.supports \in SUBSET STRING
      /\ \A b \in B : b.context \in Int /\ b.completion \in Int /\ b.price \in Int
  BY DEF Weakest, RouteRows
<1>2. x = [r EXCEPT !.context = c, !.completion = d, !.price = q,
                    !.supports = @ \cap s.supports]
  BY DEF Merge
<1>3. /\ c \in {r.context, s.context} /\ c <= r.context /\ c <= s.context
      /\ d \in {r.completion, s.completion} /\ d <= r.completion /\ d <= s.completion
      /\ q \in {r.price, s.price} /\ q >= r.price /\ q >= s.price
  BY <1>1, MinOfPair, MaxOfPair
<1>4. c \in Int /\ d \in Int /\ q \in Int
  BY <1>1, <1>3
<1>. HIDE DEF c, d, q, x
<1>5. /\ x.context = c /\ x.completion = d /\ x.price = q
      /\ x.supports = r.supports \cap s.supports
      /\ x.model = r.model /\ x.provider = r.provider
  BY <1>1, <1>2 DEF RouteRows
<1>6. x \in RouteRows
  BY <1>1, <1>2, <1>4 DEF RouteRows
<1>7. ASSUME NEW b \in B \cup {s}
      PROVE  /\ x.context <= b.context /\ x.completion <= b.completion
             /\ x.price >= b.price /\ x.supports \subseteq b.supports
  <2>1. CASE b = s
    BY <1>3, <1>5, <2>1
  <2>2. CASE b \in B
    <3>1. /\ r.context <= b.context /\ r.completion <= b.completion
          /\ r.price >= b.price /\ r.supports \subseteq b.supports
      BY <2>2 DEF Weakest
    <3>2. b.context \in Int /\ b.completion \in Int /\ b.price \in Int
      BY <1>1, <2>2
    <3>. QED BY <1>1, <1>3, <1>4, <1>5, <3>1, <3>2
  <2>. QED BY <2>1, <2>2
<1>8. x.context \in {b.context : b \in B \cup {s}}
  <2>1. CASE c = s.context
    BY <1>5, <2>1
  <2>2. CASE c = r.context
    <3>1. PICK b \in B : r.context = b.context
      BY DEF Weakest
    <3>. QED BY <1>5, <2>2, <3>1
  <2>. QED BY <1>3, <2>1, <2>2
<1>9. x.price \in {b.price : b \in B \cup {s}}
  <2>1. CASE q = s.price
    BY <1>5, <2>1
  <2>2. CASE q = r.price
    <3>1. PICK b \in B : r.price = b.price
      BY DEF Weakest
    <3>. QED BY <1>5, <2>2, <3>1
  <2>. QED BY <1>3, <2>1, <2>2
<1>10. x.model = m /\ x.provider = p
  BY <1>5 DEF Weakest
<1>. QED BY <1>6, <1>7, <1>8, <1>9, <1>10 DEF Weakest, x

\* A single endpoint is the weakest of itself.
LEMMA OneIsWeakest ==
  ASSUME NEW s \in RouteRows, NEW m, NEW p, s.model = m, s.provider = p
  PROVE  Weakest(s, {s}, m, p)
<1>1. s.context \in Int /\ s.completion \in Int /\ s.price \in Int
  BY DEF RouteRows
<1>. QED BY <1>1 DEF Weakest

\* The places of the rows of one route.
Of(m, p) == {i \in RowsOf(m) : RowAt(m, i).provider = p}

SentOk(m) == Sent(m) \in Seq(SentRows)

\* The places of a route's endpoints are places of what was sent, and hold rows.
LEMMA PlacesOfRoute ==
  ASSUME ListedOk, NEW m \in Eligible, SentOk(m), NEW p
  PROVE  /\ Len(Sent(m)) \in Nat /\ Of(m, p) \subseteq 1 .. Len(Sent(m))
         /\ RowsOf(m) \subseteq 1 .. Len(Sent(m))
         /\ \A i \in RowsOf(m) : /\ RowAt(m, i) \in RouteRows /\ RowAt(m, i).model = m
                                 /\ RowAt(m, i).provider \in Int
<1>1. DOMAIN Sent(m) = 1 .. Len(Sent(m)) /\ Len(Sent(m)) \in Nat
  BY DEF SentOk
<1>2. RowsOf(m) \subseteq 1 .. Len(Sent(m))
  BY <1>1 DEF RowsOf, Offers
<1>3. ASSUME NEW i \in RowsOf(m)
      PROVE  RowAt(m, i) \in RouteRows /\ RowAt(m, i).model = m /\ RowAt(m, i).provider \in Int
  <2>1. Sent(m)[i] \in SentRows
    BY <1>1, <1>2 DEF SentOk
  <2>2. Reason(RowAt(m, i)) = "none"
    BY DEF RowsOf
  <2>. QED BY <2>1, <2>2, RowIs DEF RowAt
<1>. QED BY <1>1, <1>2, <1>3 DEF Of

\* What has been observed of a route follows the rows one by one.
LEMMA ObservedIs ==
  ASSUME ListedOk, NEW m \in Eligible, SentOk(m), NEW p
  PROVE  /\ Observed(m, p)[0] = Lost
         /\ \A n \in 1 .. Len(Sent(m)) : Observed(m, p)[n] =
              IF n \notin Of(m, p) THEN Observed(m, p)[n - 1]
              ELSE IF Observed(m, p)[n - 1] = Lost THEN RowAt(m, n)
              ELSE Merge(Observed(m, p)[n - 1], RowAt(m, n))
<1>. DEFINE N == Len(Sent(m))
            O == Of(m, p)
            S == RouteRows \cup {Lost}
            Next1(n, x) == IF n \notin O THEN x
                           ELSE IF x = Lost THEN RowAt(m, n) ELSE Merge(x, RowAt(m, n))
            g == [y \in (1 .. N) \X S |-> Next1(y[1], y[2])]
            seen == Observed(m, p)
            Is(f) == f = [n \in 0 .. N |-> IF n = 0 THEN Lost ELSE Next1(n, f[n - 1])]
<1>1. N \in Nat /\ O \subseteq 1 .. N /\ \A n \in O : RowAt(m, n) \in RouteRows
  BY PlacesOfRoute DEF Of
<1>2. ASSUME NEW n \in 1 .. N, NEW x \in S PROVE Next1(n, x) \in S
  <2>1. CASE n \in O /\ x # Lost
    <3>1. x \in RouteRows /\ RowAt(m, n) \in RouteRows
      BY <1>1, <2>1
    <3>2. Merge(x, RowAt(m, n)) \in RouteRows
      <4>. DEFINE s == RowAt(m, n)
                  c == Min({x.context, s.context})
                  d == Min({x.completion, s.completion})
                  q == Max({x.price, s.price})
      <4>1. /\ x.context \in Int /\ x.completion \in Int /\ x.price \in Int
            /\ s.context \in Int /\ s.completion \in Int /\ s.price \in Int
            /\ x.supports \in SUBSET STRING
        BY <3>1 DEF RouteRows
      <4>2. c \in Int /\ d \in Int /\ q \in Int
        <5>. HIDE DEF s
        <5>1. c \in {x.context, s.context} /\ d \in {x.completion, s.completion}
              /\ q \in {x.price, s.price}
          BY <4>1, MinOfPair, MaxOfPair
        <5>. HIDE DEF c, d, q
        <5>. QED BY <4>1, <5>1
      <4>3. Merge(x, s) = [x EXCEPT !.context = c, !.completion = d, !.price = q,
                                    !.supports = @ \cap s.supports]
        BY DEF Merge
      <4>. HIDE DEF s, c, d, q
      <4>4. Merge(x, s) \in RouteRows
        BY <3>1, <4>1, <4>2, <4>3 DEF RouteRows
      <4>. QED BY <4>4 DEF s
    <3>. QED BY <2>1, <3>2
  <2>2. CASE ~(n \in O /\ x # Lost)
    BY <1>1, <2>2
  <2>. QED BY <2>1, <2>2
<1>3. seen = CHOOSE f : Is(f)
  BY DEF Observed, Of
<1>. HIDE DEF S, Next1
<1>4. PICK h \in [0 .. N -> S] : Unfolds(h, Lost, N, g)
  <2>1. g \in Steps(S, N) /\ Lost \in S
    <3>1. \A y \in (1 .. N) \X S : Next1(y[1], y[2]) \in S
      BY <1>2
    <3>. QED BY <3>1 DEF Steps, S
  <2>. HIDE DEF g
  <2>. QED BY <1>1, <2>1, RecursionExists
<1>5. \A n \in 1 .. N : n - 1 \in 0 .. N /\ n \in 0 .. N /\ n # 0
  BY <1>1
<1>6. Is(h)
  <2>1. \A n \in 1 .. N : h[n] = Next1(n, h[n - 1])
    <3>. SUFFICES ASSUME NEW n \in 1 .. N PROVE h[n] = Next1(n, h[n - 1])
      OBVIOUS
    <3>1. <<n, h[n - 1]>> \in (1 .. N) \X S
      BY <1>4, <1>5
    <3>2. h[n] = g[<<n, h[n - 1]>>]
      BY <1>4 DEF Unfolds
    <3>. QED BY <3>1, <3>2
  <2>2. h = [n \in 0 .. N |-> h[n]] /\ \A n \in 0 .. N : n # 0 => n \in 1 .. N
    BY <1>1, <1>4
  <2>. QED BY <1>4, <2>1, <2>2 DEF Unfolds
<1>7. Is(seen)
  <2>. HIDE DEF Is
  <2>. QED BY <1>3, <1>6
<1>. HIDE DEF seen
<1>8. \A n \in 0 .. N : seen[n] = IF n = 0 THEN Lost ELSE Next1(n, seen[n - 1])
  BY <1>7
<1>9. seen[0] = Lost
  BY <1>1, <1>8
<1>10. \A n \in 1 .. N : seen[n] = Next1(n, seen[n - 1])
  BY <1>5, <1>8
<1>. QED BY <1>9, <1>10 DEF Next1, seen

\* The row of a route is the weakest of its rows.
LEMMA RouteIs ==
  ASSUME ListedOk, NEW m \in Eligible, SentOk(m), NEW p, Of(m, p) # {}
  PROVE  Weakest(Route(m, p), {RowAt(m, i) : i \in Of(m, p)}, m, p)
<1>. DEFINE N == Len(Sent(m))
            O == Of(m, p)
            seen == Observed(m, p)
            B(n) == {RowAt(m, i) : i \in {j \in O : j <= n}}
            K == {n \in 0 .. N : IF B(n) = {} THEN seen[n] = Lost
                                 ELSE Weakest(seen[n], B(n), m, p)}
<1>1. /\ N \in Nat /\ O \subseteq 1 .. N
      /\ \A i \in O : RowAt(m, i) \in RouteRows /\ RowAt(m, i).model = m
                      /\ RowAt(m, i).provider = p
  BY PlacesOfRoute DEF Of
<1>2. /\ seen[0] = Lost
      /\ \A n \in 1 .. N : seen[n] = IF n \notin O THEN seen[n - 1]
                                     ELSE IF seen[n - 1] = Lost THEN RowAt(m, n)
                                     ELSE Merge(seen[n - 1], RowAt(m, n))
  BY ObservedIs
<1>. HIDE DEF seen, O
<1>3. 0 \in K
  <2>1. B(0) = {}
    BY <1>1
  <2>. QED BY <1>1, <1>2, <2>1
<1>4. ASSUME NEW n \in 1 .. N, n - 1 \in K PROVE n \in K
  <2>1. CASE n \notin O
    <3>1. \A j \in O : j <= n <=> j <= n - 1
      BY <1>1, <2>1
    <3>2. B(n) = B(n - 1)
      BY <3>1
    <3>3. seen[n] = seen[n - 1]
      BY <1>2, <2>1
    <3>. HIDE DEF B
    <3>. QED BY <1>1, <1>4, <3>2, <3>3
  <2>2. CASE n \in O
    <3>. DEFINE s == RowAt(m, n)
    <3>1. \A j \in O : j <= n <=> (j <= n - 1 \/ j = n)
      BY <1>1
    <3>2. B(n) = B(n - 1) \cup {s}
      BY <2>2, <3>1
    <3>3. s \in RouteRows /\ s.model = m /\ s.provider = p
      BY <1>1, <2>2
    <3>4. B(n - 1) \in SUBSET RouteRows
      BY <1>1
    <3>5. Weakest(seen[n], B(n), m, p)
      <4>1. CASE B(n - 1) = {}
        <5>1. seen[n - 1] = Lost
          <6>. HIDE DEF B
          <6>. QED BY <1>4, <4>1
        <5>2. seen[n] = s
          BY <1>2, <2>2, <5>1
        <5>. HIDE DEF s, B
        <5>3. B(n) = {s}
          BY <3>2, <4>1
        <5>. QED BY <3>3, <5>2, <5>3, OneIsWeakest
      <4>2. CASE B(n - 1) # {}
        <5>. HIDE DEF B
        <5>1. Weakest(seen[n - 1], B(n - 1), m, p)
          BY <1>4, <4>2
        <5>2. seen[n - 1] # Lost
          BY <5>1, CatalogAssumption DEF Weakest
        <5>3. seen[n] = Merge(seen[n - 1], s)
          BY <1>2, <2>2, <5>2
        <5>. HIDE DEF s
        <5>4. Weakest(Merge(seen[n - 1], s), B(n - 1) \cup {s}, m, p)
          BY <3>3, <3>4, <5>1, MergeKeeps
        <5>. QED BY <3>2, <5>3, <5>4
      <4>. QED BY <4>1, <4>2
    <3>6. B(n) # {}
      BY <3>2
    <3>. HIDE DEF B
    <3>. QED BY <1>1, <3>5, <3>6
  <2>. QED BY <2>1, <2>2
<1>5. N \in K
  <2>1. 0 \in K /\ \A n \in 1 .. N : n - 1 \in K => n \in K
    BY <1>3, <1>4
  <2>. HIDE DEF K
  <2>2. \A n \in 0 .. N : n \in K
    BY <1>1, <2>1, CountUp
  <2>. QED BY <1>1, <2>2
<1>6. B(N) = {RowAt(m, i) : i \in O} /\ B(N) # {}
  BY <1>1 DEF O
<1>7. Weakest(seen[N], B(N), m, p)
  <2>. HIDE DEF B
  <2>. QED BY <1>5, <1>6
<1>. HIDE DEF B
<1>8. Weakest(seen[N], {RowAt(m, i) : i \in O}, m, p)
  BY <1>6, <1>7
<1>. QED BY <1>8 DEF Route, seen, O

(***************************************************************************)
(* The finished catalog                                                    *)
(***************************************************************************)
Kept(m) == {e \in Range(payloads[m]) : Admitted(m, e) /\ Reason(RowOf(m, e)) = "none"}
Behind(m, p) == {RowOf(m, e) : e \in {f \in Kept(m) : f.provider = p}}

\* The rows of a catalog are the routes, by rank, each at its weakest.
RowsStand(rows) ==
  /\ {<<r.model, r.provider>> : r \in Range(rows)}
       = UNION {{<<m, e.provider>> : e \in Kept(m)} : m \in Range(wanted)}
  /\ \A i, j \in DOMAIN rows : i < j =>
       \/ Rank(rows[i].model) < Rank(rows[j].model)
       \/ rows[i].model = rows[j].model /\ rows[i].provider < rows[j].provider
       \/ Rank(rows[i].model) = Rank(rows[j].model) /\ rows[i].model < rows[j].model
  /\ \A r \in Range(rows) :
       /\ Weakest(r, Behind(r.model, r.provider), r.model, r.provider)
       /\ r.model \in Eligible

AllSent == ~dry /\ \A m \in Range(wanted) : payloads[m] \in Seq(SentRows)

\* The endpoints kept by place are those kept by value: the same routes, the same rows.
LEMMA KeptAre ==
  ASSUME ListedOk, AllSent, Range(wanted) \subseteq Eligible, NEW m \in Range(wanted)
  PROVE  /\ SentOk(m) /\ m \in Eligible
         /\ {<<m, RowAt(m, i).provider>> : i \in RowsOf(m)} = {<<m, e.provider>> : e \in Kept(m)}
         /\ \A p : {RowAt(m, i) : i \in Of(m, p)} = Behind(m, p)
<1>1. m \in Eligible /\ Sent(m) = payloads[m] /\ Sent(m) \in Seq(SentRows)
  BY DEF AllSent, Sent
<1>2. SentOk(m)
  BY <1>1 DEF SentOk
<1>3. ASSUME NEW i \in RowsOf(m)
      PROVE  /\ payloads[m][i] \in Kept(m) /\ RowAt(m, i) = RowOf(m, payloads[m][i])
             /\ RowAt(m, i).provider = payloads[m][i].provider
  <2>1. i \in DOMAIN payloads[m] /\ payloads[m][i] \in SentRows
    BY <1>1 DEF RowsOf, Offers
  <2>2. RowAt(m, i) = RowOf(m, payloads[m][i])
    BY <1>1 DEF RowAt
  <2>3. Admitted(m, payloads[m][i]) /\ Reason(RowAt(m, i)) = "none"
    BY <1>1 DEF RowsOf, Offers, AllSent
  <2>4. payloads[m][i] \in Kept(m)
    BY <2>1, <2>2, <2>3 DEF Kept, Range
  <2>. QED BY <1>1, <2>1, <2>2, <2>4, RowIs
<1>4. ASSUME NEW e \in Kept(m)
      PROVE  \E i \in RowsOf(m) : payloads[m][i] = e
  <2>1. PICK i \in DOMAIN payloads[m] : payloads[m][i] = e
    BY DEF Kept, Range
  <2>2. i \in RowsOf(m)
    BY <1>1, <2>1 DEF Kept, RowsOf, Offers, RowAt
  <2>. QED BY <2>1, <2>2
<1>5. {<<m, RowAt(m, i).provider>> : i \in RowsOf(m)} = {<<m, e.provider>> : e \in Kept(m)}
  <2>1. ASSUME NEW i \in RowsOf(m) PROVE \E e \in Kept(m) : <<m, RowAt(m, i).provider>> = <<m, e.provider>>
    BY <1>3
  <2>2. ASSUME NEW e \in Kept(m) PROVE \E i \in RowsOf(m) : <<m, RowAt(m, i).provider>> = <<m, e.provider>>
    BY <1>3, <1>4
  <2>. QED BY <2>1, <2>2
<1>6. ASSUME NEW p PROVE {RowAt(m, i) : i \in Of(m, p)} = Behind(m, p)
  <2>1. ASSUME NEW i \in Of(m, p) PROVE RowAt(m, i) \in Behind(m, p)
    BY <1>3 DEF Of, Behind
  <2>2. ASSUME NEW r \in Behind(m, p) PROVE \E i \in Of(m, p) : RowAt(m, i) = r
    <3>1. PICK e \in Kept(m) : e.provider = p /\ r = RowOf(m, e)
      BY DEF Behind
    <3>2. PICK i \in RowsOf(m) : payloads[m][i] = e
      BY <1>4
    <3>. QED BY <1>3, <3>1, <3>2 DEF Of
  <2>. QED BY <2>1, <2>2
<1>. QED BY <1>1, <1>2, <1>5, <1>6

\* The routes are finitely many pairs, each of a wanted model with an endpoint.
LEMMA RoutesAre ==
  ASSUME ListedOk, AllSent, Range(wanted) \subseteq Eligible
  PROVE  /\ IsFiniteSet(Routes)
         /\ \A r \in Routes : /\ r = <<r[1], r[2]>> /\ r[1] \in Range(wanted)
                              /\ r[2] \in Int /\ Of(r[1], r[2]) # {}
<1>. DEFINE At(m) == {<<m, RowAt(m, i).provider>> : i \in RowsOf(m)}
            F == {At(m) : m \in Range(wanted)}
<1>1. ASSUME NEW m \in Range(wanted) PROVE IsFiniteSet(At(m))
  <2>. DEFINE h == [i \in RowsOf(m) |-> <<m, RowAt(m, i).provider>>]
  <2>1. Len(Sent(m)) \in Nat /\ RowsOf(m) \subseteq 1 .. Len(Sent(m))
    <3>1. m \in Eligible /\ SentOk(m)
      BY KeptAre
    <3>. QED BY <3>1, PlacesOfRoute
  <2>2. IsFiniteSet(RowsOf(m))
    <3>1. IsFiniteSet(1 .. Len(Sent(m)))
      BY <2>1, FS_Interval
    <3>. QED BY <2>1, <3>1, FS_Subset
  <2>3. DOMAIN h = RowsOf(m) /\ Range(h) = At(m)
    BY DEF Range
  <2>. HIDE DEF h
  <2>4. IsFiniteSet(Range(h))
    BY <2>2, <2>3, RangeIsFinite
  <2>. QED BY <2>3, <2>4
<1>2. IsFiniteSet(Range(wanted))
  <2>1. Range(wanted) \in SUBSET Models
    BY DEF Eligible, Stable
  <2>. QED BY <2>1, ModelsAreFinite, FS_Subset
<1>3. IsFiniteSet(F) /\ \A x \in F : IsFiniteSet(x)
  <2>. DEFINE W == Range(wanted)
              f == [m \in W |-> At(m)]
  <2>1. DOMAIN f = W /\ Range(f) = F
    BY DEF Range
  <2>2. IsFiniteSet(Range(f))
    <3>. HIDE DEF f
    <3>. QED BY <1>2, <2>1, RangeIsFinite DEF W
  <2>3. \A x \in F : IsFiniteSet(x)
    BY <1>1
  <2>. QED BY <2>1, <2>2, <2>3
<1>4. IsFiniteSet(UNION F)
  <2>. HIDE DEF F
  <2>. QED BY <1>3, FS_UNION
<1>5. ASSUME NEW r \in Routes
      PROVE  r = <<r[1], r[2]>> /\ r[1] \in Range(wanted) /\ r[2] \in Int /\ Of(r[1], r[2]) # {}
  <2>1. PICK m \in Range(wanted) : \E i \in RowsOf(m) : r = <<m, RowAt(m, i).provider>>
    BY DEF Routes
  <2>2. PICK i \in RowsOf(m) : r = <<m, RowAt(m, i).provider>>
    BY <2>1
  <2>3. RowAt(m, i).provider \in Int
    <3>1. m \in Eligible /\ SentOk(m)
      BY KeptAre
    <3>. QED BY <3>1, PlacesOfRoute
  <2>4. i \in Of(r[1], r[2])
    BY <2>2 DEF Of
  <2>. QED BY <2>2, <2>3, <2>4
<1>6. Routes = UNION F
  BY DEF Routes
<1>. QED BY <1>4, <1>5, <1>6

\* The compacted catalog has one row for each route, in order, each the weakest behind it.
LEMMA CompactedIs ==
  ASSUME ListedOk, AllSent, Range(wanted) \subseteq Eligible
  PROVE  RowsStand(Compacted)
<1>. DEFINE R == {p \in Routes \X Routes : RouteBefore(p[1], p[2])}
            o == Sorted(Routes, R)
            rows == Compacted
<1>1. /\ IsFiniteSet(Routes)
      /\ \A r \in Routes : /\ r = <<r[1], r[2]>> /\ r[1] \in Range(wanted)
                           /\ r[2] \in Int /\ Of(r[1], r[2]) # {}
  BY RoutesAre
<1>2. \A x, y \in Routes : <<x, y>> \in R <=> RouteBefore(x, y)
  OBVIOUS
<1>3. \A r \in Routes : r[1] \in Int
  <2>1. Range(wanted) \subseteq Models
    BY DEF Eligible, Stable
  <2>. QED BY <1>1, <2>1, ModelsAreNumbers
<1>4. Orders(R, Routes)
  <2>1. ASSUME NEW x \in Routes PROVE ~RouteBefore(x, x)
    <3>1. x[1] \in Int /\ x[2] \in Int
      BY <1>1, <1>3
    <3>. QED BY <3>1, BeforeIsStrict DEF RouteBefore
  <2>2. ASSUME NEW x \in Routes, NEW y \in Routes, NEW z \in Routes,
               RouteBefore(x, y), RouteBefore(y, z)
        PROVE  RouteBefore(x, z)
    <3>1. /\ x[1] \in Int /\ y[1] \in Int /\ z[1] \in Int
          /\ x[2] \in Int /\ y[2] \in Int /\ z[2] \in Int
      BY <1>1, <1>3
    <3>2. CASE Before(x[1], y[1]) /\ Before(y[1], z[1])
      <4>1. Before(x[1], z[1])
        BY <3>1, <3>2, BeforeIsStrict
      <4>. QED BY <4>1 DEF RouteBefore
    <3>3. CASE ~(Before(x[1], y[1]) /\ Before(y[1], z[1]))
      <4>. HIDE DEF R
      <4>. QED BY <2>2, <3>1, <3>3 DEF RouteBefore
    <3>. QED BY <3>2, <3>3
  <2>3. ASSUME NEW x \in Routes, NEW y \in Routes
        PROVE  x = y \/ RouteBefore(x, y) \/ RouteBefore(y, x)
    <3>1. x[1] \in Int /\ y[1] \in Int /\ x[2] \in Int /\ y[2] \in Int
      BY <1>1, <1>3
    <3>2. CASE x[1] # y[1]
      <4>1. Before(x[1], y[1]) \/ Before(y[1], x[1])
        BY <3>1, <3>2, BeforeIsStrict
      <4>. QED BY <4>1 DEF RouteBefore
    <3>3. CASE x[1] = y[1]
      <4>1. x[2] = y[2] \/ x[2] < y[2] \/ y[2] < x[2]
        BY <3>1
      <4>2. x[2] = y[2] => x = y
        BY <1>1, <3>3
      <4>. QED BY <3>3, <4>1, <4>2 DEF RouteBefore
    <3>. QED BY <3>2, <3>3
  <2>. HIDE DEF R
  <2>. QED BY <1>2, <2>1, <2>2, <2>3 DEF Orders
<1>5. InOrder(o, Routes, R)
  <2>. HIDE DEF R
  <2>. QED BY <1>1, <1>4, SortedIs
<1>6. DOMAIN rows = DOMAIN o /\ \A n \in DOMAIN o : rows[n] = Route(o[n][1], o[n][2])
  BY DEF Compacted
<1>. HIDE DEF o, rows
<1>7. /\ \A n \in DOMAIN o : o[n] \in Routes
      /\ \A r \in Routes : \E n \in DOMAIN o : o[n] = r
      /\ \A i, j \in DOMAIN o : i < j => RouteBefore(o[i], o[j])
  <2>. HIDE DEF R
  <2>. QED BY <1>2, <1>5 DEF InOrder, Range
<1>. HIDE DEF R
<1>8. ASSUME NEW n \in DOMAIN o
      PROVE  /\ rows[n].model = o[n][1] /\ rows[n].provider = o[n][2]
             /\ Weakest(rows[n], Behind(o[n][1], o[n][2]), o[n][1], o[n][2])
             /\ o[n][1] \in Eligible
  <2>. DEFINE m == o[n][1]
              p == o[n][2]
  <2>1. m \in Range(wanted) /\ Of(m, p) # {}
    BY <1>1, <1>7
  <2>. HIDE DEF m, p
  <2>2. m \in Eligible /\ SentOk(m) /\ {RowAt(m, i) : i \in Of(m, p)} = Behind(m, p)
    BY <2>1, KeptAre
  <2>3. Weakest(Route(m, p), Behind(m, p), m, p)
    BY <2>1, <2>2, RouteIs
  <2>4. rows[n] = Route(m, p)
    BY <1>6 DEF m, p
  <2>5. Weakest(rows[n], Behind(m, p), m, p)
    BY <2>3, <2>4
  <2>6. rows[n].model = m /\ rows[n].provider = p
    BY <2>5 DEF Weakest
  <2>. QED BY <2>2, <2>5, <2>6 DEF m, p
<1>9. {<<r.model, r.provider>> : r \in Range(rows)}
        = UNION {{<<m, e.provider>> : e \in Kept(m)} : m \in Range(wanted)}
  <2>1. UNION {{<<m, e.provider>> : e \in Kept(m)} : m \in Range(wanted)} = Routes
    <3>1. \A m \in Range(wanted) :
            {<<m, RowAt(m, i).provider>> : i \in RowsOf(m)} = {<<m, e.provider>> : e \in Kept(m)}
      BY KeptAre
    <3>. DEFINE A(m) == {<<m, RowAt(m, i).provider>> : i \in RowsOf(m)}
                B(m) == {<<m, e.provider>> : e \in Kept(m)}
    <3>2. Routes = UNION {A(m) : m \in Range(wanted)}
      BY DEF Routes
    <3>3. \A m \in Range(wanted) : A(m) = B(m)
      BY <3>1
    <3>4. UNION {A(m) : m \in Range(wanted)} = UNION {B(m) : m \in Range(wanted)}
      <4>. HIDE DEF A, B
      <4>. QED BY <3>3
    <3>. QED BY <3>2, <3>4
  <2>2. ASSUME NEW r \in Range(rows) PROVE <<r.model, r.provider>> \in Routes
    <3>1. PICK n \in DOMAIN o : r = rows[n]
      BY <1>6 DEF Range
    <3>2. o[n] \in Routes /\ o[n] = <<o[n][1], o[n][2]>>
      BY <1>1, <1>7
    <3>. QED BY <1>8, <3>1, <3>2
  <2>3. ASSUME NEW x \in Routes PROVE \E r \in Range(rows) : x = <<r.model, r.provider>>
    <3>1. PICK n \in DOMAIN o : o[n] = x
      BY <1>7
    <3>2. rows[n] \in Range(rows)
      BY <1>6 DEF Range
    <3>3. x = <<o[n][1], o[n][2]>>
      BY <1>1, <3>1
    <3>. QED BY <1>8, <3>2, <3>3
  <2>. QED BY <2>1, <2>2, <2>3
<1>10. ASSUME NEW i \in DOMAIN rows, NEW j \in DOMAIN rows, i < j
       PROVE  \/ Rank(rows[i].model) < Rank(rows[j].model)
              \/ rows[i].model = rows[j].model /\ rows[i].provider < rows[j].provider
              \/ Rank(rows[i].model) = Rank(rows[j].model) /\ rows[i].model < rows[j].model
  <2>1. RouteBefore(o[i], o[j])
    BY <1>6, <1>7, <1>10
  <2>2. /\ rows[i].model = o[i][1] /\ rows[i].provider = o[i][2]
        /\ rows[j].model = o[j][1] /\ rows[j].provider = o[j][2]
    BY <1>6, <1>8
  <2>. QED BY <2>1, <2>2 DEF RouteBefore, Before
<1>11. ASSUME NEW r \in Range(rows)
       PROVE  /\ Weakest(r, Behind(r.model, r.provider), r.model, r.provider)
              /\ r.model \in Eligible
  <2>1. PICK n \in DOMAIN o : r = rows[n]
    BY <1>6 DEF Range
  <2>. QED BY <1>8, <2>1
<1>12. RowsStand(rows)
  BY <1>9, <1>10, <1>11 DEF RowsStand
<1>. QED BY <1>12 DEF rows

\* Two eligible models have different ranks: the official list gives them.
LEMMA RanksDiffer ==
  ASSUME ListedOk, NEW m \in Eligible, NEW n \in Eligible, Rank(m) = Rank(n)
  PROVE  m = n
<1>. DEFINE P(x) == Places(listed[Official], x)
            N == Len(listed[Official])
<1>1. ASSUME NEW x \in Eligible
      PROVE  /\ Rank(x) \in DOMAIN listed[Official] /\ listed[Official][Rank(x)].model = x
  <2>1. Rank(x) <= Ceiling /\ Rank(x) \in Int
    BY RankIs DEF Eligible
  <2>2. Rank(x) # Unranked
    BY <2>1, CatalogAssumption
  <2>3. Official \in Answered /\ P(x) # {} /\ Rank(x) = Max(P(x))
    BY <2>2 DEF Rank
  <2>4. listed[Official] \in Seq(ListedRows)
    BY <2>3, ListsAre
  <2>5. P(x) \in SUBSET (0 .. N) /\ N \in Nat
    BY <2>4, PlacesAre
  <2>6. Max(P(x)) \in P(x)
    <3>. HIDE DEF P, N
    <3>. QED BY <2>3, <2>5, MaxOf
  <2>. QED BY <2>3, <2>6 DEF Places
<1>2. listed[Official][Rank(m)].model = m /\ listed[Official][Rank(n)].model = n
  BY <1>1
<1>. QED BY <1>2

\* Every wanted model whose endpoints are all turned down has a reason.
RefusalsStand(ref) == \A m \in Range(wanted) : Kept(m) = {} => ref[m] # {}

\* A wanted model with no row has a reason.
LEMMA RefusalsAre ==
  ASSUME ListedOk, AllSent, Range(wanted) \subseteq Eligible
  PROVE  RefusalsStand(Refusals)
<1>. SUFFICES ASSUME NEW m \in Range(wanted), Kept(m) = {} PROVE Refusals[m] # {}
  BY DEF RefusalsStand
<1>. DEFINE why == {Reason(RowAt(m, i)) : i \in Offers(m)} \ {"none"}
<1>1. Refusals[m] = IF Offers(m) = {} THEN {"no-endpoint"} ELSE why
  BY DEF Refusals
<1>2. CASE Offers(m) = {}
  BY <1>1, <1>2
<1>3. CASE Offers(m) # {}
  <2>1. PICK i \in Offers(m) : TRUE
    BY <1>3
  <2>2. RowsOf(m) = {}
    <3>1. {<<m, RowAt(m, j).provider>> : j \in RowsOf(m)} = {<<m, e.provider>> : e \in Kept(m)}
      BY KeptAre
    <3>2. {<<m, e.provider>> : e \in Kept(m)} = {}
      OBVIOUS
    <3>. HIDE DEF why
    <3>. QED BY <3>1, <3>2
  <2>3. Reason(RowAt(m, i)) # "none"
    BY <2>1, <2>2 DEF RowsOf
  <2>4. Reason(RowAt(m, i)) \in why
    BY <2>3
  <2>. QED BY <1>1, <1>3, <2>4
<1>. QED BY <1>2, <1>3

(***************************************************************************)
(* What the later steps leave as it was                                    *)
(***************************************************************************)
LEMMA SameFacts ==
  ASSUME listed' = listed
  PROVE  /\ Answered' = Answered /\ Models' = Models /\ Stable' = Stable
         /\ \A m : Facts(m)' = Facts(m)
         /\ \A m : Rank(m)' = Rank(m)
         /\ \A m, n : Before(m, n)' <=> Before(m, n)
<1>1. Answered' = Answered
  BY DEF Answered
<1>2. Models' = Models
  BY <1>1 DEF Models
<1>3. Stable' = Stable
  BY <1>2 DEF Stable
<1>4. ASSUME NEW m PROVE Facts(m)' = Facts(m)
  <2>1. Listers(m)' = Listers(m)
    BY <1>1 DEF Listers, Places
  <2>. QED BY <2>1 DEF Facts, Places
<1>5. ASSUME NEW m PROVE Rank(m)' = Rank(m)
  BY <1>1 DEF Rank, Places
<1>6. ASSUME NEW m, NEW n PROVE Before(m, n)' <=> Before(m, n)
  BY <1>5 DEF Before
<1>. QED BY <1>1, <1>2, <1>3, <1>4, <1>5, <1>6

\* Candidates depend on the lists only.
LEMMA SameCandidates ==
  ASSUME listed' = listed
  PROVE  /\ \A c : May(c)' = May(c)
         /\ \A c : Candidates(c)' = Candidates(c)
         /\ AllCandidates' = AllCandidates
<1>1. Models' = Models /\ Stable' = Stable /\ \A m, n : Before(m, n)' <=> Before(m, n)
  BY SameFacts
<1>2. ASSUME NEW c PROVE May(c)' = May(c)
  BY <1>1 DEF May
<1>3. ASSUME NEW c PROVE Candidates(c)' = Candidates(c)
  <2>. DEFINE S == Stable \cap Governing[c]
  <2>1. ByRank(S)' = ByRank(S)
    <3>1. {p \in S \X S : Before(p[1], p[2])}' = {p \in S \X S : Before(p[1], p[2])}
      BY <1>1
    <3>2. S' = S
      BY <1>1
    <3>. HIDE DEF S
    <3>. QED BY <3>1, <3>2 DEF ByRank
  <2>. QED BY <2>1 DEF Candidates
<1>4. AllCandidates' = AllCandidates
  BY <1>3 DEF AllCandidates
<1>. QED BY <1>2, <1>3, <1>4

\* Eligible models depend on the lists and the route only.
LEMMA SameEligible ==
  ASSUME listed' = listed, route' = route
  PROVE  Eligible' = Eligible
BY SameFacts DEF Eligible, Priced

\* What is kept of a model depends on the lists and on what was fetched only.
LEMMA SameOffers ==
  ASSUME listed' = listed, private' = private, payloads' = payloads
  PROVE  /\ \A m : Kept(m)' = Kept(m)
         /\ \A m, p : Behind(m, p)' = Behind(m, p)
         /\ \A c, m : Suffices(c, m)' <=> Suffices(c, m)
<1>1. \A m : Facts(m)' = Facts(m)
  BY SameFacts
<1>2. ASSUME NEW m, NEW e, NEW q PROVE Stated(m, e, q)' = Stated(m, e, q)
  BY <1>1 DEF Stated
<1>3. ASSUME NEW m, NEW e PROVE RowOf(m, e)' = RowOf(m, e)
  BY <1>1, <1>2 DEF RowOf
<1>4. ASSUME NEW m, NEW e PROVE Admitted(m, e)' <=> Admitted(m, e)
  BY DEF Admitted
<1>5. ASSUME NEW m PROVE Kept(m)' = Kept(m)
  <2>1. ASSUME NEW e PROVE (Reason(RowOf(m, e)) = "none")' <=> Reason(RowOf(m, e)) = "none"
    BY <1>3
  <2>. QED BY <1>4, <2>1 DEF Kept
<1>6. ASSUME NEW m, NEW p PROVE Behind(m, p)' = Behind(m, p)
  BY <1>3, <1>5 DEF Behind
<1>7. ASSUME NEW c, NEW m PROVE Suffices(c, m)' <=> Suffices(c, m)
  <2>1. ASSUME NEW e PROVE CanGovern(c, m, e)' <=> CanGovern(c, m, e)
    BY <1>2 DEF CanGovern
  <2>. QED BY <1>4, <2>1 DEF Suffices
<1>. QED BY <1>5, <1>6, <1>7

(***************************************************************************)
(* The invariant                                                           *)
(***************************************************************************)
ShapeOk ==
  /\ route \in {"planned", "resolved", "exact"} /\ dry \in BOOLEAN
  /\ assigned \in Seq(PlanRows)
  /\ phase \in {"ask", "merged", "private", "fetch", "resolve", "rank", "compact", "done", "raised"}
  /\ route = "planned" => phase \in {"ask", "merged", "done", "raised"}
  /\ phase \in {"resolve", "rank"} => route = "exact"
  /\ phase \in {"private", "fetch", "resolve"} => ~dry
  /\ phase = "ask" => wanted = <<>>

FetchOk ==
  /\ fetching \subseteq Range(wanted) /\ DOMAIN payloads \subseteq Range(wanted)
  /\ fetching \cap DOMAIN payloads = {}
  /\ phase # "fetch" => fetching = {}
  /\ dry => DOMAIN payloads = {}
  /\ Range(wanted) \subseteq Models /\ DOMAIN wanted \subseteq Nat
  /\ \A m \in DOMAIN payloads : payloads[m] \in Seq(SentRows)
  /\ phase \in {"resolve", "compact"} /\ ~dry => DOMAIN payloads = Range(wanted)

WantedOk ==
  /\ phase \in {"private", "fetch", "resolve"} /\ route = "exact" /\ DOMAIN governors = {} =>
       Range(wanted) = AllCandidates
  /\ phase \in {"private", "fetch"} /\ (route # "exact" \/ DOMAIN governors # {}) =>
       Range(wanted) \subseteq Eligible
  /\ phase = "compact" => Range(wanted) \subseteq Eligible

GovernOk ==
  /\ DOMAIN governors \subseteq DOMAIN Governing
  /\ phase \in {"ask", "merged", "resolve"} => DOMAIN governors = {}
  /\ phase = "rank" /\ ~dry => DOMAIN governors = DOMAIN Governing
  /\ \A c \in DOMAIN governors :
       governors[c] \in May(c) /\ (phase = "rank" => Highest(c, governors[c]))

MadeOk ==
  phase = "done" /\ route # "planned" /\ ~dry =>
    Range(wanted) \subseteq Eligible /\ RowsStand(catalog) /\ RefusalsStand(refused)

CatalogInv ==
  ListedOk /\ ShapeOk /\ FetchOk /\ WantedOk /\ GovernOk /\ MadeOk /\ PlanFoundInAnyList

\* The invariant holds before anything is asked for.
LEMMA CatalogStarts == CatalogInit => CatalogInv
<1>. SUFFICES ASSUME CatalogInit PROVE CatalogInv
  OBVIOUS
<1>1. /\ route \in {"planned", "resolved", "exact"} /\ dry \in BOOLEAN /\ phase = "ask"
      /\ assigned \in {<<>>} \cup Plans
      /\ DOMAIN listed = {} /\ wanted = <<>> /\ fetching = {} /\ DOMAIN payloads = {}
      /\ DOMAIN governors = {}
  BY DEF CatalogInit, CatalogUnasked
<1>2. assigned \in Seq(PlanRows)
  <2>1. <<>> \in Seq(PlanRows)
    OBVIOUS
  <2>. QED BY <1>1, <2>1, CatalogAssumption
<1>3. Range(wanted) = {}
  <2>1. DOMAIN <<>> = {}
    OBVIOUS
  <2>. QED BY <1>1, <2>1 DEF Range
<1>4. ListedOk
  BY <1>1 DEF ListedOk
<1>5. ShapeOk
  BY <1>1, <1>2 DEF ShapeOk
<1>6. FetchOk
  BY <1>1, <1>3 DEF FetchOk
<1>7. WantedOk /\ GovernOk /\ MadeOk
  BY <1>1 DEF WantedOk, GovernOk, MadeOk
<1>8. PlanFoundInAnyList
  BY <1>1 DEF PlanFoundInAnyList
<1>. QED BY <1>4, <1>5, <1>6, <1>7, <1>8 DEF CatalogInv

\* What holds of the table holds of it after every step but a further list.
LEMMA TableStays ==
  ASSUME ListedOk, listed' = listed
  PROVE  ListedOk'
BY DEF ListedOk

\* Steps from a phase that is left to one that says nothing of what was made.
LEMMA NothingMade ==
  ASSUME phase' \notin {"done", "raised"}
  PROVE  MadeOk' /\ PlanFoundInAnyList'
BY DEF MadeOk, PlanFoundInAnyList

\* One more list that came keeps the invariant.
LEMMA AskSortKeeps ==
  ASSUME CatalogInv, AskSort
  PROVE  CatalogInv'
<1>. USE DEF CatalogInv, given, fetched, made
<1>1. /\ phase = "ask" /\ phase' = "ask" /\ UNCHANGED <<route, dry, assigned>>
      /\ UNCHANGED <<wanted, private, fetching, payloads, governors, catalog, refused>>
  BY DEF AskSort
<1>. DEFINE rest == {i \in DOMAIN Sorts : Sorts[i] \notin DOMAIN listed}
            next == Sorts[Min(rest)]
<1>2. PICK list \in Listings[next] \cup {Lost} :
        listed' = [s \in DOMAIN listed \cup {next} |-> IF s = next THEN list ELSE listed[s]]
  BY DEF AskSort
<1>3. next \in Range(Sorts)
  <2>1. rest \in SUBSET Nat /\ rest # {}
    <3>1. DOMAIN Sorts \subseteq Nat
      BY CatalogAssumption
    <3>. QED BY <3>1 DEF AskSort
  <2>2. Min(rest) \in rest
    <3>. HIDE DEF rest
    <3>. QED BY <2>1, MinOf
  <2>. QED BY <2>2 DEF Range
<1>. HIDE DEF next
<1>4. ListedOk'
  BY <1>2, <1>3 DEF ListedOk
<1>5. ShapeOk'
  BY <1>1 DEF ShapeOk
<1>6. Range(wanted)' = {} /\ fetching' = {} /\ (DOMAIN payloads)' = {}
  <2>1. wanted = <<>> /\ DOMAIN <<>> = {}
    BY <1>1 DEF ShapeOk
  <2>2. Range(wanted) = {}
    BY <2>1 DEF Range
  <2>3. Range(wanted)' = Range(wanted)
    BY <1>1 DEF Range
  <2>. QED BY <1>1, <2>2, <2>3 DEF FetchOk
<1>7. FetchOk'
  BY <1>1, <1>6 DEF FetchOk
<1>8. WantedOk' /\ GovernOk'
  BY <1>1 DEF WantedOk, GovernOk
<1>9. MadeOk' /\ PlanFoundInAnyList'
  BY <1>1, NothingMade
<1>. QED BY <1>4, <1>5, <1>7, <1>8, <1>9

\* A step that only leaves the phase for one in which nothing is promised of the
\* governors, the models wanted and what was made.
LEMMA WantedStays ==
  ASSUME wanted' = wanted
  PROVE  Range(wanted)' = Range(wanted)
BY DEF Range

\* Merging the lists keeps the invariant.
LEMMA MergeSortsKeeps ==
  ASSUME CatalogInv, MergeSorts
  PROVE  CatalogInv'
<1>. USE DEF CatalogInv, given, fetched, made
<1>1. /\ phase = "ask" /\ UNCHANGED <<route, dry, assigned, listed>>
      /\ UNCHANGED <<wanted, private, fetching, payloads, governors, catalog, refused>>
      /\ phase' = IF Models = {} THEN "raised" ELSE "merged"
  BY DEF MergeSorts, Enter
<1>2. ListedOk'
  BY <1>1, TableStays
<1>3. ShapeOk'
  BY <1>1 DEF ShapeOk
<1>4. FetchOk'
  <2>1. Range(wanted)' = Range(wanted) /\ Models' = Models
    BY <1>1, SameFacts, WantedStays
  <2>. QED BY <1>1, <2>1 DEF FetchOk
<1>5. WantedOk' /\ GovernOk'
  BY <1>1 DEF WantedOk, GovernOk
<1>6. CASE Models # {}
  <2>1. phase' \notin {"done", "raised"}
    BY <1>1, <1>6
  <2>. QED BY <1>2, <1>3, <1>4, <1>5, <2>1, NothingMade
<1>7. CASE Models = {}
  <2>1. ASSUME NEW s \in DOMAIN listed PROVE listed[s] \in {Lost, <<>>}
    <3>. SUFFICES ASSUME listed[s] # Lost PROVE listed[s] = <<>>
      OBVIOUS
    <3>1. s \in Answered
      BY DEF Answered
    <3>2. listed[s] \in Seq(ListedRows)
      BY <3>1, ListsAre
    <3>3. DOMAIN listed[s] = {}
      <4>1. ASSUME NEW i \in DOMAIN listed[s] PROVE listed[s][i].model \in Models
        BY <3>1 DEF Models
      <4>. QED BY <1>7, <4>1
    <3>. DEFINE l == listed[s]
    <3>. HIDE DEF l
    <3>4. l \in Seq(ListedRows) /\ DOMAIN l = {} => l = <<>>
      OBVIOUS
    <3>. QED BY <3>2, <3>3, <3>4 DEF l
  <2>2. PlanFoundInAnyList'
    <3>1. phase' = "raised"
      BY <1>1, <1>7
    <3>2. (\A s \in DOMAIN listed : listed[s] \in {Lost, <<>>})'
      BY <1>1, <2>1
    <3>. QED BY <3>1, <3>2 DEF PlanFoundInAnyList
  <2>3. MadeOk'
    BY <1>1, <1>7 DEF MadeOk
  <2>. QED BY <1>2, <1>3, <1>4, <1>5, <2>2, <2>3
<1>. QED BY <1>6, <1>7

\* Looking the plan's models up keeps the invariant: none is refused that a list names.
LEMMA LookUpKeeps ==
  ASSUME CatalogInv, LookUp
  PROVE  CatalogInv'
<1>. USE DEF CatalogInv, given, fetched
<1>. DEFINE bad == PlannedIds = <<>> \/ ~(Range(PlannedIds) \subseteq Models)
            rows == [i \in DOMAIN PlannedIds |-> PlanRow(PlannedIds[i])]
<1>1. /\ phase = "merged" /\ route = "planned" /\ UNCHANGED <<route, dry, assigned, listed>>
      /\ UNCHANGED <<wanted, private, fetching, payloads, governors, refused>>
      /\ bad => phase' = "raised" /\ catalog' = catalog
      /\ ~bad => phase' = "done" /\ catalog' = rows
  BY DEF LookUp, Enter
<1>. DEFINE ids == PlannedIds
<1>2. EachOnce(ids, assigned) /\ assigned \in Seq(PlanRows)
  BY PlannedIdsAre DEF ShapeOk
<1>. HIDE DEF ids
<1>3. ListedOk'
  BY <1>1, TableStays
<1>4. ShapeOk'
  BY <1>1 DEF ShapeOk
<1>5. FetchOk'
  <2>1. Range(wanted)' = Range(wanted) /\ Models' = Models
    BY <1>1, SameFacts, WantedStays
  <2>2. phase' \in {"done", "raised"}
    BY <1>1
  <2>. QED BY <1>1, <2>1, <2>2 DEF FetchOk
<1>6. WantedOk' /\ GovernOk' /\ MadeOk'
  <2>1. phase' \in {"done", "raised"}
    BY <1>1
  <2>. QED BY <1>1, <2>1 DEF WantedOk, GovernOk, MadeOk
<1>7. CASE bad
  <2>1. phase' = "raised"
    BY <1>1, <1>7
  <2>2. ids = <<>> => assigned = <<>>
    <3>. SUFFICES ASSUME ids = <<>> PROVE assigned = <<>>
      OBVIOUS
    <3>1. Range(ids) = {}
      <4>1. DOMAIN <<>> = {}
        OBVIOUS
      <4>. QED BY <4>1 DEF Range
    <3>2. DOMAIN assigned = {}
      <4>1. ASSUME NEW i \in DOMAIN assigned PROVE assigned[i].model \in Range(ids)
        BY <1>2 DEF EachOnce
      <4>. QED BY <3>1, <4>1
    <3>. QED BY <1>2, <3>2
  <2>3. ASSUME ids # <<>>
        PROVE  \E row \in Range(assigned) :
                 ~\E s \in DOMAIN listed : listed[s] # Lost /\ Places(listed[s], row.model) # {}
    <3>1. PICK m \in Range(ids) : m \notin Models
      BY <1>7, <2>3 DEF ids
    <3>2. PICK i \in DOMAIN assigned : assigned[i].model = m
      BY <1>2, <3>1 DEF EachOnce
    <3>3. ASSUME NEW s \in DOMAIN listed, listed[s] # Lost, Places(listed[s], m) # {} PROVE FALSE
      BY <3>1, <3>3 DEF Models, Answered, Places
    <3>. QED BY <3>2, <3>3 DEF Range
  <2>4. PlanFoundInAnyList'
    <3>1. assigned' = assigned /\ listed' = listed
      BY <1>1
    <3>. QED BY <2>1, <2>2, <2>3, <3>1 DEF PlanFoundInAnyList, Places, Range
  <2>. QED BY <1>3, <1>4, <1>5, <1>6, <2>4
<1>8. CASE ~bad
  <2>1. phase' = "done" /\ catalog' = rows /\ assigned' = assigned /\ listed' = listed
    BY <1>1, <1>8
  <2>2. Range(ids) \subseteq Models
    BY <1>8 DEF ids
  <2>3. DOMAIN rows = DOMAIN ids /\ \A i \in DOMAIN ids : rows[i] = PlanRow(ids[i])
    BY DEF ids
  <2>. HIDE DEF rows, bad
  <2>4. ASSUME NEW i \in DOMAIN ids
        PROVE  rows[i].model = ids[i] /\ RowStands(rows[i])
    <3>1. ids[i] \in Range(ids)
      BY DEF Range
    <3>2. ids[i] \in Models /\ ids[i] \in {assigned[k].model : k \in DOMAIN assigned}
      BY <1>2, <2>2, <3>1 DEF EachOnce
    <3>. QED BY <1>2, <2>3, <3>2, PlanRowIs
  <2>5. {r.model : r \in Range(rows)} = {row.model : row \in Range(assigned)}
    <3>1. {r.model : r \in Range(rows)} = Range(ids)
      BY <2>3, <2>4 DEF Range
    <3>2. {row.model : row \in Range(assigned)} = {assigned[k].model : k \in DOMAIN assigned}
      BY DEF Range
    <3>. QED BY <1>2, <3>1, <3>2 DEF EachOnce
  <2>6. ASSUME NEW i \in DOMAIN rows, NEW j \in DOMAIN rows, i < j
        PROVE  /\ rows[i].model # rows[j].model
               /\ \E k \in DOMAIN assigned : /\ assigned[k].model = rows[i].model
                    /\ \A l \in 1 .. k : assigned[l].model # rows[j].model
    BY <1>2, <2>3, <2>4, <2>6 DEF EachOnce
  <2>7. ASSUME NEW r \in Range(rows) PROVE RowStands(r)
    BY <2>3, <2>4 DEF Range
  <2>8. \A m : Facts(m)' = Facts(m)
    BY <2>1, SameFacts
  <2>9. PlanFoundInAnyList'
    <3>1. ASSUME NEW r \in Range(rows) PROVE RowStands(r)'
      BY <2>1, <2>7, <2>8 DEF RowStands
    <3>2. (\A r \in Range(catalog) : RowStands(r))'
      BY <2>1, <3>1 DEF Range
    <3>3. ({r.model : r \in Range(catalog)} = {row.model : row \in Range(assigned)})'
      BY <2>1, <2>5 DEF Range
    <3>4. (\A i, j \in DOMAIN catalog : i < j =>
             /\ catalog[i].model # catalog[j].model
             /\ \E k \in DOMAIN assigned : /\ assigned[k].model = catalog[i].model
                  /\ \A l \in 1 .. k : assigned[l].model # catalog[j].model)'
      BY <2>1, <2>6
    <3>5. (phase = "done")' /\ ~(phase = "raised")'
      BY <2>1
    <3>. QED BY <3>2, <3>3, <3>4, <3>5 DEF PlanFoundInAnyList, RowStands
  <2>. QED BY <1>3, <1>4, <1>5, <1>6, <2>9
<1>. QED BY <1>7, <1>8

\* Nothing is said of a plan on the other routes.
LEMMA OtherRoutes ==
  ASSUME route' # "planned"
  PROVE  PlanFoundInAnyList'
BY DEF PlanFoundInAnyList

\* Asking for the candidates' endpoints keeps the invariant.
LEMMA SeekGovernorsKeeps ==
  ASSUME CatalogInv, SeekGovernors
  PROVE  CatalogInv'
<1>. USE DEF CatalogInv, given, fetched, made
<1>. DEFINE all == ByRank(UNION {Range(Candidates(c)) : c \in DOMAIN Governing})
<1>1. /\ phase = "merged" /\ route = "exact" /\ UNCHANGED <<route, dry, assigned, listed>>
      /\ UNCHANGED <<fetching, governors, catalog, refused>>
      /\ \/ phase' \in {"rank", "raised"} /\ UNCHANGED <<wanted, private, payloads>>
            /\ (dry \/ phase' = "raised")
         \/ ~dry /\ phase' = "private" /\ wanted' = all /\ private' = {} /\ DOMAIN payloads' = {}
  BY DEF SeekGovernors, Enter, Want
<1>2. ListedOk' /\ PlanFoundInAnyList'
  BY <1>1, TableStays, OtherRoutes
<1>3. ShapeOk'
  BY <1>1 DEF ShapeOk
<1>4. Range(all) = AllCandidates /\ AllCandidates \subseteq Models
  <2>1. \A c : Fit(c) \subseteq Models
    BY DEF Fit, Stable
  <2>2. AllCandidates \in SUBSET Models
    <3>1. ASSUME NEW c, NEW m \in Range(Candidates(c)) PROVE m \in Models
      <4>1. LookedAt(Candidates(c), Fit(c))
        BY CandidatesAre
      <4>. QED BY <2>1, <4>1 DEF LookedAt, Range
    <3>. QED BY <3>1 DEF AllCandidates
  <2>3. Graded(ByRank(AllCandidates), AllCandidates)
    BY <2>2, ByRankIs
  <2>. QED BY <2>2, <2>3 DEF Graded, AllCandidates
<1>. HIDE DEF all
<1>5. Models' = Models /\ AllCandidates' = AllCandidates
  BY <1>1, SameFacts, SameCandidates
<1>6. DOMAIN governors = {} /\ fetching = {}
  BY <1>1 DEF GovernOk, FetchOk
<1>7. CASE UNCHANGED <<wanted, private, payloads>> /\ phase' \in {"rank", "raised"}
  <2>1. Range(wanted)' = Range(wanted)
    BY <1>7, WantedStays
  <2>2. FetchOk'
    BY <1>1, <1>5, <1>7, <2>1 DEF FetchOk
  <2>3. WantedOk' /\ GovernOk' /\ MadeOk'
    BY <1>1, <1>6, <1>7 DEF WantedOk, GovernOk, MadeOk
  <2>. QED BY <1>2, <1>3, <2>2, <2>3
<1>8. CASE ~dry /\ phase' = "private" /\ wanted' = all /\ DOMAIN payloads' = {}
  <2>1. Range(wanted)' = AllCandidates
    BY <1>4, <1>8 DEF Range
  <2>2. FetchOk'
    BY <1>1, <1>4, <1>5, <1>6, <1>8, <2>1 DEF FetchOk
  <2>3. WantedOk'
    BY <1>1, <1>5, <1>6, <1>8, <2>1 DEF WantedOk
  <2>4. GovernOk' /\ MadeOk'
    BY <1>1, <1>6, <1>8 DEF GovernOk, MadeOk
  <2>. QED BY <1>2, <1>3, <2>2, <2>3, <2>4
<1>. QED BY <1>1, <1>7, <1>8

\* Choosing the governors keeps the invariant: the first usable one is the highest.
LEMMA ResolveKeeps ==
  ASSUME CatalogInv, Resolve
  PROVE  CatalogInv'
<1>. USE DEF CatalogInv, given, fetched
<1>1. /\ phase = "resolve" /\ UNCHANGED <<route, dry, assigned, listed>>
      /\ UNCHANGED <<wanted, private, fetching, payloads, catalog, refused>>
      /\ \/ phase' = "raised" /\ governors' = governors
         \/ /\ phase' = "rank" /\ \A c \in DOMAIN Governing : Usable(c) # {}
            /\ governors' = [c \in DOMAIN Governing |-> Resolved(c, Usable(c))]
  BY DEF Resolve, Enter
<1>2. route = "exact" /\ ~dry
  BY <1>1 DEF ShapeOk
<1>3. ListedOk' /\ PlanFoundInAnyList'
  BY <1>1, <1>2, TableStays, OtherRoutes
<1>4. ShapeOk'
  BY <1>1, <1>2 DEF ShapeOk
<1>5. FetchOk'
  <2>1. Range(wanted)' = Range(wanted) /\ Models' = Models
    BY <1>1, SameFacts, WantedStays
  <2>2. phase' \notin {"fetch", "resolve", "compact"} /\ fetching = {}
    BY <1>1 DEF FetchOk
  <2>. QED BY <1>1, <1>2, <2>1, <2>2 DEF FetchOk
<1>6. WantedOk' /\ MadeOk'
  BY <1>1 DEF WantedOk, MadeOk
<1>7. GovernOk'
  <2>1. CASE phase' = "raised" /\ governors' = governors
    BY <1>1, <2>1 DEF GovernOk
  <2>2. CASE /\ phase' = "rank" /\ \A c \in DOMAIN Governing : Usable(c) # {}
             /\ governors' = [c \in DOMAIN Governing |-> Resolved(c, Usable(c))]
    <3>1. /\ \A c : May(c)' = May(c)
          /\ \A c, m : Suffices(c, m)' <=> Suffices(c, m)
          /\ \A m, n : Before(m, n)' <=> Before(m, n)
      BY <1>1, SameCandidates, SameOffers, SameFacts
    <3>2. ASSUME NEW c \in DOMAIN Governing
          PROVE  governors'[c] \in May(c)' /\ Highest(c, governors[c])'
      <4>1. PICK g : g = Resolved(c, Usable(c))
        OBVIOUS
      <4>2. governors'[c] = g /\ g \in May(c) /\ Highest(c, g)
        BY <1>2, <2>2, <4>1, FirstUsableIsHighest
      <4>3. Highest(c, g)'
        BY <3>1, <4>2 DEF Highest
      <4>. QED BY <3>1, <4>2, <4>3 DEF Highest
    <3>. QED BY <2>2, <3>2 DEF GovernOk
  <2>. QED BY <1>1, <2>1, <2>2
<1>. QED BY <1>3, <1>4, <1>5, <1>6, <1>7

\* The governors stay those they are in steps that do not end in the phase that
\* follows their choice.
LEMMA GovernorsStay ==
  ASSUME GovernOk, listed' = listed, governors' = governors,
         phase' \in {"ask", "merged", "resolve"} => DOMAIN governors = {},
         phase' # "rank"
  PROVE  GovernOk'
<1>1. \A c : May(c)' = May(c)
  BY SameCandidates
<1>. QED BY <1>1 DEF GovernOk

\* Asking for all eligible models keeps the invariant.
LEMMA RankAllKeeps ==
  ASSUME CatalogInv, RankAll
  PROVE  CatalogInv'
<1>. USE DEF CatalogInv, given, fetched, made
<1>1. /\ phase = "rank" /\ UNCHANGED <<route, dry, assigned, listed>>
      /\ UNCHANGED <<fetching, governors, catalog, refused>>
      /\ \/ phase' = "raised" /\ UNCHANGED <<wanted, private, payloads>>
         \/ dry /\ phase' = "compact" /\ wanted' = Ranked /\ UNCHANGED <<private, payloads>>
         \/ ~dry /\ phase' = "private" /\ wanted' = Ranked /\ private' = {} /\ DOMAIN payloads' = {}
            /\ Eligible # {}
  <2>1. CASE Eligible = {}
    BY <2>1 DEF RankAll, Enter
  <2>2. CASE Eligible # {} /\ dry
    BY <2>2 DEF RankAll, Enter
  <2>3. CASE Eligible # {} /\ ~dry
    BY <2>3 DEF RankAll, Enter, Want
  <2>. QED BY <2>1, <2>2, <2>3
<1>2. route = "exact" /\ fetching = {}
  BY <1>1 DEF ShapeOk, FetchOk
<1>3. ListedOk' /\ PlanFoundInAnyList'
  BY <1>1, <1>2, TableStays, OtherRoutes
<1>4. ShapeOk'
  BY <1>1, <1>2 DEF ShapeOk
<1>5. Range(Ranked) = Eligible /\ Eligible \subseteq Models
  <2>1. Eligible \in SUBSET Models
    BY DEF Eligible, Stable
  <2>. QED BY <2>1, ByRankIs DEF Graded, Ranked
<1>6. Models' = Models /\ Eligible' = Eligible
  BY <1>1, SameFacts, SameEligible
<1>7. GovernOk' /\ MadeOk'
  <2>1. phase' \notin {"done", "ask", "merged", "resolve", "rank"}
    BY <1>1
  <2>. QED BY <1>1, <2>1, GovernorsStay DEF MadeOk
<1>8. CASE phase' = "raised" /\ UNCHANGED <<wanted, private, payloads>>
  <2>1. Range(wanted)' = Range(wanted)
    BY <1>8, WantedStays
  <2>. QED BY <1>1, <1>2, <1>3, <1>4, <1>6, <1>7, <1>8, <2>1 DEF FetchOk, WantedOk
<1>9. CASE dry /\ phase' = "compact" /\ wanted' = Ranked /\ UNCHANGED <<private, payloads>>
  <2>1. Range(wanted)' = Eligible
    BY <1>5, <1>9 DEF Range
  <2>2. FetchOk'
    BY <1>1, <1>2, <1>5, <1>6, <1>9, <2>1 DEF FetchOk
  <2>3. WantedOk'
    BY <1>6, <1>9, <2>1 DEF WantedOk
  <2>. QED BY <1>3, <1>4, <1>7, <2>2, <2>3
<1>10. CASE ~dry /\ phase' = "private" /\ wanted' = Ranked /\ DOMAIN payloads' = {}
            /\ Eligible # {}
  <2>1. Range(wanted)' = Eligible
    BY <1>5, <1>10 DEF Range
  <2>2. FetchOk'
    BY <1>1, <1>2, <1>5, <1>6, <1>10, <2>1 DEF FetchOk
  <2>3. WantedOk'
    <3>1. DOMAIN governors # {}
      BY <1>1, <1>10, CatalogAssumption DEF GovernOk
    <3>. QED BY <1>1, <1>6, <1>10, <2>1, <3>1 DEF WantedOk
  <2>. QED BY <1>3, <1>4, <1>7, <2>2, <2>3
<1>. QED BY <1>1, <1>8, <1>9, <1>10

\* Asking for the plan's models keeps the invariant.
LEMMA TakePlanKeeps ==
  ASSUME CatalogInv, TakePlan
  PROVE  CatalogInv'
<1>. USE DEF CatalogInv, given, fetched, made
<1>. DEFINE models == [i \in DOMAIN assigned |-> assigned[i].model]
            bad == models = <<>> \/ ~IsInjective(models) \/ ~(Range(models) \subseteq Eligible)
<1>1. /\ phase = "merged" /\ route = "resolved" /\ UNCHANGED <<route, dry, assigned, listed>>
      /\ UNCHANGED <<fetching, governors, catalog, refused>>
      /\ \/ phase' = "raised" /\ UNCHANGED <<wanted, private, payloads>>
         \/ ~bad /\ dry /\ phase' = "compact" /\ wanted' = models /\ UNCHANGED <<private, payloads>>
         \/ ~bad /\ ~dry /\ phase' = "private" /\ wanted' = models /\ private' = {} /\ DOMAIN payloads' = {}
  <2>1. CASE bad
    BY <2>1 DEF TakePlan, Enter
  <2>2. CASE ~bad /\ dry
    BY <2>2 DEF TakePlan, Enter
  <2>3. CASE ~bad /\ ~dry
    BY <2>3 DEF TakePlan, Enter, Want
  <2>. QED BY <2>1, <2>2, <2>3
<1>2. ~bad => Range(models) \subseteq Eligible
  OBVIOUS
<1>. HIDE DEF models, bad
<1>3. fetching = {} /\ DOMAIN governors = {} /\ Eligible \subseteq Models
  BY <1>1 DEF FetchOk, GovernOk, Eligible, Stable
<1>4. ListedOk' /\ PlanFoundInAnyList'
  BY <1>1, TableStays, OtherRoutes
<1>5. ShapeOk'
  BY <1>1 DEF ShapeOk
<1>6. Models' = Models /\ Eligible' = Eligible
  BY <1>1, SameFacts, SameEligible
<1>7. GovernOk' /\ MadeOk'
  <2>1. phase' \notin {"done", "ask", "merged", "resolve", "rank"}
    BY <1>1
  <2>. QED BY <1>1, <2>1, GovernorsStay DEF MadeOk
<1>8. CASE phase' = "raised" /\ UNCHANGED <<wanted, private, payloads>>
  <2>1. Range(wanted)' = Range(wanted)
    BY <1>8, WantedStays
  <2>. QED BY <1>1, <1>3, <1>4, <1>5, <1>6, <1>7, <1>8, <2>1 DEF FetchOk, WantedOk
<1>9. CASE ~bad /\ dry /\ phase' = "compact" /\ wanted' = models /\ UNCHANGED <<private, payloads>>
  <2>1. Range(wanted)' \subseteq Eligible
    BY <1>2, <1>9 DEF Range
  <2>2. FetchOk'
    BY <1>1, <1>3, <1>6, <1>9, <2>1 DEF FetchOk
  <2>3. WantedOk'
    BY <1>6, <1>9, <2>1 DEF WantedOk
  <2>. QED BY <1>4, <1>5, <1>7, <2>2, <2>3
<1>10. CASE ~bad /\ ~dry /\ phase' = "private" /\ wanted' = models /\ DOMAIN payloads' = {}
  <2>1. Range(wanted)' \subseteq Eligible
    BY <1>2, <1>10 DEF Range
  <2>2. FetchOk'
    BY <1>1, <1>3, <1>6, <1>10, <2>1 DEF FetchOk
  <2>3. WantedOk'
    BY <1>1, <1>6, <1>10, <2>1 DEF WantedOk
  <2>. QED BY <1>4, <1>5, <1>7, <2>2, <2>3
<1>. QED BY <1>1, <1>8, <1>9, <1>10

\* The list of private routes keeps the invariant.
LEMMA AskPrivateKeeps ==
  ASSUME CatalogInv, AskPrivate
  PROVE  CatalogInv'
<1>. USE DEF CatalogInv, given, made
<1>1. /\ phase = "private" /\ UNCHANGED <<route, dry, assigned, listed>>
      /\ UNCHANGED <<wanted, fetching, payloads, governors, catalog, refused>>
      /\ phase' \in {"raised", "fetch"}
  BY DEF AskPrivate, Enter
<1>2. route # "planned" /\ ~dry
  BY <1>1 DEF ShapeOk
<1>3. ListedOk' /\ PlanFoundInAnyList'
  BY <1>1, <1>2, TableStays, OtherRoutes
<1>4. ShapeOk'
  BY <1>1, <1>2 DEF ShapeOk
<1>5. Range(wanted)' = Range(wanted) /\ Models' = Models /\ Eligible' = Eligible
      /\ AllCandidates' = AllCandidates
  BY <1>1, WantedStays, SameFacts, SameEligible, SameCandidates
<1>6. FetchOk'
  BY <1>1, <1>2, <1>5 DEF FetchOk
<1>7. WantedOk'
  BY <1>1, <1>5 DEF WantedOk
<1>8. GovernOk' /\ MadeOk'
  <2>1. phase' \notin {"done", "ask", "merged", "resolve", "rank"}
    BY <1>1
  <2>. QED BY <1>1, <2>1, GovernorsStay DEF MadeOk
<1>. QED BY <1>3, <1>4, <1>6, <1>7, <1>8

\* Whatever is fetched, of the models wanted, is a list that the server sends.
LEMMA FetchedOk ==
  ASSUME CatalogInv, phase = "fetch", phase' = "fetch",
         UNCHANGED <<route, dry, assigned, listed, wanted, private, governors, catalog, refused>>,
         fetching' \subseteq Range(wanted), DOMAIN payloads' \subseteq Range(wanted),
         fetching' \cap DOMAIN payloads' = {},
         \A m \in DOMAIN payloads' : payloads'[m] \in Seq(SentRows)
  PROVE  CatalogInv'
<1>. USE DEF CatalogInv
<1>1. route # "planned" /\ ~dry
  BY DEF ShapeOk
<1>2. ListedOk' /\ PlanFoundInAnyList'
  BY <1>1, TableStays, OtherRoutes
<1>3. ShapeOk'
  BY <1>1 DEF ShapeOk
<1>4. Range(wanted)' = Range(wanted) /\ Models' = Models /\ Eligible' = Eligible
      /\ AllCandidates' = AllCandidates
  BY WantedStays, SameFacts, SameEligible, SameCandidates
<1>5. FetchOk'
  BY <1>1, <1>4 DEF FetchOk
<1>6. WantedOk'
  BY <1>4 DEF WantedOk
<1>7. GovernOk' /\ MadeOk'
  BY GovernorsStay DEF MadeOk
<1>. QED BY <1>2, <1>3, <1>5, <1>6, <1>7

\* A fetch that starts keeps the invariant.
LEMMA StartFetchKeeps ==
  ASSUME CatalogInv, StartFetch
  PROVE  CatalogInv'
<1>. DEFINE rest == {i \in DOMAIN wanted : wanted[i] \notin fetching \cup DOMAIN payloads}
            next == wanted[Min(rest)]
<1>1. /\ phase = "fetch" /\ phase' = "fetch" /\ rest # {}
      /\ UNCHANGED <<route, dry, assigned, listed, wanted, private, payloads>>
      /\ UNCHANGED <<governors, catalog, refused>>
      /\ fetching' = fetching \cup {next}
  BY DEF StartFetch, given, made
<1>2. \E i \in rest : next = wanted[i]
  <2>1. DOMAIN wanted \in SUBSET Nat
    BY DEF CatalogInv, FetchOk
  <2>2. rest \in SUBSET Nat
    BY <2>1
  <2>3. Min(rest) \in rest
    <3>. HIDE DEF rest
    <3>. QED BY <1>1, <2>2, MinOf
  <2>. QED BY <2>3
<1>3. next \in Range(wanted) /\ next \notin fetching \cup DOMAIN payloads
  BY <1>2 DEF Range
<1>. HIDE DEF next
<1>4. /\ fetching \subseteq Range(wanted) /\ DOMAIN payloads \subseteq Range(wanted)
      /\ fetching \cap DOMAIN payloads = {}
      /\ \A m \in DOMAIN payloads : payloads[m] \in Seq(SentRows)
  BY DEF CatalogInv, FetchOk
<1>5. /\ fetching' \subseteq Range(wanted) /\ DOMAIN payloads' \subseteq Range(wanted)
      /\ fetching' \cap DOMAIN payloads' = {}
      /\ \A m \in DOMAIN payloads' : payloads'[m] \in Seq(SentRows)
  BY <1>1, <1>3, <1>4
<1>. QED BY <1>1, <1>5, FetchedOk

\* A fetch that ends keeps the invariant, in whatever order fetches end.
LEMMA EndFetchKeeps ==
  ASSUME CatalogInv, NEW m \in fetching, EndFetch(m)
  PROVE  CatalogInv'
<1>1. /\ phase = "fetch" /\ phase' = "fetch" /\ fetching' = fetching \ {m}
      /\ UNCHANGED <<route, dry, assigned, listed, wanted, private>>
      /\ UNCHANGED <<governors, catalog, refused>>
  BY DEF EndFetch, given, made
<1>2. PICK inventory \in Inventories[m] \cup {<<>>} :
        payloads' = [n \in DOMAIN payloads \cup {m} |-> IF n = m THEN inventory ELSE payloads[n]]
  BY DEF EndFetch
<1>3. /\ fetching \subseteq Range(wanted) /\ DOMAIN payloads \subseteq Range(wanted)
      /\ fetching \cap DOMAIN payloads = {}
      /\ \A n \in DOMAIN payloads : payloads[n] \in Seq(SentRows)
      /\ Range(wanted) \subseteq Models
  BY DEF CatalogInv, FetchOk
<1>4. inventory \in Seq(SentRows)
  <2>1. m \in Market
    BY <1>3, FactsAre DEF CatalogInv
  <2>2. <<>> \in Seq(SentRows)
    OBVIOUS
  <2>. QED BY <2>1, <2>2, CatalogAssumption
<1>5. /\ fetching' \subseteq Range(wanted) /\ DOMAIN payloads' \subseteq Range(wanted)
      /\ fetching' \cap DOMAIN payloads' = {}
      /\ \A n \in DOMAIN payloads' : payloads'[n] \in Seq(SentRows)
  BY <1>1, <1>2, <1>3, <1>4
<1>. QED BY <1>1, <1>5, FetchedOk

\* The end of fetching keeps the invariant.
LEMMA AllFetchedKeeps ==
  ASSUME CatalogInv, AllFetched
  PROVE  CatalogInv'
<1>. USE DEF CatalogInv, given, fetched, made
<1>1. /\ phase = "fetch" /\ UNCHANGED <<route, dry, assigned, listed>>
      /\ UNCHANGED <<wanted, private, fetching, payloads, governors, catalog, refused>>
      /\ DOMAIN payloads = Range(wanted)
      /\ phase' = IF route = "exact" /\ DOMAIN governors = {} THEN "resolve" ELSE "compact"
  BY DEF AllFetched, Enter
<1>2. route # "planned" /\ ~dry
  BY <1>1 DEF ShapeOk
<1>3. ListedOk' /\ PlanFoundInAnyList'
  BY <1>1, <1>2, TableStays, OtherRoutes
<1>4. ShapeOk'
  BY <1>1, <1>2 DEF ShapeOk
<1>5. Range(wanted)' = Range(wanted) /\ Models' = Models /\ Eligible' = Eligible
      /\ AllCandidates' = AllCandidates
  BY <1>1, WantedStays, SameFacts, SameEligible, SameCandidates
<1>6. FetchOk'
  <2>1. fetching = {}
    BY <1>1 DEF FetchOk
  <2>. QED BY <1>1, <1>2, <1>5, <2>1 DEF FetchOk
<1>7. WantedOk'
  BY <1>1, <1>5 DEF WantedOk
<1>8. GovernOk' /\ MadeOk'
  <2>1. phase' \notin {"done", "ask", "merged", "rank"}
        /\ (phase' = "resolve" => DOMAIN governors = {})
    BY <1>1
  <2>. QED BY <1>1, <2>1, GovernorsStay DEF MadeOk
<1>. QED BY <1>3, <1>4, <1>6, <1>7, <1>8

\* What is true of some rows of the catalog stays true of them.
LEMMA RowsStay ==
  ASSUME UNCHANGED <<route, listed, private, payloads, wanted>>, NEW rows, NEW ref
  PROVE  /\ RowsStand(rows) => RowsStand(rows)'
         /\ RefusalsStand(ref) => RefusalsStand(ref)'
<1>1. /\ \A m : Kept(m)' = Kept(m)
      /\ \A m, p : Behind(m, p)' = Behind(m, p)
      /\ \A m : Rank(m)' = Rank(m)
      /\ Range(wanted)' = Range(wanted) /\ Eligible' = Eligible
  BY SameOffers, SameFacts, SameEligible, WantedStays
<1>2. RefusalsStand(ref) => RefusalsStand(ref)'
  BY <1>1 DEF RefusalsStand
<1>3. ASSUME RowsStand(rows) PROVE RowsStand(rows)'
  <2>1. ({<<r.model, r.provider>> : r \in Range(rows)}
          = UNION {{<<m, e.provider>> : e \in Kept(m)} : m \in Range(wanted)})'
    <3>1. UNION {{<<m, e.provider>> : e \in Kept(m)} : m \in Range(wanted)}'
            = UNION {{<<m, e.provider>> : e \in Kept(m)} : m \in Range(wanted)}
      BY <1>1
    <3>. QED BY <1>3, <3>1 DEF RowsStand, Range
  <2>2. \A r \in Range(rows) : /\ Weakest(r, Behind(r.model, r.provider)', r.model, r.provider)
                               /\ r.model \in Eligible'
    BY <1>1, <1>3 DEF RowsStand
  <2>3. \A i, j \in DOMAIN rows : i < j =>
       \/ Rank(rows[i].model)' < Rank(rows[j].model)'
       \/ rows[i].model = rows[j].model /\ rows[i].provider < rows[j].provider
       \/ Rank(rows[i].model)' = Rank(rows[j].model)' /\ rows[i].model < rows[j].model
    BY <1>1, <1>3 DEF RowsStand
  <2>. QED BY <2>1, <2>2, <2>3 DEF RowsStand, Range, Weakest
<1>. QED BY <1>2, <1>3

\* Compacting keeps the invariant: rows and refusals are what was fetched.
LEMMA CompactKeeps ==
  ASSUME CatalogInv, Compact
  PROVE  CatalogInv'
<1>. USE DEF CatalogInv, given, fetched
<1>1. /\ phase = "compact" /\ UNCHANGED <<route, dry, assigned, listed>>
      /\ UNCHANGED <<wanted, private, fetching, payloads, governors>>
      /\ \/ phase' = "raised" /\ UNCHANGED <<catalog, refused>>
         \/ phase' = "done" /\ catalog' = Compacted /\ refused' = Refusals
  BY DEF Compact, Enter
<1>2. route # "planned" /\ fetching = {} /\ Range(wanted) \subseteq Eligible
  BY <1>1 DEF ShapeOk, FetchOk, WantedOk
<1>3. ListedOk' /\ PlanFoundInAnyList'
  BY <1>1, <1>2, TableStays, OtherRoutes
<1>4. ShapeOk'
  BY <1>1, <1>2 DEF ShapeOk
<1>5. Range(wanted)' = Range(wanted) /\ Models' = Models /\ Eligible' = Eligible
  BY <1>1, WantedStays, SameFacts, SameEligible
<1>6. FetchOk'
  <2>1. phase' \notin {"fetch", "resolve", "compact"}
    BY <1>1
  <2>. QED BY <1>1, <1>2, <1>5, <2>1 DEF FetchOk
<1>7. WantedOk' /\ GovernOk'
  <2>1. phase' \in {"done", "raised"}
    BY <1>1
  <2>. QED BY <1>1, <2>1, GovernorsStay DEF WantedOk
<1>8. MadeOk'
  <2>. SUFFICES ASSUME phase' = "done", ~dry PROVE MadeOk'
    BY <1>1 DEF MadeOk
  <2>1. AllSent
    BY <1>1 DEF FetchOk, AllSent
  <2>2. RowsStand(Compacted) /\ RefusalsStand(Refusals)
    BY <1>2, <2>1, CompactedIs, RefusalsAre
  <2>3. PICK rows : rows = Compacted
    OBVIOUS
  <2>4. PICK ref : ref = Refusals
    OBVIOUS
  <2>5. RowsStand(rows)' /\ RefusalsStand(ref)'
    BY <1>1, <2>2, <2>3, <2>4, RowsStay
  <2>6. catalog' = rows /\ refused' = ref
    BY <1>1, <2>3, <2>4
  <2>7. RowsStand(catalog)' /\ RefusalsStand(refused)'
    BY <2>5, <2>6 DEF RowsStand, RefusalsStand, Range
  <2>. QED BY <1>2, <1>5, <2>7 DEF MadeOk
<1>. QED BY <1>3, <1>4, <1>6, <1>7, <1>8

\* A step of anything else keeps the invariant.
LEMMA CatalogRests ==
  ASSUME CatalogInv, UNCHANGED catalogVars
  PROVE  CatalogInv'
<1>. USE DEF CatalogInv, catalogVars
<1>1. /\ Range(wanted)' = Range(wanted) /\ Models' = Models /\ Eligible' = Eligible
      /\ AllCandidates' = AllCandidates
      /\ \A c : May(c)' = May(c)
      /\ \A c, m : Suffices(c, m)' <=> Suffices(c, m)
      /\ \A m, n : Before(m, n)' <=> Before(m, n)
      /\ \A m : Facts(m)' = Facts(m)
  BY WantedStays, SameFacts, SameEligible, SameCandidates, SameOffers
<1>2. ListedOk' /\ ShapeOk'
  BY TableStays DEF ShapeOk
<1>3. FetchOk' /\ WantedOk'
  BY <1>1 DEF FetchOk, WantedOk
<1>4. GovernOk'
  <2>1. \A c, g : Highest(c, g)' <=> Highest(c, g)
    BY <1>1 DEF Highest
  <2>2. \A c : Highest(c, governors[c])' <=> Highest(c, governors[c])
    BY <1>1 DEF Highest
  <2>. QED BY <1>1, <2>2 DEF GovernOk
<1>5. MadeOk'
  <2>1. PICK rows : rows = catalog
    OBVIOUS
  <2>2. PICK ref : ref = refused
    OBVIOUS
  <2>3. /\ RowsStand(rows) => RowsStand(rows)'
        /\ RefusalsStand(ref) => RefusalsStand(ref)'
    BY RowsStay
  <2>4. rows = catalog' /\ ref = refused'
    BY <2>1, <2>2
  <2>5. /\ RowsStand(rows)' => RowsStand(catalog)'
        /\ RefusalsStand(ref)' => RefusalsStand(refused)'
    BY <2>4 DEF RowsStand, RefusalsStand, Range
  <2>. QED BY <1>1, <2>1, <2>2, <2>3, <2>5 DEF MadeOk
<1>6. PlanFoundInAnyList'
  <2>1. route' = route /\ phase' = phase /\ listed' = listed /\ assigned' = assigned
        /\ catalog' = catalog /\ Range(catalog)' = Range(catalog)
        /\ Range(assigned)' = Range(assigned)
        /\ Range(Pool \o assigned)' = Range(Pool \o assigned)
    BY DEF Range
  <2>2. \A m : (\E s \in DOMAIN listed' : listed'[s] # Lost /\ Places(listed'[s], m) # {})
              <=> \E s \in DOMAIN listed : listed[s] # Lost /\ Places(listed[s], m) # {}
    BY <2>1
  <2>. HIDE DEF CatalogInv, catalogVars
  <2>3. (route = "planned" /\ phase = "raised")' =>
            \/ \E row \in Range(assigned)' :
                 ~\E s \in DOMAIN listed' : listed'[s] # Lost /\ Places(listed'[s], row.model) # {}
            \/ \A s \in DOMAIN listed' : listed'[s] \in {Lost, <<>>}
            \/ assigned' = <<>>
    <3>1. (route = "planned" /\ phase = "raised") =>
            \/ \E row \in Range(assigned) :
                 ~\E s \in DOMAIN listed : listed[s] # Lost /\ Places(listed[s], row.model) # {}
            \/ \A s \in DOMAIN listed : listed[s] \in {Lost, <<>>}
            \/ assigned = <<>>
      BY DEF CatalogInv, PlanFoundInAnyList
    <3>. QED BY <2>1, <3>1
  <2>4. (route = "planned" /\ phase = "done") =>
          /\ {r.model : r \in Range(catalog)} = {row.model : row \in Range(assigned)}
          /\ \A i, j \in DOMAIN catalog : i < j =>
               /\ catalog[i].model # catalog[j].model
               /\ \E k \in DOMAIN assigned : /\ assigned[k].model = catalog[i].model
                    /\ \A l \in 1 .. k : assigned[l].model # catalog[j].model
          /\ \A r \in Range(catalog) :
               /\ r.context >= Facts(r.model).context
               /\ r.context \in {Facts(r.model).context}
                     \cup {row.context : row \in {q \in Range(Pool \o assigned) : q.model = r.model}}
    BY DEF CatalogInv, PlanFoundInAnyList
  <2>5. ASSUME (route = "planned" /\ phase = "done")'
        PROVE  /\ {r.model : r \in Range(catalog)'} = {row.model : row \in Range(assigned)'}
               /\ \A i, j \in DOMAIN catalog' : i < j =>
                    /\ catalog'[i].model # catalog'[j].model
                    /\ \E k \in DOMAIN assigned' : /\ assigned'[k].model = catalog'[i].model
                         /\ \A l \in 1 .. k : assigned'[l].model # catalog'[j].model
    <3>1. route = "planned" /\ phase = "done"
      BY <2>1, <2>5
    <3>2. {r.model : r \in Range(catalog)'} = {row.model : row \in Range(assigned)'}
      BY <2>1, <2>4, <3>1
    <3>3. PICK rows : rows = catalog
      OBVIOUS
    <3>4. PICK plan : plan = assigned
      OBVIOUS
    <3>5. \A i, j \in DOMAIN rows : i < j =>
                    /\ rows[i].model # rows[j].model
                    /\ \E k \in DOMAIN plan : /\ plan[k].model = rows[i].model
                         /\ \A l \in 1 .. k : plan[l].model # rows[j].model
      BY <2>4, <3>1, <3>3, <3>4
    <3>6. rows = catalog' /\ plan = assigned'
      BY <2>1, <3>3, <3>4
    <3>7. \A i, j \in DOMAIN catalog' : i < j =>
                    /\ catalog'[i].model # catalog'[j].model
                    /\ \E k \in DOMAIN assigned' : /\ assigned'[k].model = catalog'[i].model
                         /\ \A l \in 1 .. k : assigned'[l].model # catalog'[j].model
      <4>. HIDE <2>1, <2>4, <2>5, <1>1
      <4>. QED BY <3>5, <3>6
    <3>. QED BY <3>2, <3>7
  <2>6. ASSUME (route = "planned" /\ phase = "done")', NEW r \in Range(catalog)'
        PROVE  /\ r.context >= Facts(r.model)'.context
               /\ r.context \in {Facts(r.model)'.context}
                     \cup {row.context : row \in {q \in Range(Pool \o assigned)' : q.model = r.model}}
    <3>1. Facts(r.model)' = Facts(r.model)
      BY <1>1
    <3>. QED BY <2>1, <2>4, <2>6, <3>1
  <2>. QED BY <2>3, <2>5, <2>6 DEF PlanFoundInAnyList
<1>. QED BY <1>2, <1>3, <1>4, <1>5, <1>6

\* Every step of the catalog keeps the invariant.
LEMMA CatalogStep == CatalogInv /\ [NextCatalog]_catalogVars => CatalogInv'
<1>. SUFFICES ASSUME CatalogInv, [NextCatalog]_catalogVars PROVE CatalogInv'
  OBVIOUS
<1>. QED
  BY AskSortKeeps, MergeSortsKeeps, LookUpKeeps, SeekGovernorsKeeps, ResolveKeeps, RankAllKeeps,
     TakePlanKeeps, AskPrivateKeeps, StartFetchKeeps, EndFetchKeeps, AllFetchedKeeps,
     CompactKeeps, CatalogRests
  DEF NextCatalog

\* The invariant says what the three properties say.
LEMMA CatalogPromises ==
  ASSUME CatalogInv
  PROVE  RoutesPromiseTheLeast /\ PlanFoundInAnyList /\ HighestUsableGoverns
<1>. USE DEF CatalogInv
<1>1. HighestUsableGoverns
  BY DEF GovernOk, HighestUsableGoverns, Highest, Suffices, May
<1>2. RoutesPromiseTheLeast
  <2>. SUFFICES ASSUME phase = "done", route # "planned", ~dry PROVE RoutesPromiseTheLeast
    BY DEF RoutesPromiseTheLeast
  <2>1. Range(wanted) \subseteq Eligible /\ RowsStand(catalog) /\ RefusalsStand(refused)
    BY DEF MadeOk
  <2>2. {<<r.model, r.provider>> : r \in Range(catalog)}
          = UNION {{<<m, e.provider>> : e \in Kept(m)} : m \in Range(wanted)}
    BY <2>1 DEF RowsStand
  <2>3. ASSUME NEW i \in DOMAIN catalog, NEW j \in DOMAIN catalog, i < j
        PROVE  \/ Rank(catalog[i].model) < Rank(catalog[j].model)
               \/ catalog[i].model = catalog[j].model /\ catalog[i].provider < catalog[j].provider
    <3>1. \/ Rank(catalog[i].model) < Rank(catalog[j].model)
          \/ catalog[i].model = catalog[j].model /\ catalog[i].provider < catalog[j].provider
          \/ /\ Rank(catalog[i].model) = Rank(catalog[j].model)
             /\ catalog[i].model < catalog[j].model
      BY <2>1, <2>3 DEF RowsStand
    <3>2. catalog[i].model \in Eligible /\ catalog[j].model \in Eligible
      BY <2>1 DEF RowsStand, Range
    <3>3. catalog[i].model \in Int
      BY <3>2, ModelsAreNumbers DEF Eligible, Stable
    <3>4. CASE Rank(catalog[i].model) = Rank(catalog[j].model) /\ catalog[i].model < catalog[j].model
      <4>1. catalog[i].model = catalog[j].model
        BY <3>2, <3>4, RanksDiffer
      <4>. QED BY <3>3, <3>4, <4>1
    <3>. QED BY <3>1, <3>4
  <2>4. ASSUME NEW r \in Range(catalog)
        PROVE  /\ Weakest(r, Behind(r.model, r.provider), r.model, r.provider)
               /\ r.model \in Eligible
    BY <2>1 DEF RowsStand
  <2>5. ASSUME NEW r \in Range(catalog), route = "exact", NEW c \in DOMAIN Governing
        PROVE  r.model \notin Governing[c]
    <3>1. r.model \notin Governed
      BY <2>4, <2>5 DEF Eligible
    <3>. QED BY <3>1, CatalogAssumption
  <2>6. \A m \in Range(wanted) : Kept(m) = {} => refused[m] # {}
    BY <2>1 DEF RefusalsStand
  <2>. QED BY <2>2, <2>3, <2>4, <2>5, <2>6 DEF RoutesPromiseTheLeast, Kept, Behind, Weakest
<1>. QED BY <1>1, <1>2

\* CatalogInv is an invariant of the catalog: lists, fetched endpoints, governors, rows.
THEOREM CatalogInvariant == CatalogSpec => []CatalogInv
<1>. QED BY CatalogStarts, CatalogStep, PTL DEF CatalogSpec

\* Rows promise no more than the weakest endpoint behind them, whatever order fetches
\* end in (v5_catalog_view.py, _coalesce_provider_route_rows).
THEOREM CatalogPromisesTheLeast == CatalogSpec => []RoutesPromiseTheLeast
<1>1. CatalogInv => RoutesPromiseTheLeast
  BY CatalogPromises
<1>. QED BY <1>1, CatalogInvariant, PTL

\* A planned model is found if any order that came lists it; rows keep the plan's order.
THEOREM PlanFoundWhereListed == CatalogSpec => []PlanFoundInAnyList
<1>1. CatalogInv => PlanFoundInAnyList
  BY CatalogPromises
<1>. QED BY <1>1, CatalogInvariant, PTL

\* The model that governs for a company is the highest usable one, not the last answer's.
THEOREM TheHighestGoverns == CatalogSpec => []HighestUsableGoverns
<1>1. CatalogInv => HighestUsableGoverns
  BY CatalogPromises
<1>. QED BY <1>1, CatalogInvariant, PTL
=============================================================================
