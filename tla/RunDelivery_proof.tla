-------------------------- MODULE RunDelivery_proof --------------------------
(***************************************************************************)
(* The summary file of a run, for every execution graph and wherever the   *)
(* process is stopped: it claims full success only for a run of strict     *)
(* successes, its versions follow Delivery, and under the limits of the    *)
(* pipeline verdict, cause and files tell one story.  Then the issues the  *)
(* runs answer on: their comments and the sweep that closes them.          *)
(***************************************************************************)
EXTENDS RunDelivery, ExecutionTicket, FiniteSetTheorems, WellFoundedInduction, TLAPS

Blockers ==
  {"missing-non-degradable-work", "insufficient-required-work-coverage",
   "insufficient-successful-content-nodes", "degraded-success-disabled",
   "degraded-delivery-requires-positive-covered-work-and-strict-content",
   "output-contract-integrity"}

Reasons ==
  Blockers \cup
  {"all-quality-gates-passed", "partial-success-deterministic-synthesis",
   "insufficient-work-coverage-after-recovery", Credit,
   "degraded-delivery-without-usable-content",
   "audited-usable-delivery-with-disclosed-degradation",
   "native-runtime-preflight-rejected", "none",
   "unsupported-evidence-or-quantity", "degradation-not-authorized-by-user"}

ResultType ==
  [status: {"success", "failed"}, mode: {"full", "degraded", "none"},
   quality: {"full_success", "degraded_success", "failed"}, reason: Reasons,
   answer: {"preferred", "synthesis", "empty"}, blockers: Seq(Blockers),
   covered: Nat, strict_content: Nat]

\* What a summary may say of the nodes.
Honest(v) ==
  v.quality = "full_success"
    => AllStrict /\ Missing = {} /\ v.status = "success" /\ Preferred

\* The claim of a summary with this content, once it is on disk.
ClaimIn(v) == ClaimOf(Written(v))

\* The queued files; a queued summary is honest and claims what the result does.
Queue(q, stated) ==
  /\ \E S : q \in Seq(S)
  /\ \A i \in 1 .. Len(q) :
       /\ q[i].file \in File
       /\ q[i].file = "summary" => Honest(q[i].content) /\ ClaimIn(q[i].content) = stated

NoSummaryIn(q) == \A i \in 1 .. Len(q) : q[i].file # "summary"

BeforeVerdict == pc \in {"setup", "validate", "stages", "verdict"}

RunInv ==
  /\ TypeOK
  /\ result \in ResultType
  /\ Honest(result)
  /\ Queue(writes, ClaimIn(result))
  /\ HasSummary => Honest(Summary)
  /\ BeforeVerdict =>
       /\ disk["summary"].state = "absent" /\ NoSummaryIn(writes)
       /\ result.status = "failed" /\ result.quality = "failed"

\* The claim on disk leads to the claim of the result, and the last file of a
\* process that ends by itself is not the summary.
ClaimInv ==
  /\ pc = "killed" => Idle
  /\ pc # "killed" =>
       \/ ClaimOf(disk["summary"]) \in {"none", ClaimIn(result)}
       \/ /\ ClaimOf(disk["summary"]) \in {"full", "degraded"}
          /\ ClaimIn(result) = "failed"
  /\ pc \in {"gate", "decide"} /\ NoSummaryIn(writes) =>
       ClaimOf(disk["summary"]) = ClaimIn(result)
  /\ pc \in {"exited", "raised"} /\ ~Idle => writes[Len(writes)].file # "summary"

-----------------------------------------------------------------------------
LEMMA FileNames ==
  /\ "summary" \in File /\ "selection" \in File /\ "graph" \in File
  /\ "constraints" \in File /\ "nodes" \in File /\ "audit" \in File
  /\ "report" \in File /\ "evidence" \in File /\ "result" \in File
  /\ "manifest" \in File
BY DEF File

LEMMA ClaimValues ==
  ASSUME NEW v
  PROVE  ClaimIn(v) \in {"full", "degraded", "failed"}
BY DEF ClaimIn, ClaimOf, Written

LEMMA EmptyQueue ==
  ASSUME NEW stated
  PROVE  Queue(<<>>, stated) /\ NoSummaryIn(<<>>)
<1>1. <<>> \in Seq({})
  OBVIOUS
<1> QED
  BY <1>1 DEF Queue, NoSummaryIn

LEMMA LongerQueue ==
  ASSUME NEW q, NEW stated, Queue(q, stated), NEW f \in File, NEW c,
         f = "summary" => Honest(c) /\ ClaimIn(c) = stated,
         NEW r, r = Append(q, Write(f, c))
  PROVE  /\ Queue(r, stated) /\ r # <<>> /\ r[Len(r)].file = f
         /\ NoSummaryIn(q) /\ f # "summary" => NoSummaryIn(r)
<1> DEFINE w == Write(f, c)
<1>1. PICK S : q \in Seq(S)
  BY DEF Queue
<1>2. q \in Seq(S \cup {w}) /\ w \in S \cup {w}
  BY <1>1
<1>3. w.file = f /\ w.content = c
  BY DEF Write
<1>0. r = Append(q, w)
  OBVIOUS
<1> HIDE DEF w
<1>4. /\ r \in Seq(S \cup {w}) /\ Len(r) = Len(q) + 1 /\ Len(q) \in Nat
      /\ \A i \in 1 .. Len(q) : r[i] = q[i]
      /\ r[Len(q) + 1] = w
  BY <1>0, <1>2
<1>5. \A i \in 1 .. Len(r) : i \in 1 .. Len(q) \/ i = Len(q) + 1
  BY <1>4
<1>6. Queue(r, stated)
  BY <1>3, <1>4, <1>5 DEF Queue
<1>7. r # <<>> /\ r[Len(r)].file = f
  BY <1>3, <1>4
<1>8. NoSummaryIn(q) /\ f # "summary" => NoSummaryIn(r)
  BY <1>3, <1>4, <1>5 DEF NoSummaryIn
<1> QED
  BY <1>6, <1>7, <1>8

LEMMA ShorterQueue ==
  ASSUME NEW q, NEW stated, Queue(q, stated), q # <<>>
  PROVE  /\ Queue(Tail(q), stated)
         /\ Head(q).file \in File
         /\ Head(q).file = "summary"
              => Honest(Head(q).content) /\ ClaimIn(Head(q).content) = stated
         /\ NoSummaryIn(q) => NoSummaryIn(Tail(q)) /\ Head(q).file # "summary"
         /\ NoSummaryIn(Tail(q)) /\ ~NoSummaryIn(q) => Head(q).file = "summary"
         /\ IF Tail(q) = <<>> THEN q[Len(q)] = Head(q)
            ELSE Tail(q)[Len(Tail(q))] = q[Len(q)]
<1>1. PICK S : q \in Seq(S)
  BY DEF Queue
<1>2. /\ Tail(q) \in Seq(S) /\ Len(q) \in Nat /\ Len(q) > 0
      /\ Len(Tail(q)) = Len(q) - 1
      /\ Head(q) = q[1]
      /\ \A i \in 1 .. Len(q) - 1 : Tail(q)[i] = q[i + 1]
  BY <1>1
<1>3. \A i \in 1 .. Len(q) - 1 : i + 1 \in 1 .. Len(q)
  BY <1>2
<1>4. 1 \in 1 .. Len(q) /\ \A i \in 1 .. Len(q) : i = 1 \/ i - 1 \in 1 .. Len(q) - 1
  BY <1>2
<1>5. Queue(Tail(q), stated)
  BY <1>2, <1>3 DEF Queue
<1>6. NoSummaryIn(q) => NoSummaryIn(Tail(q)) /\ Head(q).file # "summary"
  BY <1>2, <1>3, <1>4 DEF NoSummaryIn
<1>7. NoSummaryIn(Tail(q)) /\ ~NoSummaryIn(q) => Head(q).file = "summary"
  <2> SUFFICES ASSUME NoSummaryIn(Tail(q)), NEW i \in 1 .. Len(q), q[i].file = "summary"
               PROVE  Head(q).file = "summary"
    BY DEF NoSummaryIn
  <2>1. CASE i = 1
    BY <2>1, <1>2
  <2>2. CASE i - 1 \in 1 .. Len(q) - 1
    <3>1. Tail(q)[i - 1] = q[i]
      BY <1>2, <2>2
    <3> QED
      BY <3>1, <2>2, <1>2 DEF NoSummaryIn
  <2> QED
    BY <1>4, <2>1, <2>2
<1>8. IF Tail(q) = <<>> THEN q[Len(q)] = Head(q)
      ELSE Tail(q)[Len(Tail(q))] = q[Len(q)]
  <2>1. CASE Tail(q) = <<>>
    <3> DEFINE t == Tail(q)
    <3>1. Len(t) = 0
      <4>1. t = <<>>
        BY <2>1
      <4> HIDE DEF t
      <4> QED
        BY <4>1
    <3>2. Len(q) = 1
      <4> DEFINE m == Len(t)
                 n == Len(q)
      <4>1. n \in Nat /\ m = n - 1 /\ m = 0
        BY <1>2, <3>1
      <4> HIDE DEF m, n
      <4>2. n = 1
        BY <4>1
      <4> QED
        BY <4>2 DEF n
    <3> QED
      BY <1>2, <2>1, <3>2
  <2>2. CASE Tail(q) # <<>>
    <3>1. Len(Tail(q)) # 0
      BY <1>2, <2>2
    <3>2. Len(q) - 1 \in 1 .. Len(q) - 1
      BY <1>2, <3>1
    <3>3. Tail(q)[Len(q) - 1] = q[Len(q) - 1 + 1]
      BY <1>2, <3>2
    <3> QED
      BY <1>2, <2>2, <3>3
  <2> QED
    BY <2>1, <2>2
<1> QED
  BY <1>2, <1>4, <1>5, <1>6, <1>7, <1>8 DEF Queue
-----------------------------------------------------------------------------
(* The engine's verdict and the layers that may overturn it.               *)

LEMMA Counts ==
  ASSUME TypeOK, NEW best
  PROVE  Cardinality(Covered) \in Nat /\ StrictContentNodes(best) \in Nat
<1>1. Covered \subseteq Work
  BY GraphAssumption DEF Covered, Content, ContentWork
<1>2. {n \in Node : StrictStatus(outputs[n]) /\ \E w \in Covered : best[w] = n} \subseteq Node
  OBVIOUS
<1> QED
  BY <1>1, <1>2, FS_Subset, FS_CardinalityType, GraphAssumption DEF StrictContentNodes

LEMMA BlockersType ==
  ASSUME NEW best
  PROVE  DeliveryBlockers(best) \in Seq(Blockers)
<1>1. /\ "missing-non-degradable-work" \in Blockers
      /\ "insufficient-required-work-coverage" \in Blockers
      /\ "insufficient-successful-content-nodes" \in Blockers
      /\ "degraded-success-disabled" \in Blockers
  BY DEF Blockers
<1> HIDE DEF Blockers
<1>2. \A s \in Blockers : <<s>> \in Seq(Blockers)
  OBVIOUS
<1>3. <<>> \in Seq(Blockers)
  OBVIOUS
<1>4. \A s, t \in Seq(Blockers) : s \o t \in Seq(Blockers)
  OBVIOUS
<1> QED
  BY <1>1, <1>2, <1>3, <1>4 DEF DeliveryBlockers

LEMMA ExecutionResultType ==
  ASSUME TypeOK, NEW best
  PROVE  ExecutionResult(best) \in ResultType
<1> DEFINE blockers == DeliveryBlockers(best)
           c == CompletionStatus(blockers)
           v == AccountReason(c)
<1>1. blockers \in Seq(Blockers)
  BY BlockersType
<1>2. FinalAnswer \in {"preferred", "synthesis", "empty"}
  BY DEF FinalAnswer
<1> DEFINE VerdictType == [status: {"success", "failed"}, mode: {"full", "degraded", "none"},
                quality: {"full_success", "degraded_success", "failed"}, reason: Reasons]
<1>3. c \in VerdictType
  <2>1. blockers # <<>> => Head(blockers) \in Reasons
    BY <1>1 DEF Reasons
  <2> HIDE DEF blockers
  <2> QED
    BY <2>1 DEF CompletionStatus, Verdict, Reasons
<1>4. v \in VerdictType
  <2> HIDE DEF c
  <2> QED
    BY <1>3 DEF AccountReason, Reasons
<1>5. Cardinality(Covered) \in Nat /\ StrictContentNodes(best) \in Nat
  BY Counts
<1>6. ExecutionResult(best) =
        [status |-> v.status, mode |-> v.mode, quality |-> v.quality,
         reason |-> v.reason, answer |-> FinalAnswer, blockers |-> blockers,
         covered |-> Cardinality(Covered), strict_content |-> StrictContentNodes(best)]
  BY DEF ExecutionResult
<1> HIDE DEF v, blockers
<1> QED
  BY <1>1, <1>2, <1>4, <1>5, <1>6 DEF ResultType

LEMMA IntegrityType ==
  ASSUME NEW r \in ResultType
  PROVE  EnforceIntegrity(r) \in ResultType
<1>1. Append(r.blockers, "degraded-delivery-requires-positive-covered-work-and-strict-content")
        \in Seq(Blockers)
  BY DEF ResultType, Blockers
<1>2. RejectDegraded(r) \in ResultType
  BY <1>1 DEF RejectDegraded, ResultType, Reasons
<1>3. ApplyDegradation(r) \in ResultType
  BY DEF ApplyDegradation, ResultType, Reasons
<1>4. [r EXCEPT !.mode = "full", !.quality = "full_success"] \in ResultType
  BY DEF ResultType
<1> QED
  BY <1>2, <1>3, <1>4 DEF EnforceIntegrity

\* Full success on the engine's own account: nothing degraded, all covered.
LEMMA FullVerdict ==
  ASSUME TypeOK, NEW best, ExecutionResult(best).status = "success",
         ~DeclaresDegraded(ExecutionResult(best))
  PROVE  ~Degraded /\ Complete /\ Missing = {} /\ Preferred
<1> DEFINE blockers == DeliveryBlockers(best)
           c == CompletionStatus(blockers)
<1>1. /\ ExecutionResult(best).status = AccountReason(c).status
      /\ ExecutionResult(best).mode = AccountReason(c).mode
      /\ ExecutionResult(best).quality = AccountReason(c).quality
  BY DEF ExecutionResult
<1>2. \/ AccountReason(c) = c
      \/ (c.status = "failed" /\ AccountReason(c) = [c EXCEPT !.reason = Credit])
  BY DEF AccountReason
<1>3. c.status = "success" /\ AccountReason(c) = c
  <2>1. c \in [status: {"success", "failed"}, mode: {"full", "degraded", "none"},
               quality: {"full_success", "degraded_success", "failed"}, reason: {c.reason}]
    BY DEF CompletionStatus, Verdict
  <2> HIDE DEF c
  <2> QED
    BY <1>1, <1>2, <2>1
<1>4. ~(c.mode = "degraded" /\ c.quality = "degraded_success")
  BY <1>1, <1>3 DEF DeclaresDegraded
<1>5. FinalAnswer # "empty" /\ ~Degraded /\ Complete /\ Missing = {}
  BY <1>3, <1>4 DEF CompletionStatus, Verdict
<1>6. Preferred
  BY <1>5 DEF Degraded, FinalAnswer
<1> QED
  BY <1>5, <1>6

LEMMA JudgementHonest ==
  ASSUME TypeOK, NEW best
  PROVE  Honest(EnforceIntegrity(ExecutionResult(best)))
<1> DEFINE r == ExecutionResult(best)
<1>1. r \in ResultType
  BY ExecutionResultType
<1>2. r.status = "success" /\ ~DeclaresDegraded(r)
        => ~Degraded /\ Complete /\ Missing = {} /\ Preferred
  BY FullVerdict
<1>3. r.quality = "full_success" => r.status = "success"
  <2> DEFINE c == CompletionStatus(DeliveryBlockers(best))
  <2>1. c.quality = "full_success" => c.status = "success"
    BY DEF CompletionStatus, Verdict
  <2>2. c \in [status: {c.status}, mode: {c.mode}, quality: {c.quality}, reason: {c.reason}]
    BY DEF CompletionStatus, Verdict
  <2>3. r.status = AccountReason(c).status /\ r.quality = AccountReason(c).quality
    BY DEF ExecutionResult
  <2> HIDE DEF c, r
  <2> QED
    BY <2>1, <2>2, <2>3 DEF AccountReason
<1>4. Preferred => Node # {}
  BY GraphAssumption DEF Preferred
<1>5. Complete /\ DegradedNodes = {} /\ Node # {} => AllStrict
  BY DEF TypeOK, Complete, DegradedNodes, AllStrict, NodeOutcome, StrictStatus
<1> HIDE DEF r
<1> SUFFICES Honest(EnforceIntegrity(r))
  BY DEF r
<1>6. CASE DeclaresDegraded(r) /\ ~AuditedDegradation(r)
  BY <1>1, <1>6 DEF EnforceIntegrity, RejectDegraded, Honest, ResultType
<1>7. CASE ~(DeclaresDegraded(r) /\ ~AuditedDegradation(r))
           /\ (AuditedDegradation(r) \/ DegradedNodes # {})
  BY <1>1, <1>7 DEF EnforceIntegrity, ApplyDegradation, Honest, ResultType
<1>8. CASE ~DeclaresDegraded(r) /\ ~AuditedDegradation(r) /\ DegradedNodes = {}
  <2>1. EnforceIntegrity(r).status = r.status
    BY <1>1, <1>8 DEF EnforceIntegrity, ResultType
  <2>2. EnforceIntegrity(r).quality = "full_success" => r.status = "success"
    BY <1>3, <1>8 DEF EnforceIntegrity
  <2> QED
    BY <2>1, <2>2, <1>2, <1>4, <1>5, <1>8 DEF Honest
<1> QED
  BY <1>6, <1>7, <1>8 DEF AuditedDegradation
-----------------------------------------------------------------------------
(* The files of a control step, and the steps.                             *)

LEMMA EngineQueue ==
  ASSUME NEW r, Honest(r)
  PROVE  /\ Queue(EngineFiles(r), ClaimIn(r)) /\ EngineFiles(r) # <<>>
         /\ ~NoSummaryIn(EngineFiles(r))
         /\ EngineFiles(r)[Len(EngineFiles(r))].file = "report"
<1> DEFINE audit == [status |-> "PASS", knobs |-> "unknown"]
           q1 == Append(<<>>, Write("nodes", outputs))
           q2 == Append(q1, Write("summary", r))
           q3 == Append(q2, Write("audit", audit))
           q4 == Append(q3, Write("report", r.answer))
<1>1. EngineFiles(r) = q4
  BY DEF EngineFiles
<1>2. /\ q1 = Append(<<>>, Write("nodes", outputs))
      /\ q2 = Append(q1, Write("summary", r))
      /\ q3 = Append(q2, Write("audit", audit))
      /\ q4 = Append(q3, Write("report", r.answer))
  OBVIOUS
<1> HIDE DEF q1, q2, q3, q4, audit
<1>3. Queue(q1, ClaimIn(r))
  BY <1>2, EmptyQueue, LongerQueue, FileNames
<1>4. Queue(q2, ClaimIn(r))
  BY <1>2, <1>3, LongerQueue, FileNames
<1>5. Queue(q3, ClaimIn(r))
  BY <1>2, <1>4, LongerQueue, FileNames
<1>8. Queue(q4, ClaimIn(r))
  <2> DEFINE answer == r.answer
  <2>1. q4 = Append(q3, Write("report", answer))
    BY <1>2
  <2> HIDE DEF answer
  <2> QED
    BY <1>5, <2>1, LongerQueue, FileNames
<1>6. Len(EngineFiles(r)) = 4 /\ EngineFiles(r)[2].file = "summary"
      /\ EngineFiles(r)[4].file = "report"
  BY DEF EngineFiles, Write
<1>7. ~NoSummaryIn(EngineFiles(r))
  BY <1>6 DEF NoSummaryIn
<1>9. EngineFiles(r) # <<>>
  BY <1>7, EmptyQueue
<1> QED
  BY <1>1, <1>6, <1>7, <1>8, <1>9

\* One file that is not the summary, alone in the queue.
LEMMA SingleFile ==
  ASSUME NEW f \in File \ {"summary"}, NEW c, NEW stated
  PROVE  /\ Queue(<<Write(f, c)>>, stated) /\ NoSummaryIn(<<Write(f, c)>>)
         /\ <<Write(f, c)>> # <<>>
<1> DEFINE q == <<Write(f, c)>>
<1>1. q = Append(<<>>, Write(f, c)) /\ f \in File /\ f # "summary"
  OBVIOUS
<1> HIDE DEF q
<1>2. Queue(q, stated) /\ q # <<>> /\ NoSummaryIn(q)
  BY <1>1, EmptyQueue, LongerQueue
<1> QED
  BY <1>2 DEF q

LEMMA RunInit == Init => RunInv /\ ClaimInv
<1> SUFFICES ASSUME Init PROVE RunInv /\ ClaimInv
  OBVIOUS
<1> USE DEF Init
<1>2. <<"output-contract-integrity">> \in Seq(Blockers)
  BY DEF Blockers
<1>3. result \in ResultType /\ result.status = "failed" /\ result.quality = "failed"
  BY <1>2 DEF ResultType, NoResult, RejectedResult, Reasons
<1>4. disk["summary"].state = "absent"
  BY FileNames DEF Absent
<1>1. TypeOK
  <2>1. \A i \in 1 .. Len(writes) : writes[i].file \in File
    BY EmptyQueue DEF Queue
  <2> QED
    BY <1>3, <2>1 DEF TypeOK, ResultType, NodeOutcome
<1>5. Honest(result)
  BY <1>3 DEF Honest
<1>6. Queue(writes, ClaimIn(result)) /\ NoSummaryIn(writes)
  BY EmptyQueue
<1>7. ClaimOf(disk["summary"]) = "none"
  BY <1>4 DEF ClaimOf
<1> QED
  BY <1>1, <1>3, <1>4, <1>5, <1>6, <1>7 DEF RunInv, ClaimInv, HasSummary

\* What the steps that change neither the nodes nor the account have to show.
LEMMA ControlStep ==
  ASSUME RunInv, ClaimInv, Idle, UNCHANGED <<allow, blocked, outputs, unbound, disk>>,
         pc # "killed",
         pc' \in {"validate", "stages", "verdict", "gate", "decide", "request_audit",
                  "finalize", "manifest", "exited", "raised"},
         evidence' \in Audit \cup {"none"},
         result' \in ResultType, Honest(result'), Queue(writes', ClaimIn(result')),
         BeforeVerdict' => BeforeVerdict /\ result' = result /\ NoSummaryIn(writes'),
         \/ ClaimOf(disk["summary"]) \in {"none", ClaimIn(result')}
         \/ /\ ClaimOf(disk["summary"]) \in {"full", "degraded"}
            /\ ClaimIn(result') = "failed",
         pc' \in {"gate", "decide"} /\ NoSummaryIn(writes') =>
           ClaimOf(disk["summary"]) = ClaimIn(result'),
         pc' \in {"exited", "raised"} /\ writes' # <<>> =>
           writes'[Len(writes')].file # "summary"
  PROVE  RunInv' /\ ClaimInv'
<1>1. TypeOK'
  BY DEF RunInv, TypeOK, ResultType, Queue
<1>2. Honest(result)' /\ Queue(writes, ClaimIn(result))' /\ (HasSummary => Honest(Summary))'
  BY DEF RunInv, Honest, Queue, HasSummary, Summary, AllStrict, Missing, Content,
     ContentWork, Covered, Usable, Preferred, ClaimIn, ClaimOf
<1>3. (BeforeVerdict => disk["summary"].state = "absent" /\ NoSummaryIn(writes)
                         /\ result.status = "failed" /\ result.quality = "failed")'
  BY DEF RunInv, NoSummaryIn
<1>4. ClaimInv'
  BY DEF ClaimInv, Idle, NoSummaryIn, ClaimIn, ClaimOf
<1> QED
  BY <1>1, <1>2, <1>3, <1>4 DEF RunInv

\* Two, three or four files that are not the summary.
LEMMA OtherFiles ==
  ASSUME NEW a, NEW b, NEW c, NEW d, NEW stated,
         \A w \in {a, b, c, d} : w.file \in File \ {"summary"}
  PROVE  /\ Queue(<<a, b>>, stated) /\ NoSummaryIn(<<a, b>>)
         /\ Queue(<<a, b, c>>, stated) /\ NoSummaryIn(<<a, b, c>>)
         /\ Queue(<<a, b, c, d>>, stated) /\ NoSummaryIn(<<a, b, c, d>>)
<1> DEFINE S == {a, b, c, d}
<1>1. ASSUME NEW q \in Seq(S) PROVE Queue(q, stated) /\ NoSummaryIn(q)
  <2>1. \A i \in 1 .. Len(q) : q[i] \in S
    OBVIOUS
  <2> QED
    BY <2>1 DEF Queue, NoSummaryIn
<1>2. <<a, b>> \in Seq(S) /\ <<a, b, c>> \in Seq(S) /\ <<a, b, c, d>> \in Seq(S)
  OBVIOUS
<1> QED
  BY <1>1, <1>2

LEMMA SetupStep ==
  ASSUME RunInv, ClaimInv, NEW rejected \in BOOLEAN, Setup(rejected)
  PROVE  RunInv' /\ ClaimInv'
<1> DEFINE files == <<Write("selection", "planned"), Write("graph", "planned"),
                      Write("constraints", allow)>>
<1>1. /\ pc = "setup" /\ Idle /\ UNCHANGED <<allow, blocked, outputs, unbound, result, evidence, disk>>
      /\ \/ pc' = "raised" /\ writes' = <<>>
         \/ pc' = "validate" /\ writes' = files
  BY DEF Setup, Step, Engine
<1>2. Queue(files, ClaimIn(result)) /\ NoSummaryIn(files)
  <2> DEFINE a == Write("selection", "planned")
             b == Write("graph", "planned")
             c == Write("constraints", allow)
  <2>1. \A w \in {a, b, c} : w.file \in File \ {"summary"}
    BY FileNames DEF Write
  <2> HIDE DEF a, b, c
  <2>2. Queue(<<a, b, c>>, ClaimIn(result)) /\ NoSummaryIn(<<a, b, c>>)
    BY <2>1, OtherFiles
  <2> QED
    BY <2>2 DEF a, b, c
<1> HIDE DEF files
<1>3. Queue(writes', ClaimIn(result)) /\ NoSummaryIn(writes')
  BY <1>1, <1>2, EmptyQueue
<1>4. ClaimOf(disk["summary"]) = "none"
  BY <1>1 DEF RunInv, BeforeVerdict, ClaimOf
<1>5. evidence \in Audit \cup {"none"} /\ result \in ResultType /\ Honest(result)
  BY DEF RunInv, TypeOK
<1>6. UNCHANGED ClaimIn(result) /\ Honest(result')
  BY <1>1, <1>5 DEF Honest
<1> QED
  BY <1>1, <1>3, <1>4, <1>5, <1>6, ControlStep DEF BeforeVerdict

\* What holds of the result and of the disk before the step.
LEMMA BeforeStep ==
  ASSUME RunInv, ClaimInv
  PROVE  /\ evidence \in Audit \cup {"none"} /\ result \in ResultType /\ Honest(result)
         /\ BeforeVerdict =>
              ClaimOf(disk["summary"]) = "none" /\ ClaimIn(result) = "failed"
         /\ pc \in {"gate", "decide"} /\ Idle => ClaimOf(disk["summary"]) = ClaimIn(result)
         /\ pc # "killed" =>
              \/ ClaimOf(disk["summary"]) \in {"none", ClaimIn(result)}
              \/ /\ ClaimOf(disk["summary"]) \in {"full", "degraded"}
                 /\ ClaimIn(result) = "failed"
<1>1. evidence \in Audit \cup {"none"} /\ result \in ResultType /\ Honest(result)
  BY DEF RunInv, TypeOK
<1>2. BeforeVerdict => ClaimOf(disk["summary"]) = "none" /\ ClaimIn(result) = "failed"
  BY DEF RunInv, ClaimOf, ClaimIn, Written
<1>3. pc \in {"gate", "decide"} /\ Idle => ClaimOf(disk["summary"]) = ClaimIn(result)
  BY EmptyQueue DEF ClaimInv, Idle
<1> QED
  BY <1>1, <1>2, <1>3 DEF ClaimInv

LEMMA RejectQueue ==
  ASSUME RunInv, NEW verdict, NEW q, q = RejectPreflight \o FailureEvidence(verdict)
  PROVE  Queue(q, "failed") /\ q # <<>> /\ q[Len(q)].file # "summary"
<1> DEFINE a == Write("nodes", <<>>)
           b == Write("summary", RejectedResult)
           c == Write("audit", [status |-> "PASS", knobs |-> "unknown"])
           d == Write("evidence", verdict)
<1>1. /\ a.file \in File /\ b.file = "summary" /\ b.content = RejectedResult
      /\ c.file \in File /\ d.file \in File /\ a.file # "summary" /\ c.file # "summary"
      /\ d.file # "summary"
  BY FileNames DEF Write
<1>2. Honest(RejectedResult) /\ ClaimIn(RejectedResult) = "failed"
  BY DEF Honest, ClaimIn, ClaimOf, Written, RejectedResult
<1>3. q = <<a, b, c>> \o <<d>>
  BY DEF RejectPreflight, FailureEvidence
<1> HIDE DEF a, b, c, d
<1>4. /\ q \in Seq({a, b, c, d}) /\ Len(q) = 4
      /\ q[1] = a /\ q[2] = b /\ q[3] = c /\ q[4] = d
  BY <1>3
<1>5. Queue(q, "failed")
  BY <1>1, <1>2, <1>4, FileNames DEF Queue
<1>6. q # <<>> /\ q[Len(q)].file # "summary"
  BY <1>1, <1>4
<1> QED
  BY <1>5, <1>6

LEMMA ValidateStep ==
  ASSUME RunInv, ClaimInv, NEW problem, NEW verdict, Validate(problem, verdict)
  PROVE  RunInv' /\ ClaimInv'
<1> DEFINE q1 == FailureEvidence(verdict)
           q2 == RejectPreflight \o FailureEvidence(verdict)
<1>1. /\ pc = "validate" /\ Idle
      /\ UNCHANGED <<allow, blocked, outputs, unbound, result, evidence, disk>>
      /\ \/ pc' = "raised" /\ writes' \in {q1, q2}
         \/ pc' = "stages" /\ writes' = <<>>
  BY DEF Validate, Step, Engine
<1>2. BeforeVerdict /\ ClaimIn(result) = "failed"
  BY <1>1, BeforeStep DEF BeforeVerdict
<1>3. Queue(q1, "failed") /\ NoSummaryIn(q1)
  BY SingleFile, FileNames DEF FailureEvidence
<1>4. q1[Len(q1)].file # "summary"
  BY FileNames DEF FailureEvidence, Write
<1>5. Queue(q2, "failed") /\ q2[Len(q2)].file # "summary"
  BY RejectQueue
<1> HIDE DEF q1, q2
<1>6. Queue(writes', ClaimIn(result))
  BY <1>1, <1>2, <1>3, <1>5, EmptyQueue
<1>7. UNCHANGED ClaimIn(result) /\ (Honest(result) => Honest(result'))
  BY <1>1 DEF Honest
<1>8. BeforeVerdict' => writes' = <<>>
  BY <1>1 DEF BeforeVerdict
<1>9. BeforeVerdict' => NoSummaryIn(writes')
  BY <1>8, EmptyQueue
<1>10. pc' = "raised" => writes'[Len(writes')].file # "summary"
  BY <1>1, <1>4, <1>5
<1>11. pc' \in {"stages", "raised"} /\ pc # "killed"
  BY <1>1
<1> QED
  BY <1>1, <1>2, <1>6, <1>7, <1>9, <1>10, <1>11, BeforeStep, ControlStep

LEMMA RunStagesStep ==
  ASSUME RunInv, ClaimInv, RunStages
  PROVE  RunInv' /\ ClaimInv'
<1>1. /\ pc = "stages" /\ pc' = "verdict" /\ Idle /\ writes' = <<>>
      /\ outputs' \in [Node -> NodeOutcome]
      /\ unbound' \subseteq Node /\ blocked' \in BOOLEAN
      /\ UNCHANGED <<allow, result, evidence, disk>>
  BY DEF RunStages, Step
<1>2. \A i \in 1 .. Len(writes') : writes'[i].file \in File
  BY <1>1, EmptyQueue DEF Queue
<1>3. TypeOK'
  BY <1>1, <1>2 DEF RunInv, TypeOK
<1>4. /\ disk["summary"].state = "absent" /\ result.quality = "failed"
      /\ result.status = "failed"
  BY <1>1 DEF RunInv, BeforeVerdict
<1>5. Honest(result)' /\ (HasSummary => Honest(Summary))'
  BY <1>1, <1>4 DEF Honest, HasSummary
<1>6. Queue(<<>>, ClaimIn(result))' /\ NoSummaryIn(<<>>)
  <2>1. <<>> \in Seq({})
    OBVIOUS
  <2> QED
    BY <2>1, EmptyQueue DEF Queue
<1>7. Queue(writes, ClaimIn(result))' /\ NoSummaryIn(writes)'
  BY <1>1, <1>6 DEF Queue, NoSummaryIn
<1>8. RunInv'
  BY <1>1, <1>3, <1>4, <1>5, <1>7 DEF RunInv, ResultType
<1>9. ClaimInv'
  BY <1>1, <1>4 DEF ClaimInv, ClaimOf
<1> QED
  BY <1>8, <1>9

LEMMA JudgeStep ==
  ASSUME RunInv, ClaimInv, Judge
  PROVE  RunInv' /\ ClaimInv'
<1> PICK best \in BestOutputs : Judge!(best)
  BY DEF Judge
<1> DEFINE r == EnforceIntegrity(ExecutionResult(best))
<1>1. /\ pc = "verdict" /\ pc' = "gate" /\ Idle /\ writes' = EngineFiles(r)
      /\ result' = r
      /\ UNCHANGED <<allow, blocked, outputs, unbound, evidence, disk>>
  BY DEF Step, Engine
<1>2. r \in ResultType /\ Honest(r)
  BY ExecutionResultType, IntegrityType, JudgementHonest DEF RunInv
<1> HIDE DEF r
<1>3. Queue(writes', ClaimIn(r)) /\ ~NoSummaryIn(writes')
  BY <1>1, <1>2, EngineQueue
<1>4. ClaimOf(disk["summary"]) = "none" /\ ~BeforeVerdict' /\ evidence \in Audit \cup {"none"}
  BY <1>1, BeforeStep DEF BeforeVerdict
<1> QED
  BY <1>1, <1>2, <1>3, <1>4, ControlStep

LEMMA AuditEvidenceStep ==
  ASSUME RunInv, ClaimInv, NEW verdict \in Audit, AuditEvidence(verdict)
  PROVE  RunInv' /\ ClaimInv'
<1>1. /\ pc = "gate" /\ pc' = "decide" /\ Idle
      /\ writes' = <<Write("evidence", verdict)>> /\ evidence' = verdict
      /\ UNCHANGED <<allow, blocked, outputs, unbound, result, disk>>
  BY DEF AuditEvidence, Step, Engine
<1>2. Queue(writes', ClaimIn(result))
  BY <1>1, SingleFile, FileNames
<1>3. ClaimOf(disk["summary"]) = ClaimIn(result) /\ ~BeforeVerdict'
  BY <1>1, BeforeStep DEF BeforeVerdict
<1>4. UNCHANGED ClaimIn(result) /\ (Honest(result) => Honest(result'))
  BY <1>1 DEF Honest
<1> QED
  BY <1>1, <1>2, <1>3, <1>4, BeforeStep, ControlStep

LEMMA SummaryQueued ==
  ASSUME NEW q, NEW r, NEW v, Queue(q, ClaimIn(v)), Honest(v),
         r = Append(q, Write("summary", v))
  PROVE  Queue(r, ClaimIn(v))
BY LongerQueue, FileNames

LEMMA ReportQueued ==
  ASSUME NEW q, NEW r, NEW stated, NEW text, Queue(q, stated),
         r = Append(q, Write("report", text))
  PROVE  Queue(r, stated)
<1>1. "report" \in File /\ "report" # "summary"
  BY FileNames
<1> QED
  BY <1>1, LongerQueue

LEMMA FailedResult ==
  ASSUME NEW r \in ResultType, NEW reason \in Reasons
  PROVE  /\ FailResult(r, reason) \in ResultType /\ Honest(FailResult(r, reason))
         /\ ClaimIn(FailResult(r, reason)) = "failed"
BY DEF FailResult, ResultType, Honest, ClaimIn, ClaimOf, Written

LEMMA DecideStep ==
  ASSUME RunInv, ClaimInv, Decide
  PROVE  RunInv' /\ ClaimInv'
<1> DEFINE reason == ConstitutionalFailure
           r == IF reason = "none" THEN result ELSE FailResult(result, reason)
           first == IF reason = "none" THEN <<>>
                    ELSE <<Write("summary", r), Write("report", "gate-failure")>>
           files == Append(first, Write("summary", r))
<1>1. /\ pc = "decide" /\ pc' = "request_audit" /\ Idle /\ writes' = files /\ result' = r
      /\ UNCHANGED <<allow, blocked, outputs, unbound, evidence, disk>>
  BY DEF Decide, Step, Engine
<1>2. reason \in Reasons
  BY DEF ConstitutionalFailure, Reasons, Credit
<1>3. result \in ResultType /\ Honest(result) /\ ClaimOf(disk["summary"]) = ClaimIn(result)
  BY <1>1, BeforeStep
<1> HIDE DEF reason
<1>4. r \in ResultType /\ Honest(r) /\ ClaimIn(r) \in {ClaimIn(result), "failed"}
  BY <1>2, <1>3, FailedResult
<1> HIDE DEF r
<1>5. Queue(first, ClaimIn(r))
  <2> DEFINE q1 == Append(<<>>, Write("summary", r))
             q2 == Append(q1, Write("report", "gate-failure"))
  <2>1. q1 = Append(<<>>, Write("summary", r))
    OBVIOUS
  <2>2. q2 = Append(q1, Write("report", "gate-failure"))
    OBVIOUS
  <2>3. first \in {<<>>, q2}
    OBVIOUS
  <2> HIDE DEF q1, q2, first
  <2>4. Queue(q1, ClaimIn(r))
    BY <2>1, <1>4, EmptyQueue, SummaryQueued
  <2>5. Queue(q2, ClaimIn(r))
    BY <2>2, <2>4, ReportQueued
  <2> QED
    BY <2>3, <2>5, EmptyQueue
<1>6. files = Append(first, Write("summary", r))
  OBVIOUS
<1> HIDE DEF first, files
<1>7. Queue(files, ClaimIn(r))
  BY <1>4, <1>5, <1>6, SummaryQueued
<1>8. \/ ClaimOf(disk["summary"]) = ClaimIn(r)
      \/ ClaimOf(disk["summary"]) \in {"full", "degraded"} /\ ClaimIn(r) = "failed"
  BY <1>3, <1>4, ClaimValues
<1>9. ~BeforeVerdict' /\ evidence \in Audit \cup {"none"}
  BY <1>1, BeforeStep DEF BeforeVerdict
<1> QED
  BY <1>1, <1>4, <1>7, <1>8, <1>9, ControlStep

\* The steps after the gate that keep the result and queue no summary last.
LEMMA LateStep ==
  ASSUME RunInv, ClaimInv, pc \in {"request_audit", "finalize", "manifest"}, Idle,
         UNCHANGED <<allow, blocked, outputs, unbound, result, evidence, disk>>,
         pc' \in {"finalize", "manifest", "exited", "raised"},
         Queue(writes', ClaimIn(result)),
         pc' \in {"exited", "raised"} => NoSummaryIn(writes')
  PROVE  RunInv' /\ ClaimInv'
<1>1. UNCHANGED ClaimIn(result) /\ (Honest(result) => Honest(result'))
  BY DEF Honest
<1>2. ~BeforeVerdict' /\ pc # "killed"
  BY DEF BeforeVerdict
<1>3. writes' # <<>> => Len(writes') \in 1 .. Len(writes')
  <2>1. PICK S : writes' \in Seq(S)
    BY DEF Queue
  <2> DEFINE q == writes'
  <2>2. q \in Seq(S)
    BY <2>1
  <2> HIDE DEF q
  <2>3. q # <<>> => Len(q) \in 1 .. Len(q)
    BY <2>2
  <2> QED
    BY <2>3 DEF q
<1>4. pc' \in {"exited", "raised"} /\ writes' # <<>> =>
        writes'[Len(writes')].file # "summary"
  BY <1>3 DEF NoSummaryIn
<1> QED
  BY <1>1, <1>2, <1>4, BeforeStep, ControlStep

LEMMA AuditRows ==
  ASSUME NEW a, NEW b, NEW c, NEW d, NEW stated
  PROVE  \A q \in {<<Write("audit", a)>>, <<Write("audit", a), Write("audit", b)>>,
                    <<Write("audit", a), Write("audit", b), Write("audit", c)>>,
                    <<Write("audit", a), Write("audit", b), Write("audit", c),
                      Write("audit", d)>>} :
           Queue(q, stated) /\ NoSummaryIn(q)
<1> DEFINE wa == Write("audit", a)
           wb == Write("audit", b)
           wc == Write("audit", c)
           wd == Write("audit", d)
<1>1. \A w \in {wa, wb, wc, wd} : w.file \in File \ {"summary"}
  BY FileNames DEF Write
<1>2. Queue(<<wa>>, stated) /\ NoSummaryIn(<<wa>>)
  BY SingleFile, FileNames
<1> HIDE DEF wa, wb, wc, wd
<1>3. \A q \in {<<wa, wb>>, <<wa, wb, wc>>, <<wa, wb, wc, wd>>} :
        Queue(q, stated) /\ NoSummaryIn(q)
  BY <1>1, OtherFiles
<1> QED
  BY <1>2, <1>3 DEF wa, wb, wc, wd

LEMMA RequestAuditStep ==
  ASSUME RunInv, ClaimInv, NEW problem, RequestAudit(problem)
  PROVE  RunInv' /\ ClaimInv'
<1> DEFINE a == [status |-> IF problem = "request" THEN "FAIL" ELSE "PASS",
                 knobs |-> "unknown"]
           b == [status |-> IF problem = "provider" THEN "FAIL" ELSE "PASS",
                 knobs |-> "unknown"]
           c == [status |-> "PASS", knobs |-> KnobCoverage]
           Q == {<<Write("audit", a)>>, <<Write("audit", a), Write("audit", b)>>,
                 <<Write("audit", a), Write("audit", b), Write("audit", c)>>,
                 <<Write("audit", a), Write("audit", b), Write("audit", c),
                   Write("audit", c)>>}
<1>1. /\ pc = "request_audit" /\ Idle /\ pc' \in {"finalize", "raised"} /\ writes' \in Q
      /\ UNCHANGED <<allow, blocked, outputs, unbound, result, evidence, disk>>
  BY DEF RequestAudit, Step, Engine, AuditRow
<1>2. \A q \in Q : Queue(q, ClaimIn(result)) /\ NoSummaryIn(q)
  <2> HIDE DEF a, b, c
  <2> QED
    BY AuditRows
<1> HIDE DEF Q
<1> QED
  BY <1>1, <1>2, LateStep

LEMMA FinalizeStep ==
  ASSUME RunInv, ClaimInv, NEW problem, Finalize(problem)
  PROVE  RunInv' /\ ClaimInv'
<1> DEFINE q1 == Append(<<>>, Write("result", result))
           q2 == Append(q1, Write("summary", result))
<1>1. /\ pc = "finalize" /\ Idle
      /\ \/ pc' = "raised" /\ writes' = <<>>
         \/ pc' = "manifest" /\ writes' = q2
      /\ UNCHANGED <<allow, blocked, outputs, unbound, result, evidence, disk>>
  BY DEF Finalize, Step, Engine
<1>2. q1 = Append(<<>>, Write("result", result)) /\ q2 = Append(q1, Write("summary", result))
  OBVIOUS
<1> HIDE DEF q1, q2
<1>3. Queue(q1, ClaimIn(result))
  BY <1>2, EmptyQueue, LongerQueue, FileNames
<1>4. Queue(q2, ClaimIn(result))
  BY <1>2, <1>3, BeforeStep, SummaryQueued
<1> QED
  BY <1>1, <1>4, EmptyQueue, LateStep

LEMMA ManifestStep ==
  ASSUME RunInv, ClaimInv, Manifest
  PROVE  RunInv' /\ ClaimInv'
<1> DEFINE a == Write("manifest", [f \in File \ {"manifest"} |-> disk[f]])
           b == Write("selection", "annotated")
           c == Write("graph", "annotated")
<1>1. /\ pc = "manifest" /\ Idle /\ pc' = "exited" /\ writes' = <<a, b, c>>
      /\ UNCHANGED <<allow, blocked, outputs, unbound, result, evidence, disk>>
  BY DEF Manifest, Step, Engine
<1>2. \A w \in {a, b, c} : w.file \in File \ {"summary"}
  BY FileNames DEF Write
<1> HIDE DEF a, b, c
<1>3. Queue(<<a, b, c>>, ClaimIn(result)) /\ NoSummaryIn(<<a, b, c>>)
  BY <1>2, OtherFiles
<1> QED
  BY <1>1, <1>3, LateStep

-----------------------------------------------------------------------------
(* The writes themselves, and a stop of the process.                       *)

LEMMA DiskStep ==
  ASSUME RunInv, UNCHANGED <<allow, blocked, outputs, unbound, result, evidence>>,
         pc' \in {pc, "killed"}, DOMAIN disk' = File, Queue(writes', ClaimIn(result)),
         HasSummary' => Honest(Summary'),
         pc' = pc /\ BeforeVerdict => disk'["summary"].state = "absent" /\ NoSummaryIn(writes')
  PROVE  RunInv'
<1>1. TypeOK'
  BY DEF RunInv, TypeOK, Queue
<1>2. Honest(result)' /\ Queue(writes, ClaimIn(result))' /\ (HasSummary => Honest(Summary))'
  BY DEF RunInv, Honest, Queue, HasSummary, Summary, AllStrict, Missing, Content,
     ContentWork, Covered, Usable, Preferred, ClaimIn, ClaimOf
<1> QED
  BY <1>1, <1>2 DEF RunInv, BeforeVerdict, NoSummaryIn

LEMMA WriteNextStep ==
  ASSUME RunInv, ClaimInv, WriteNext
  PROVE  RunInv' /\ ClaimInv'
<1> DEFINE h == Head(writes)
<1>1. /\ writes # <<>> /\ writes' = Tail(writes)
      /\ disk' = [disk EXCEPT ![h.file] = Written(h.content)]
      /\ UNCHANGED <<pc, allow, blocked, outputs, unbound, result, evidence>>
  BY DEF WriteNext, Idle
<1>2. DOMAIN disk = File /\ Queue(writes, ClaimIn(result)) /\ (HasSummary => Honest(Summary))
  BY DEF RunInv, TypeOK
<1>3. /\ Queue(writes', ClaimIn(result)) /\ h.file \in File
      /\ h.file = "summary" => Honest(h.content) /\ ClaimIn(h.content) = ClaimIn(result)
      /\ NoSummaryIn(writes) => NoSummaryIn(writes') /\ h.file # "summary"
      /\ NoSummaryIn(writes') /\ ~NoSummaryIn(writes) => h.file = "summary"
      /\ writes' = <<>> \/ writes'[Len(writes')] = writes[Len(writes)]
  BY <1>1, <1>2, ShorterQueue
<1> HIDE DEF h
<1>4. IF h.file = "summary" THEN disk'["summary"] = Written(h.content)
                            ELSE disk'["summary"] = disk["summary"]
  BY <1>1, <1>2, <1>3, FileNames
<1>5. DOMAIN disk' = File
  BY <1>1, <1>2
<1>6. HasSummary' => Honest(Summary')
  BY <1>2, <1>3, <1>4 DEF HasSummary, Summary, Written
<1>7. BeforeVerdict => disk'["summary"].state = "absent" /\ NoSummaryIn(writes')
  BY <1>3, <1>4 DEF RunInv
<1>8. RunInv'
  BY <1>1, <1>3, <1>5, <1>6, <1>7, DiskStep
<1>9. ClaimOf(disk'["summary"]) = IF h.file = "summary" THEN ClaimIn(result)
                                                        ELSE ClaimOf(disk["summary"])
  BY <1>3, <1>4 DEF ClaimIn
<1>10. ClaimInv'
  <2>1. (pc = "killed" => Idle)'
    BY <1>1 DEF ClaimInv, Idle
  <2>2. (pc # "killed" =>
           \/ ClaimOf(disk["summary"]) \in {"none", ClaimIn(result)}
           \/ /\ ClaimOf(disk["summary"]) \in {"full", "degraded"}
              /\ ClaimIn(result) = "failed")'
    BY <1>1, <1>9 DEF ClaimInv, ClaimIn, ClaimOf
  <2>3. (pc \in {"gate", "decide"} /\ NoSummaryIn(writes) =>
           ClaimOf(disk["summary"]) = ClaimIn(result))'
    BY <1>1, <1>3, <1>9 DEF ClaimInv, ClaimIn, ClaimOf, NoSummaryIn
  <2>4. (pc \in {"exited", "raised"} /\ ~Idle => writes[Len(writes)].file # "summary")'
    BY <1>1, <1>3 DEF ClaimInv, Idle
  <2> QED
    BY <2>1, <2>2, <2>3, <2>4 DEF ClaimInv
<1> QED
  BY <1>8, <1>10

LEMMA KillStep ==
  ASSUME RunInv, ClaimInv, Kill
  PROVE  RunInv' /\ ClaimInv'
<1>1. /\ pc' = "killed" /\ writes' = <<>>
      /\ \/ disk' = disk
         \/ ~Idle /\ disk' = [disk EXCEPT ![Head(writes).file] = Torn]
      /\ UNCHANGED <<allow, blocked, outputs, unbound, result, evidence>>
  BY DEF Kill
<1>2. DOMAIN disk = File /\ (HasSummary => Honest(Summary))
  BY DEF RunInv, TypeOK
<1>3. DOMAIN disk' = File /\ disk'["summary"] \in {disk["summary"], Torn}
  BY <1>1, <1>2, FileNames
<1>4. HasSummary' => Honest(Summary')
  BY <1>2, <1>3 DEF HasSummary, Summary, Torn
<1>5. Queue(writes', ClaimIn(result))
  BY <1>1, EmptyQueue
<1>6. RunInv'
  BY <1>1, <1>3, <1>4, <1>5, DiskStep DEF BeforeVerdict
<1>7. ClaimInv'
  BY <1>1 DEF ClaimInv, Idle
<1> QED
  BY <1>6, <1>7

LEMMA RunInvariant == Spec => [](RunInv /\ ClaimInv)
<1>1. RunInv /\ ClaimInv /\ [Next]_vars => RunInv' /\ ClaimInv'
  <2> SUFFICES ASSUME RunInv, ClaimInv, [Next]_vars PROVE RunInv' /\ ClaimInv'
    OBVIOUS
  <2>1. CASE UNCHANGED vars
    BY <2>1 DEF vars, RunInv, ClaimInv, TypeOK, ResultType, Honest, Queue, HasSummary,
       Summary, BeforeVerdict, NoSummaryIn, Idle, ClaimIn, ClaimOf, AllStrict, Missing,
       Content, ContentWork, Covered, Usable, Preferred
  <2> QED
    BY <2>1, SetupStep, ValidateStep, RunStagesStep, JudgeStep, AuditEvidenceStep,
       DecideStep, RequestAuditStep, FinalizeStep, ManifestStep, WriteNextStep, KillStep
       DEF Next
<1> QED
  BY <1>1, RunInit, PTL DEF Spec

\* TypeOK for every graph: the result is one of the verdicts the layers give,
\* and every queued write names a file (the layers of main and _run).
THEOREM TypeCorrect == Spec => []TypeOK
BY RunInvariant, PTL DEF RunInv

\* Degraded output is never represented as full success, in no version of the
\* summary and wherever the process stops (v5_quality_status_integrity.py:1).
THEOREM FullSuccessSafe == Spec => []FullSuccessMeansStrict
<1>1. RunInv => FullSuccessMeansStrict
  BY DEF RunInv, FullSuccessMeansStrict, Honest
<1> QED
  BY <1>1, RunInvariant, PTL

-----------------------------------------------------------------------------
(* Refinement: each step publishes, stops, or changes nothing a reader of  *)
(* the summary can see.                                                    *)

DiskClaim == ClaimOf(disk["summary"])

LEMMA ClaimsOnly == DiskClaim \in Abstract!Claims
BY DEF DiskClaim, ClaimOf, Abstract!Claims

LEMMA SilentRefined ==
  ASSUME ~Ended, UNCHANGED DiskClaim
  PROVE  [Abstract!DeliveryNext]_(Abstract!deliveryVars)
<1>1. CASE ~Ended'
  <2>1. Ended' = Ended
    BY <1>1 DEF Ended
  <2> QED
    BY <2>1 DEF Abstract!deliveryVars, DiskClaim
<1>2. CASE Ended'
  <2>1. Abstract!Stop(DiskClaim)
    BY <1>2 DEF Abstract!Stop, DiskClaim, Ended
  <2> QED
    BY <2>1, ClaimsOnly DEF Abstract!DeliveryNext
<1> QED
  BY <1>1, <1>2

LEMMA ControlRefined ==
  ASSUME NEW from, NEW to, NEW files, Step(from, to, files),
         from \notin {"exited", "raised", "killed"}, UNCHANGED disk
  PROVE  [Abstract!DeliveryNext]_(Abstract!deliveryVars)
<1>1. ~Ended
  BY DEF Step, Ended
<1>2. UNCHANGED DiskClaim
  BY DEF DiskClaim, ClaimOf
<1> QED
  BY <1>1, <1>2, SilentRefined

LEMMA WriteRefined ==
  ASSUME RunInv, ClaimInv, WriteNext
  PROVE  [Abstract!DeliveryNext]_(Abstract!deliveryVars)
<1> DEFINE h == Head(writes)
<1>1. /\ writes # <<>> /\ writes' = Tail(writes) /\ ~Idle
      /\ disk' = [disk EXCEPT ![h.file] = Written(h.content)]
      /\ UNCHANGED <<pc, result>>
  BY DEF WriteNext, Idle
<1>2. DOMAIN disk = File /\ Queue(writes, ClaimIn(result)) /\ ~Ended /\ pc # "killed"
  BY <1>1 DEF RunInv, TypeOK, Ended, ClaimInv
<1>3. /\ h.file = "summary" => ClaimIn(h.content) = ClaimIn(result)
      /\ h.file \in File
      /\ writes' = <<>> => writes[Len(writes)] = h
  BY <1>1, <1>2, ShorterQueue
<1> HIDE DEF h
<1>4. CASE h.file # "summary"
  <2>1. disk'["summary"] = disk["summary"]
    BY <1>1, <1>2, <1>3, <1>4, FileNames
  <2>2. UNCHANGED DiskClaim
    BY <2>1 DEF DiskClaim, ClaimOf
  <2> QED
    BY <1>2, <2>2, SilentRefined
<1>5. CASE h.file = "summary"
  <2>1. disk'["summary"] = Written(h.content)
    BY <1>1, <1>2, <1>3, <1>5, FileNames
  <2>2. DiskClaim' = ClaimIn(result)
    BY <2>1, <1>3, <1>5 DEF DiskClaim, ClaimIn
  <2>3. ~Ended'
    BY <1>1, <1>2, <1>3, <1>5 DEF Ended, ClaimInv, Idle
  <2>4. \/ DiskClaim \in {"none", ClaimIn(result)}
        \/ DiskClaim \in {"full", "degraded"} /\ ClaimIn(result) = "failed"
    BY <1>2 DEF ClaimInv, DiskClaim
  <2>5. CASE DiskClaim = ClaimIn(result)
    BY <1>2, <2>2, <2>5, SilentRefined
  <2>6. CASE DiskClaim # ClaimIn(result)
    <3>1. Abstract!Publish(ClaimIn(result))
      BY <1>2, <2>2, <2>3, <2>4, <2>6
         DEF Abstract!Publish, Abstract!Withdrawable, DiskClaim, Ended
    <3>2. ClaimIn(result) \in {"full", "degraded", "failed"}
      BY ClaimValues
    <3> QED
      BY <3>1, <3>2 DEF Abstract!DeliveryNext
  <2> QED
    BY <2>5, <2>6
<1> QED
  BY <1>4, <1>5

LEMMA KillRefined ==
  ASSUME RunInv, Kill
  PROVE  [Abstract!DeliveryNext]_(Abstract!deliveryVars)
<1>1. ~Ended /\ Ended'
  BY DEF Kill, Ended, Idle
<1>2. DOMAIN disk = File
  BY DEF RunInv, TypeOK
<1>3. disk'["summary"] \in {disk["summary"], Torn}
  BY <1>2, FileNames DEF Kill
<1>4. DiskClaim' \in {DiskClaim, "torn"}
  BY <1>3 DEF DiskClaim, ClaimOf, Torn
<1>5. Abstract!Stop(DiskClaim')
  BY <1>1, <1>4 DEF Abstract!Stop, DiskClaim, Ended
<1>6. DiskClaim' \in Abstract!Claims
  BY <1>4, ClaimsOnly DEF Abstract!Claims
<1> QED
  BY <1>5, <1>6 DEF Abstract!DeliveryNext

\* For every graph and every point at which the process may be stopped, the
\* versions of v5-execution-summary.json follow Delivery: a failure is final
\* and a success changes into nothing but a failure.
THEOREM DeliveryRefined == Spec => ImplementsDelivery
<1>1. Init => Abstract!DeliveryInit
  BY FileNames DEF Init, Abstract!DeliveryInit, ClaimOf, Absent, Ended
<1>2. RunInv /\ ClaimInv /\ [Next]_vars => [Abstract!DeliveryNext]_(Abstract!deliveryVars)
  <2> SUFFICES ASSUME RunInv, ClaimInv, [Next]_vars
               PROVE  [Abstract!DeliveryNext]_(Abstract!deliveryVars)
    OBVIOUS
  <2>1. CASE UNCHANGED vars
    BY <2>1 DEF vars, Abstract!deliveryVars, ClaimOf, Ended, Idle
  <2>2. ASSUME NEW rejected \in BOOLEAN, Setup(rejected)
        PROVE  [Abstract!DeliveryNext]_(Abstract!deliveryVars)
    BY <2>2, ControlRefined DEF Setup
  <2>3. ASSUME NEW problem, NEW verdict, Validate(problem, verdict)
        PROVE  [Abstract!DeliveryNext]_(Abstract!deliveryVars)
    BY <2>3, ControlRefined DEF Validate
  <2>4. CASE RunStages
    BY <2>4, ControlRefined DEF RunStages
  <2>5. CASE Judge
    BY <2>5, ControlRefined DEF Judge
  <2>6. ASSUME NEW verdict, AuditEvidence(verdict)
        PROVE  [Abstract!DeliveryNext]_(Abstract!deliveryVars)
    BY <2>6, ControlRefined DEF AuditEvidence
  <2>7. CASE Decide
    BY <2>7, ControlRefined DEF Decide
  <2>8. ASSUME NEW problem, RequestAudit(problem)
        PROVE  [Abstract!DeliveryNext]_(Abstract!deliveryVars)
    BY <2>8, ControlRefined DEF RequestAudit
  <2>9. ASSUME NEW problem, Finalize(problem)
        PROVE  [Abstract!DeliveryNext]_(Abstract!deliveryVars)
    BY <2>9, ControlRefined DEF Finalize
  <2>10. CASE Manifest
    BY <2>10, ControlRefined DEF Manifest
  <2> QED
    BY <2>1, <2>2, <2>3, <2>4, <2>5, <2>6, <2>7, <2>8, <2>9, <2>10, WriteRefined,
       KillRefined DEF Next
<1> QED
  BY <1>1, <1>2, RunInvariant, PTL DEF Spec, ImplementsDelivery, Abstract!DeliverySpec

-----------------------------------------------------------------------------
(***************************************************************************)
(* One story                                                               *)
(***************************************************************************)
\* What the materializer of the pipeline sets for every graph: no minimum of
\* its own, and no work that may be left out or must not be
\* (v5_soft_proposal_materializer.py:413); a graph has work to do.
PipelineLimits ==
  /\ MinCoverage = 0 /\ MinContentNodes = 0
  /\ Optional = {} /\ NonDegradable = {}
  /\ Work # {}

\* Once the queue q is written to the disk d, the content of f is c.
Leads(q, d, f, c) ==
  \/ d[f] = c /\ \A i \in 1 .. Len(q) : q[i].file # f
  \/ \E i \in 1 .. Len(q) :
       /\ q[i].file = f /\ Written(q[i].content) = c
       /\ \A j \in 1 .. Len(q) : j > i => q[j].file # f

Audited == pc \in {"request_audit", "finalize", "manifest", "exited"}

ReportTells ==
  \/ Leads(writes, disk, "report", Written(result.answer))
  \/ Leads(writes, disk, "report", Written("gate-failure")) /\ result.status = "failed"

Unhashed == {"manifest", "selection", "graph"}

\* The files follow the result: the report from the verdict on, the summary from
\* the gate on, and the manifest when nothing but two files is rewritten.
FilesInv ==
  /\ pc \in {"gate", "decide"} => Leads(writes, disk, "report", Written(result.answer))
  /\ Audited => ReportTells /\ Leads(writes, disk, "summary", Written(result))
  /\ pc \in {"manifest", "exited"} => Leads(writes, disk, "result", Written(result))
  /\ pc = "exited" =>
       /\ \A i \in 1 .. Len(writes) : writes[i].file \in Unhashed
       /\ \E m : Leads(writes, disk, "manifest", Written(m))
                 /\ \A f \in File \ Unhashed : m[f] = disk[f]

Verdicts ==
  {<<"success", "full", "full_success">>, <<"success", "degraded", "degraded_success">>,
   <<"failed", "none", "failed">>, <<"failed", "degraded", "degraded_success">>}

\* The verdict is one of four; the odd one is left to the gate.
Told(r) ==
  /\ <<r.status, r.mode, r.quality>> \in Verdicts
  /\ r.status = "failed" /\ r.mode = "degraded" => ~allow
  /\ r.status = "success" /\ r.mode = "degraded" =>
       /\ r.answer # "empty" /\ Missing = {}
       /\ \E n \in Node : StrictStatus(outputs[n]) /\ Assigned[n] \cap Covered # {}
  /\ blocked /\ ~Preferred /\ Covered = {} => r.status = "failed" /\ r.answer = "empty"

VerdictInv ==
  /\ pc \in {"gate", "decide"} \/ Audited => Told(result)
  /\ Audited =>
       /\ result.status = "failed" => result.mode = "none"
       /\ result.mode = "degraded" => allow /\ evidence = "PASS"
       /\ blocked /\ ~Preferred /\ Covered = {} => result.reason = Credit

LEMMA LeadsFromDisk ==
  ASSUME NEW d, NEW f
  PROVE  Leads(<<>>, d, f, d[f]) /\ \A c : Leads(<<>>, d, f, c) => d[f] = c
<1>1. Len(<<>>) = 0
  OBVIOUS
<1> QED
  BY <1>1 DEF Leads

\* A file more in the queue.
LEMMA LeadsAppend ==
  ASSUME NEW S, NEW q \in Seq(S), NEW d, NEW f, NEW c, Leads(q, d, f, c), NEW g, NEW v,
         NEW r, r = Append(q, Write(g, v))
  PROVE  /\ Leads(r, d, f, IF g = f THEN Written(v) ELSE c)
         /\ \E T : r \in Seq(T)
<1> DEFINE w == Write(g, v)
<1>1. q \in Seq(S \cup {w}) /\ w \in S \cup {w} /\ r = Append(q, w)
  OBVIOUS
<1>2. w.file = g /\ w.content = v
  BY DEF Write
<1> HIDE DEF w
<1>3. /\ r \in Seq(S \cup {w}) /\ Len(r) = Len(q) + 1 /\ Len(q) \in Nat
      /\ r[Len(q) + 1] = w
      /\ \A i \in 1 .. Len(q) : r[i] = q[i]
  BY <1>1
<1>4. \A i \in 1 .. Len(r) : i \in 1 .. Len(q) \/ i = Len(q) + 1
  BY <1>3
<1>5. CASE g = f
  BY <1>2, <1>3, <1>4, <1>5 DEF Leads
<1>6. CASE g # f /\ d[f] = c /\ \A i \in 1 .. Len(q) : q[i].file # f
  BY <1>2, <1>3, <1>4, <1>6 DEF Leads
<1>7. ASSUME g # f, NEW i \in 1 .. Len(q), q[i].file = f, Written(q[i].content) = c,
             \A j \in 1 .. Len(q) : j > i => q[j].file # f
      PROVE  Leads(r, d, f, c)
  <2>1. i \in 1 .. Len(r) /\ r[i].file = f /\ Written(r[i].content) = c
    BY <1>3, <1>7
  <2>2. \A j \in 1 .. Len(r) : j > i => r[j].file # f
    BY <1>2, <1>3, <1>4, <1>7
  <2> QED
    BY <2>1, <2>2 DEF Leads
<1> QED
  BY <1>3, <1>5, <1>6, <1>7 DEF Leads

\* Writing the oldest file.
LEMMA LeadsOnWrite ==
  ASSUME NEW S, NEW q \in Seq(S), q # <<>>, NEW d, NEW f \in DOMAIN d, NEW c,
         Leads(q, d, f, c),
         NEW e, e = [d EXCEPT ![Head(q).file] = Written(Head(q).content)]
  PROVE  Leads(Tail(q), e, f, c)
<1>1. /\ Len(q) \in Nat /\ Len(q) > 0 /\ Len(Tail(q)) = Len(q) - 1 /\ Head(q) = q[1]
      /\ \A i \in 1 .. Len(q) - 1 : Tail(q)[i] = q[i + 1]
  OBVIOUS
<1>2. \A i \in 1 .. Len(q) - 1 : i + 1 \in 1 .. Len(q)
  BY <1>1
<1>3. 1 \in 1 .. Len(q)
  BY <1>1
<1>4. e[f] = IF q[1].file = f THEN Written(q[1].content) ELSE d[f]
  BY <1>1
<1>5. CASE d[f] = c /\ \A i \in 1 .. Len(q) : q[i].file # f
  BY <1>1, <1>2, <1>3, <1>4, <1>5 DEF Leads
<1>6. ASSUME NEW i \in 1 .. Len(q), q[i].file = f, Written(q[i].content) = c,
             \A j \in 1 .. Len(q) : j > i => q[j].file # f
      PROVE  Leads(Tail(q), e, f, c)
  <2>1. CASE i = 1
    <3>1. e[f] = c
      BY <1>4, <1>6, <2>1
    <3>2. \A j \in 1 .. Len(Tail(q)) : Tail(q)[j].file # f
      <4> TAKE j \in 1 .. Len(Tail(q))
      <4>1. Tail(q)[j] = q[j + 1] /\ j + 1 \in 1 .. Len(q) /\ j + 1 > i
        BY <1>1, <1>2, <2>1
      <4> QED
        BY <4>1, <1>6
    <3> QED
      BY <3>1, <3>2 DEF Leads
  <2>2. CASE i # 1
    <3>1. i - 1 \in 1 .. Len(Tail(q)) /\ Tail(q)[i - 1] = q[i - 1 + 1] /\ i - 1 + 1 = i
      BY <1>1, <2>2
    <3>2. \A j \in 1 .. Len(Tail(q)) : j > i - 1 => Tail(q)[j].file # f
      <4> SUFFICES ASSUME NEW j \in 1 .. Len(Tail(q)), j > i - 1
                   PROVE  Tail(q)[j].file # f
        OBVIOUS
      <4>1. Tail(q)[j] = q[j + 1] /\ j + 1 \in 1 .. Len(q) /\ j + 1 > i
        BY <1>1, <1>2
      <4> QED
        BY <4>1, <1>6
    <3> QED
      BY <3>1, <3>2, <1>6 DEF Leads
  <2> QED
    BY <2>1, <2>2
<1> QED
  BY <1>5, <1>6 DEF Leads

-----------------------------------------------------------------------------
(* The verdict the engine gives under the limits of the pipeline.          *)

LEMMA WorkIsFinite ==
  /\ IsFiniteSet(Content) /\ Covered \subseteq Content
  /\ Cardinality(Content) \in Nat /\ Cardinality(Covered) \in Nat
<1>1. Content \subseteq Work
  BY GraphAssumption DEF Content, ContentWork
<1>2. IsFiniteSet(Content)
  BY <1>1, FS_Subset, GraphAssumption
<1>3. Covered \subseteq Content
  BY DEF Covered
<1> QED
  BY <1>2, <1>3, FS_Subset, FS_CardinalityType

\* All of the work is there when the covered share reaches the whole.
LEMMA WholeIsCovered ==
  ASSUME Reaches(Cardinality(Covered), 100)
  PROVE  Missing = {}
<1> DEFINE n == Cardinality(Content)
           k == Cardinality(Covered)
<1>1. n \in Nat /\ k \in Nat /\ IsFiniteSet(Content) /\ Covered \subseteq Content
  BY WorkIsFinite
<1>2. CASE Content = {}
  BY <1>2 DEF Missing
<1>3. CASE Content # {}
  <2>1. 100 * k >= 100 * n
    BY <1>3 DEF Reaches
  <2>2. k >= n
    <3> HIDE DEF k, n
    <3> QED
      BY <1>1, <2>1
  <2>3. Covered = Content
    BY <1>1, <2>2, FS_Subset
  <2> QED
    BY <2>3 DEF Missing
<1> QED
  BY <1>2, <1>3

\* Nothing is covered, so no share but nothing is reached.
LEMMA NothingReaches ==
  ASSUME Covered = {}
  PROVE  ~Reaches(Cardinality(Covered), 100)
<1>1. Cardinality(Covered) = 0
  BY FS_EmptySet
<1>2. Content # {} => Cardinality(Content) # 0
  BY WorkIsFinite, FS_EmptySet
<1> QED
  BY <1>1, <1>2, WorkIsFinite DEF Reaches

LEMMA ContentExists ==
  ASSUME PipelineLimits
  PROVE  Content # {}
BY DEF PipelineLimits, Content, ContentWork

\* Where the user allows degradation nothing blocks and there is a text.
LEMMA AllowedIsDelivered ==
  ASSUME TypeOK, PipelineLimits, allow, NEW best
  PROVE  DeliveryBlockers(best) = <<>> /\ FinalAnswer # "empty"
<1>1. Minimum = 0 /\ AllowDegraded
  BY DEF Minimum, AllowDegraded, PipelineLimits
<1>2. Reaches(Cardinality(Covered), Minimum)
  BY <1>1, WorkIsFinite DEF Reaches
<1>3. ~(StrictContentNodes(best) < MinContentNodes)
  BY Counts DEF PipelineLimits
<1>4. MissingNonDegradable = {}
  BY DEF MissingNonDegradable, PipelineLimits
<1>5. DeliveryBlockers(best) = <<>> \o <<>> \o <<>> \o <<>>
  BY <1>1, <1>2, <1>3, <1>4, Zenon DEF DeliveryBlockers
<1>6. <<>> \o <<>> = <<>>
  OBVIOUS
<1> QED
  BY <1>2, <1>5, <1>6 DEF FinalAnswer

\* Where nothing is covered and the user forbids degradation, it is blocked.
LEMMA NothingIsBlocked ==
  ASSUME TypeOK, ~allow, Covered = {}, NEW best
  PROVE  DeliveryBlockers(best) # <<>>
<1> DEFINE when(condition, blocker) == IF condition THEN <<blocker>> ELSE <<>>
           a == when(MissingNonDegradable # {}, "missing-non-degradable-work")
           b == when(~Reaches(Cardinality(Covered), Minimum),
                     "insufficient-required-work-coverage")
           c == when(StrictContentNodes(best) < MinContentNodes,
                     "insufficient-successful-content-nodes")
           d == when(Degraded /\ ~AllowDegraded, "degraded-success-disabled")
<1>1. DeliveryBlockers(best) = a \o b \o c \o d
  BY DEF DeliveryBlockers
<1>2. b = <<"insufficient-required-work-coverage">>
  BY NothingReaches DEF Minimum
<1>3. a \in Seq(Blockers) /\ c \in Seq(Blockers) /\ d \in Seq(Blockers)
  <2>1. /\ "missing-non-degradable-work" \in Blockers
        /\ "insufficient-successful-content-nodes" \in Blockers
        /\ "degraded-success-disabled" \in Blockers
    BY DEF Blockers
  <2>2. <<>> \in Seq(Blockers) /\ \A s \in Blockers : <<s>> \in Seq(Blockers)
    OBVIOUS
  <2> HIDE DEF Blockers
  <2> QED
    BY <2>1, <2>2
<1> HIDE DEF a, b, c, d
<1>4. Len(a \o b \o c \o d) >= 1
  <2> HIDE DEF Blockers
  <2> QED
    BY <1>2, <1>3
<1> QED
  BY <1>1, <1>4

\* The fields of the engine's result, by what the verdict was given for.
LEMMA ResultFields ==
  ASSUME TypeOK, NEW best, NEW r, r = ExecutionResult(best)
  PROVE  /\ r.answer = FinalAnswer /\ r.blockers = DeliveryBlockers(best)
         /\ r.covered = Cardinality(Covered)
         /\ r.strict_content = StrictContentNodes(best)
         /\ r \in ResultType
         /\ r.status = "success" <=> DeliveryBlockers(best) = <<>> /\ FinalAnswer # "empty"
         /\ <<r.status, r.mode, r.quality>> \in Verdicts \ {<<"failed", "degraded", "degraded_success">>}
<1> DEFINE blockers == DeliveryBlockers(best)
           c == CompletionStatus(blockers)
           v == AccountReason(c)
<1>1. /\ c \in [status: {"success", "failed"}, mode: {"full", "degraded", "none"},
                quality: {"full_success", "degraded_success", "failed"}, reason: {c.reason}]
      /\ c.status = "success" <=> blockers = <<>> /\ FinalAnswer # "empty"
      /\ <<c.status, c.mode, c.quality>> \in Verdicts \ {<<"failed", "degraded", "degraded_success">>}
  BY DEF CompletionStatus, Verdict, Verdicts
<1>2. v.status = c.status /\ v.mode = c.mode /\ v.quality = c.quality
  <2> HIDE DEF c
  <2> QED
    BY <1>1 DEF AccountReason
<1>3. r = [status |-> v.status, mode |-> v.mode, quality |-> v.quality,
           reason |-> v.reason, answer |-> FinalAnswer, blockers |-> blockers,
           covered |-> Cardinality(Covered), strict_content |-> StrictContentNodes(best)]
  BY DEF ExecutionResult
<1>4. r \in ResultType
  BY ExecutionResultType
<1> HIDE DEF v, c, blockers
<1>5. /\ r.status = c.status /\ r.mode = c.mode /\ r.quality = c.quality
      /\ r.answer = FinalAnswer /\ r.blockers = blockers
      /\ r.covered = Cardinality(Covered) /\ r.strict_content = StrictContentNodes(best)
  BY <1>2, <1>3
<1> QED
  BY <1>1, <1>4, <1>5 DEF blockers

\* A node that is best for a covered work item does that work.
LEMMA StrictContentWorks ==
  ASSUME TypeOK, NEW best \in BestOutputs, StrictContentNodes(best) >= 1
  PROVE  \E n \in Node : StrictStatus(outputs[n]) /\ Assigned[n] \cap Covered # {}
<1> DEFINE S == {n \in Node : StrictStatus(outputs[n]) /\ \E w \in Covered : best[w] = n}
<1>1. S # {}
  BY FS_EmptySet DEF StrictContentNodes
<1>2. PICK n \in Node : StrictStatus(outputs[n]) /\ \E w \in Covered : best[w] = n
  BY <1>1
<1>3. PICK w \in Covered : best[w] = n
  BY <1>2
<1>4. w \in Assigned[n]
  BY <1>3 DEF BestOutputs, Usable
<1> QED
  BY <1>2, <1>3, <1>4

LEMMA CompleteWorks ==
  ASSUME TypeOK, PipelineLimits, Complete, Missing = {}
  PROVE  \E n \in Node : StrictStatus(outputs[n]) /\ Assigned[n] \cap Covered # {}
<1>1. Covered # {}
  BY ContentExists DEF Missing
<1>2. PICK w \in Covered : Usable(w) # {}
  BY <1>1 DEF Covered
<1>3. PICK n \in Node : w \in Assigned[n]
  BY <1>2 DEF Usable
<1> QED
  BY <1>2, <1>3 DEF Complete

\* A success the engine calls full is one in every part.
LEMMA FullResult ==
  ASSUME TypeOK, NEW best, NEW r, r = ExecutionResult(best),
         r.status = "success", r.mode = "full"
  PROVE  Complete /\ Missing = {} /\ Preferred
<1>1. ~DeclaresDegraded(r)
  BY DEF DeclaresDegraded
<1> QED
  BY <1>1, FullVerdict

\* What the integrity layer lets stand as degraded is all of the work.
LEMMA AuditedIsWhole ==
  ASSUME TypeOK, PipelineLimits, NEW best \in BestOutputs, NEW r,
         r = ExecutionResult(best), AuditedDegradation(r)
  PROVE  /\ Missing = {} /\ Covered # {}
         /\ \E n \in Node : StrictStatus(outputs[n]) /\ Assigned[n] \cap Covered # {}
<1>1. /\ r.covered = Cardinality(Covered) /\ r.strict_content = StrictContentNodes(best)
  BY ResultFields
<1>2. AuditedMinimum = 100
  BY DEF AuditedDegradation, AllowDegraded, AuditedMinimum, Minimum, PipelineLimits
<1>3. Missing = {}
  BY <1>1, <1>2, WholeIsCovered DEF AuditedDegradation
<1>4. Covered # {}
  BY <1>1, FS_EmptySet DEF AuditedDegradation
<1> QED
  BY <1>1, <1>3, <1>4, StrictContentWorks DEF AuditedDegradation

LEMMA JudgementTold ==
  ASSUME TypeOK, PipelineLimits, NEW best \in BestOutputs
  PROVE  Told(EnforceIntegrity(ExecutionResult(best)))
<1> DEFINE r == ExecutionResult(best)
           k == EnforceIntegrity(r)
<1>1. /\ r.answer = FinalAnswer /\ r.covered = Cardinality(Covered) /\ r \in ResultType
      /\ r.status = "success" <=> DeliveryBlockers(best) = <<>> /\ FinalAnswer # "empty"
      /\ <<r.status, r.mode, r.quality>>
           \in Verdicts \ {<<"failed", "degraded", "degraded_success">>}
  BY ResultFields
<1>2. r.status = "success" /\ r.mode = "full" => Complete /\ Missing = {} /\ Preferred
  BY FullResult
<1>3. AuditedDegradation(r) =>
        /\ Missing = {} /\ Covered # {}
        /\ \E n \in Node : StrictStatus(outputs[n]) /\ Assigned[n] \cap Covered # {}
  BY AuditedIsWhole
<1>4. allow => r.status = "success"
  BY <1>1, AllowedIsDelivered
<1>5. ~allow /\ Covered = {} => r.status = "failed"
  BY <1>1, NothingIsBlocked DEF Verdicts
<1>6. Complete /\ Missing = {} =>
        \E n \in Node : StrictStatus(outputs[n]) /\ Assigned[n] \cap Covered # {}
  BY CompleteWorks
<1>7. ~Preferred /\ Covered = {} /\ ~allow => r.answer = "empty"
  BY <1>1, NothingReaches DEF FinalAnswer, Minimum
<1>8. k = EnforceIntegrity(r)
  OBVIOUS
<1>9. r.status = "success" => r.answer # "empty"
  BY <1>1
<1>a. Covered = {} => Missing # {}
  BY ContentExists DEF Missing
<1> HIDE DEF r, k
<1> SUFFICES Told(k)
  BY DEF k, r
<1>10. CASE DeclaresDegraded(r) /\ ~AuditedDegradation(r)
  <2>1. k.status = "failed" /\ k.mode = "none" /\ k.quality = "failed" /\ k.answer = "empty"
    BY <1>1, <1>8, <1>10 DEF EnforceIntegrity, RejectDegraded, ResultType
  <2> QED
    BY <2>1 DEF Told, Verdicts
<1>11. CASE AuditedDegradation(r)
  <2>1. k.status = "success" /\ k.mode = "degraded" /\ k.quality = "degraded_success"
        /\ k.answer = r.answer
    BY <1>1, <1>8, <1>11 DEF EnforceIntegrity, ApplyDegradation, ResultType,
       AuditedDegradation, DeclaresDegraded
  <2> QED
    BY <2>1, <1>3, <1>9, <1>11 DEF Told, Verdicts, AuditedDegradation, DeclaresDegraded
<1>12. CASE ~DeclaresDegraded(r) /\ ~AuditedDegradation(r) /\ DegradedNodes # {}
  <2>1. k.status = r.status /\ k.mode = "degraded" /\ k.quality = "degraded_success"
        /\ k.answer = r.answer
    BY <1>1, <1>8, <1>12 DEF EnforceIntegrity, ApplyDegradation, ResultType
  <2>2. r.status = "success" => r.mode = "full"
    BY <1>1, <1>12 DEF DeclaresDegraded, Verdicts
  <2>3. r.status \in {"success", "failed"}
    BY <1>1 DEF ResultType
  <2> QED
    BY <2>1, <2>2, <2>3, <1>2, <1>4, <1>5, <1>6, <1>7, <1>9, <1>a DEF Told, Verdicts
<1>13. CASE ~DeclaresDegraded(r) /\ ~AuditedDegradation(r) /\ DegradedNodes = {}
  <2>1. /\ <<k.status, k.mode, k.quality>> \in
             {<<"success", "full", "full_success">>, <<"failed", "none", "failed">>}
        /\ k.status = r.status /\ k.answer = r.answer
    BY <1>1, <1>8, <1>13 DEF EnforceIntegrity, ResultType, Verdicts, DeclaresDegraded
  <2>2. r.status = "success" => r.mode = "full"
    BY <1>1, <1>13 DEF DeclaresDegraded, Verdicts
  <2> QED
    BY <2>1, <2>2, <1>2, <1>4, <1>5, <1>7, <1>a DEF Told, Verdicts
<1> QED
  BY <1>10, <1>11, <1>12, <1>13 DEF AuditedDegradation

-----------------------------------------------------------------------------
(* The steps and the verdict.                                              *)

LEMMA VerdictStays ==
  ASSUME VerdictInv, UNCHANGED <<allow, blocked, outputs, result, evidence>>,
         pc' \in {"gate", "decide"} \/ Audited' =>
           pc' = pc \/ (Audited /\ Audited')
  PROVE  VerdictInv'
<1>1. Told(result) => Told(result)'
  BY DEF Told, Missing, Covered, Content, ContentWork, Usable, Preferred
<1>2. (blocked /\ ~Preferred /\ Covered = {})' => blocked /\ ~Preferred /\ Covered = {}
  BY DEF Covered, Content, ContentWork, Usable, Preferred
<1> QED
  BY <1>1, <1>2 DEF VerdictInv, Audited

LEMMA JudgeVerdict ==
  ASSUME RunInv, PipelineLimits, Judge
  PROVE  VerdictInv'
<1>1. PICK best \in BestOutputs :
        /\ pc' = "gate" /\ result' = EnforceIntegrity(ExecutionResult(best))
        /\ UNCHANGED <<allow, blocked, outputs, unbound>>
  BY DEF Judge, Step, Engine
<1> DEFINE r == EnforceIntegrity(ExecutionResult(best))
<1>2. Told(r)
  BY JudgementTold DEF RunInv
<1> HIDE DEF r
<1>3. Told(result)'
  BY <1>1, <1>2 DEF r, Told, Missing, Covered, Content, ContentWork, Usable, Preferred
<1> QED
  BY <1>1, <1>3 DEF VerdictInv, Audited

LEMMA AuditEvidenceVerdict ==
  ASSUME VerdictInv, NEW verdict, AuditEvidence(verdict)
  PROVE  VerdictInv'
<1>1. /\ pc = "gate" /\ pc' = "decide"
      /\ UNCHANGED <<allow, blocked, outputs, unbound, result, disk>>
  BY DEF AuditEvidence, Step, Engine
<1>2. Told(result)'
  BY <1>1 DEF VerdictInv, Told, Missing, Covered, Content, ContentWork, Usable, Preferred
<1> QED
  BY <1>1, <1>2 DEF VerdictInv, Audited

LEMMA DecideVerdict ==
  ASSUME RunInv, VerdictInv, Decide
  PROVE  VerdictInv'
<1> DEFINE reason == ConstitutionalFailure
           r == IF reason = "none" THEN result ELSE FailResult(result, reason)
           nothing == blocked /\ ~Preferred /\ Covered = {}
<1>1. /\ pc = "decide" /\ pc' = "request_audit" /\ result' = r
      /\ UNCHANGED <<allow, blocked, outputs, unbound, evidence>>
  BY DEF Decide, Step, Engine
<1>2. Told(result) /\ result \in ResultType
  BY <1>1 DEF VerdictInv, RunInv
<1>3. nothing => reason = Credit
  BY <1>2 DEF Told, ConstitutionalFailure
<1>4. reason = "none" => /\ evidence = "PASS" /\ (result.mode = "degraded" => allow)
                         /\ ~nothing
  BY <1>3 DEF ConstitutionalFailure, Credit
<1>5. reason # "none" => /\ r.status = "failed" /\ r.mode = "none" /\ r.quality = "failed"
                         /\ r.answer = "empty" /\ r.reason = reason
  BY <1>2 DEF FailResult, ResultType
<1>6. reason = "none" => r = result
  OBVIOUS
<1> HIDE DEF reason, r
<1>7. Told(r)
  BY <1>2, <1>5, <1>6 DEF Told, Verdicts
<1>8. /\ r.status = "failed" => r.mode = "none"
      /\ r.mode = "degraded" => allow /\ evidence = "PASS"
      /\ nothing => r.reason = Credit
  BY <1>2, <1>3, <1>4, <1>5, <1>6 DEF Told, Verdicts
<1>9. Told(result)'
  BY <1>1, <1>7 DEF Told, Missing, Covered, Content, ContentWork, Usable, Preferred
<1>10. (blocked /\ ~Preferred /\ Covered = {})' => nothing
  BY <1>1 DEF Covered, Content, ContentWork, Usable, Preferred
<1> HIDE DEF nothing
<1> QED
  BY <1>1, <1>8, <1>9, <1>10 DEF VerdictInv

LEMMA VerdictStep ==
  ASSUME RunInv, PipelineLimits, VerdictInv, [Next]_vars
  PROVE  VerdictInv'
<1>1. CASE UNCHANGED vars
  <2>1. UNCHANGED <<pc, allow, blocked, outputs, result, evidence>>
    BY <1>1 DEF vars
  <2> QED
    BY <2>1, VerdictStays
<1>2. ASSUME NEW rejected, Setup(rejected) PROVE VerdictInv'
  BY <1>2 DEF Setup, Step, VerdictInv, Audited
<1>3. ASSUME NEW p, NEW v, Validate(p, v) PROVE VerdictInv'
  BY <1>3 DEF Validate, Step, VerdictInv, Audited
<1>4. CASE RunStages
  BY <1>4 DEF RunStages, Step, VerdictInv, Audited
<1>5. ASSUME NEW p, RequestAudit(p) PROVE VerdictInv'
  <2>1. /\ pc = "request_audit" /\ UNCHANGED <<allow, blocked, outputs, result, evidence>>
        /\ pc' \in {"raised", "finalize"}
    BY <1>5 DEF RequestAudit, Step, Engine
  <2> QED
    BY <2>1, VerdictStays DEF Audited
<1>6. ASSUME NEW p, Finalize(p) PROVE VerdictInv'
  <2>1. /\ pc = "finalize" /\ UNCHANGED <<allow, blocked, outputs, result, evidence>>
        /\ pc' \in {"raised", "manifest"}
    BY <1>6 DEF Finalize, Step, Engine
  <2> QED
    BY <2>1, VerdictStays DEF Audited
<1>7. CASE Manifest
  <2>1. /\ pc = "manifest" /\ UNCHANGED <<allow, blocked, outputs, result, evidence>>
        /\ pc' = "exited"
    BY <1>7 DEF Manifest, Step, Engine
  <2> QED
    BY <2>1, VerdictStays DEF Audited
<1>8. CASE WriteNext
  <2>1. UNCHANGED <<pc, allow, blocked, outputs, result, evidence>>
    BY <1>8 DEF WriteNext
  <2> QED
    BY <2>1, VerdictStays
<1>9. CASE Kill
  BY <1>9 DEF Kill, VerdictInv, Audited
<1> QED
  BY <1>1, <1>2, <1>3, <1>4, <1>5, <1>6, <1>7, <1>8, <1>9, JudgeVerdict,
     AuditEvidenceVerdict, DecideVerdict DEF Next

-----------------------------------------------------------------------------
(* The steps and the files.                                                *)

\* Files queued by a control step: what was queued last counts.
LEMMA QueuedOnDisk ==
  ASSUME NEW d, NEW f, NEW S, NEW q \in Seq(S), NEW i \in 1 .. Len(q), q[i].file = f,
         \A j \in 1 .. Len(q) : j > i => q[j].file # f
  PROVE  Leads(q, d, f, Written(q[i].content))
BY DEF Leads

LEMMA JudgeFiles ==
  ASSUME Judge
  PROVE  FilesInv'
<1>1. PICK best \in BestOutputs :
        /\ pc' = "gate" /\ result' = EnforceIntegrity(ExecutionResult(best))
        /\ writes' = EngineFiles(EnforceIntegrity(ExecutionResult(best)))
  BY DEF Judge, Step
<1> DEFINE r == EnforceIntegrity(ExecutionResult(best))
           q == EngineFiles(r)
<1>2. /\ Len(q) = 4 /\ q[4].file = "report" /\ q[4].content = r.answer
  BY DEF EngineFiles, Write
<1> HIDE DEF r, q
<1>3. Leads(q, disk', "report", Written(r.answer))
  BY <1>2 DEF Leads
<1> QED
  BY <1>1, <1>3 DEF FilesInv, Audited, q, r

LEMMA AuditEvidenceFiles ==
  ASSUME FilesInv, NEW verdict, AuditEvidence(verdict)
  PROVE  FilesInv'
<1>1. /\ pc = "gate" /\ pc' = "decide" /\ writes = <<>> /\ UNCHANGED <<result, disk>>
      /\ writes' = <<Write("evidence", verdict)>>
  BY DEF AuditEvidence, Step, Idle
<1>2. Len(writes') = 1 /\ writes'[1].file = "evidence"
  BY <1>1 DEF Write
<1>3. disk["report"] = Written(result.answer)
  BY <1>1, LeadsFromDisk DEF FilesInv
<1>4. Leads(writes', disk, "report", Written(result.answer))
  BY <1>2, <1>3 DEF Leads
<1> QED
  BY <1>1, <1>4 DEF FilesInv, Audited

LEMMA DecideFiles ==
  ASSUME RunInv, FilesInv, Decide
  PROVE  FilesInv'
<1> DEFINE reason == ConstitutionalFailure
           r == IF reason = "none" THEN result ELSE FailResult(result, reason)
<1>1. /\ pc = "decide" /\ pc' = "request_audit" /\ writes = <<>> /\ result' = r
      /\ UNCHANGED disk
      /\ writes' = Append(IF reason = "none" THEN <<>>
                          ELSE <<Write("summary", r), Write("report", "gate-failure")>>,
                          Write("summary", r))
  BY DEF Decide, Step, Idle
<1>2. disk["report"] = Written(result.answer)
  BY <1>1, LeadsFromDisk DEF FilesInv
<1>3. reason # "none" => r.status = "failed"
  BY DEF FailResult, RunInv, ResultType
<1>4. CASE reason = "none"
  <2>1. r = result /\ writes' = <<Write("summary", r)>>
    BY <1>1, <1>4
  <2> HIDE DEF r, reason
  <2>2. Len(writes') = 1 /\ writes'[1].file = "summary" /\ writes'[1].content = r
    BY <2>1 DEF Write
  <2>3. Leads(writes', disk, "report", Written(result.answer))
    BY <1>2, <2>2 DEF Leads
  <2>4. Leads(writes', disk, "summary", Written(r))
    BY <2>2 DEF Leads
  <2> QED
    BY <1>1, <2>1, <2>3, <2>4 DEF FilesInv, Audited, ReportTells
<1>5. CASE reason # "none"
  <2> DEFINE a == Write("summary", r)
             b == Write("report", "gate-failure")
  <2>1. writes' = Append(<<a, b>>, a)
    BY <1>1, <1>5
  <2>2. a.file = "summary" /\ a.content = r /\ b.file = "report" /\ b.content = "gate-failure"
    BY DEF Write
  <2> HIDE DEF a, b, r, reason
  <2>5. <<a, b>> \in Seq({a, b}) /\ Len(<<a, b>>) = 2 /\ <<a, b>>[2] = b
    OBVIOUS
  <2>6. Len(writes') = 3 /\ writes'[3] = a /\ writes'[2] = b
    BY <2>1, <2>5
  <2>3. Leads(writes', disk, "report", Written("gate-failure"))
    <3>1. \A j \in 1 .. Len(writes') : j > 2 => writes'[j].file # "report"
      BY <2>2, <2>6
    <3> QED
      BY <2>2, <2>6, <3>1 DEF Leads
  <2>4. Leads(writes', disk, "summary", Written(r))
    BY <2>2, <2>6 DEF Leads
  <2> QED
    BY <1>1, <1>3, <1>5, <2>3, <2>4 DEF FilesInv, Audited, ReportTells
<1> QED
  BY <1>4, <1>5

\* A step that queues files of one kind only leaves the others alone.
LEMMA OthersKept ==
  ASSUME writes = <<>>, UNCHANGED disk, NEW f, NEW c, Leads(writes, disk, f, c),
         \A i \in 1 .. Len(writes') : writes'[i].file # f
  PROVE  Leads(writes', disk', f, c)
<1>1. disk[f] = c
  BY LeadsFromDisk
<1> QED
  BY <1>1 DEF Leads

LEMMA RequestAuditFiles ==
  ASSUME FilesInv, NEW p, RequestAudit(p)
  PROVE  FilesInv'
<1>1. /\ pc = "request_audit" /\ pc' \in {"raised", "finalize"} /\ writes = <<>>
      /\ UNCHANGED <<result, disk>>
  BY DEF RequestAudit, Step, Idle
<1>2. \A i \in 1 .. Len(writes') : writes'[i].file = "audit"
  <2> DEFINE a == AuditRow(IF p = "request" THEN "FAIL" ELSE "PASS", "unknown")
             b == AuditRow(IF p = "provider" THEN "FAIL" ELSE "PASS", "unknown")
             c == AuditRow("PASS", KnobCoverage)
  <2>1. writes' \in {<<a>>, <<a, b>>, <<a, b, c>>, <<a, b, c, c>>}
    BY DEF RequestAudit, Step
  <2>2. a.file = "audit" /\ b.file = "audit" /\ c.file = "audit"
    BY DEF AuditRow, Write
  <2> HIDE DEF a, b, c
  <2>3. \A q \in {<<a>>, <<a, b>>, <<a, b, c>>, <<a, b, c, c>>} :
          \A i \in 1 .. Len(q) : q[i].file = "audit"
    BY <2>2
  <2> QED
    BY <2>1, <2>3
<1>3. CASE pc' = "raised"
  BY <1>3 DEF FilesInv, Audited
<1>4. CASE pc' = "finalize"
  <2>1. Leads(writes', disk', "summary", Written(result))
    BY <1>1, <1>2, OthersKept DEF FilesInv, Audited
  <2>2. ReportTells'
    BY <1>1, <1>2, OthersKept DEF FilesInv, Audited, ReportTells
  <2> QED
    BY <1>1, <1>4, <2>1, <2>2 DEF FilesInv, Audited
<1> QED
  BY <1>1, <1>3, <1>4

LEMMA FinalizeFiles ==
  ASSUME FilesInv, NEW p, Finalize(p)
  PROVE  FilesInv'
<1> DEFINE q == <<Write("result", result), Write("summary", result)>>
<1>1. /\ pc = "finalize" /\ writes = <<>> /\ UNCHANGED <<result, disk>>
      /\ \/ pc' = "raised"
         \/ pc' = "manifest" /\ writes' = q
  BY DEF Finalize, Step, Idle
<1>2. CASE pc' = "raised"
  BY <1>2 DEF FilesInv, Audited
<1>3. CASE pc' = "manifest" /\ writes' = q
  <2>1. /\ Len(q) = 2 /\ q[1].file = "result" /\ q[1].content = result
        /\ q[2].file = "summary" /\ q[2].content = result
    BY DEF Write
  <2> HIDE DEF q
  <2>2. \A i \in 1 .. Len(q) : i = 1 \/ i = 2
    BY <2>1
  <2>3. Leads(q, disk, "summary", Written(result))
    BY <2>1 DEF Leads
  <2>4. Leads(q, disk, "result", Written(result))
    BY <2>1, <2>2 DEF Leads
  <2>5. ReportTells'
    BY <1>1, <1>3, <2>1, <2>2, OthersKept DEF FilesInv, Audited, ReportTells
  <2> QED
    BY <1>1, <1>3, <2>3, <2>4, <2>5 DEF FilesInv, Audited
<1> QED
  BY <1>1, <1>2, <1>3

LEMMA ManifestFiles ==
  ASSUME FilesInv, Manifest
  PROVE  FilesInv'
<1> DEFINE m == [f \in File \ {"manifest"} |-> disk[f]]
           q == <<Write("manifest", m), Write("selection", "annotated"),
                  Write("graph", "annotated")>>
<1>1. /\ pc = "manifest" /\ pc' = "exited" /\ writes = <<>> /\ writes' = q
      /\ UNCHANGED <<result, disk>>
  BY DEF Manifest, Step, Idle
<1>2. \A f \in File \ Unhashed : m[f] = disk'[f]
  BY <1>1 DEF Unhashed
<1> HIDE DEF m
<1>3. /\ Len(q) = 3 /\ q[1].file = "manifest" /\ q[1].content = m
      /\ q[2].file = "selection" /\ q[3].file = "graph"
  BY DEF Write
<1> HIDE DEF q
<1>4. \A i \in 1 .. Len(q) : i = 1 \/ i = 2 \/ i = 3
  BY <1>3
<1>5. Leads(q, disk', "manifest", Written(m))
  BY <1>3, <1>4 DEF Leads
<1>6. \A i \in 1 .. Len(writes') : writes'[i].file \in Unhashed
  BY <1>1, <1>3, <1>4 DEF Unhashed
<1>7. /\ Leads(writes', disk', "summary", Written(result))
      /\ Leads(writes', disk', "result", Written(result))
  BY <1>1, <1>6, OthersKept DEF FilesInv, Audited, Unhashed
<1>8. ReportTells'
  BY <1>1, <1>6, OthersKept DEF FilesInv, Audited, ReportTells, Unhashed
<1> QED
  BY <1>1, <1>2, <1>5, <1>6, <1>7, <1>8 DEF FilesInv, Audited

LEMMA WriteNextFiles ==
  ASSUME RunInv, FilesInv, WriteNext
  PROVE  FilesInv'
<1>1. /\ writes # <<>> /\ writes' = Tail(writes) /\ UNCHANGED <<pc, result>>
      /\ disk' = [disk EXCEPT ![Head(writes).file] = Written(Head(writes).content)]
  BY DEF WriteNext, Idle
<1>2. PICK S : writes \in Seq(S)
  BY DEF RunInv, Queue
<1>3. ASSUME NEW f \in File, NEW c, Leads(writes, disk, f, c)
      PROVE  Leads(writes', disk', f, c)
  BY <1>1, <1>2, <1>3, LeadsOnWrite DEF RunInv, TypeOK
<1>4. Audited => ReportTells' /\ Leads(writes', disk', "summary", Written(result))
  BY <1>1, <1>3, FileNames DEF FilesInv, ReportTells
<1>5. pc \in {"manifest", "exited"} => Leads(writes', disk', "result", Written(result))
  BY <1>3, FileNames DEF FilesInv
<1>6. pc \in {"gate", "decide"} => Leads(writes', disk', "report", Written(result.answer))
  BY <1>3, FileNames DEF FilesInv
<1>7. ASSUME pc = "exited"
      PROVE  /\ \A i \in 1 .. Len(writes') : writes'[i].file \in Unhashed
             /\ \E m : Leads(writes', disk', "manifest", Written(m))
                       /\ \A f \in File \ Unhashed : m[f] = disk'[f]
  <2>1. \A i \in 1 .. Len(writes) : writes[i].file \in Unhashed
    BY <1>7 DEF FilesInv
  <2>2. PICK m : /\ Leads(writes, disk, "manifest", Written(m))
                 /\ \A f \in File \ Unhashed : m[f] = disk[f]
    BY <1>7 DEF FilesInv
  <2>3. /\ Len(writes) \in Nat /\ Len(writes) > 0 /\ Len(writes') = Len(writes) - 1
        /\ Head(writes) = writes[1]
        /\ \A i \in 1 .. Len(writes) - 1 : writes'[i] = writes[i + 1]
    BY <1>1, <1>2
  <2>4. Head(writes).file \in Unhashed
    BY <2>1, <2>3
  <2>5. \A i \in 1 .. Len(writes') : writes'[i].file \in Unhashed
    BY <2>1, <2>3
  <2>6. \A f \in File \ Unhashed : disk'[f] = disk[f]
    BY <1>1, <2>4 DEF RunInv, TypeOK
  <2>7. Leads(writes', disk', "manifest", Written(m))
    BY <1>3, <2>2, FileNames
  <2> QED
    BY <2>2, <2>5, <2>6, <2>7
<1> QED
  BY <1>1, <1>4, <1>5, <1>6, <1>7 DEF FilesInv, Audited

LEMMA FilesStep ==
  ASSUME RunInv, FilesInv, [Next]_vars
  PROVE  FilesInv'
<1>1. CASE UNCHANGED vars
  BY <1>1 DEF vars, FilesInv, Audited, ReportTells, Leads
<1>2. ASSUME NEW rejected, Setup(rejected) PROVE FilesInv'
  BY <1>2 DEF Setup, Step, FilesInv, Audited
<1>3. ASSUME NEW p, NEW v, Validate(p, v) PROVE FilesInv'
  BY <1>3 DEF Validate, Step, FilesInv, Audited
<1>4. CASE RunStages
  BY <1>4 DEF RunStages, Step, FilesInv, Audited
<1>5. CASE Kill
  BY <1>5 DEF Kill, FilesInv, Audited
<1> QED
  BY <1>1, <1>2, <1>3, <1>4, <1>5, JudgeFiles, AuditEvidenceFiles, DecideFiles,
     RequestAuditFiles, FinalizeFiles, ManifestFiles, WriteNextFiles DEF Next

LEMMA FilesInvariant == Spec => []FilesInv
<1>1. Init => FilesInv
  BY DEF Init, FilesInv, Audited
<1>2. RunInv /\ FilesInv /\ [Next]_vars => FilesInv'
  BY FilesStep
<1> QED
  BY <1>1, <1>2, RunInvariant, PTL DEF Spec

LEMMA OnDisk ==
  ASSUME Idle, NEW f, NEW c, Leads(writes, disk, f, c)
  PROVE  disk[f] = c
BY LeadsFromDisk DEF Idle

\* ExitConsistent, whatever the limits and the graph: the manifest is true of
\* every file but the two rewritten after it, and result, summary and report
\* tell of one answer (main, write_manifest and _rewrite_static_artifacts).
THEOREM ExitSafe == Spec => []ExitConsistent
<1>1. FilesInv => ExitConsistent
  <2> SUFFICES ASSUME FilesInv, pc = "exited", Idle
               PROVE  /\ \A f \in File \ Unhashed : disk["manifest"].value[f] = disk[f]
                      /\ disk["result"] = disk["summary"]
                      /\ \/ disk["report"].value = Summary.answer
                         \/ /\ disk["report"].value = "gate-failure"
                            /\ Summary.status = "failed"
    BY DEF ExitConsistent, Unhashed
  <2>1. disk["summary"] = Written(result) /\ disk["result"] = Written(result)
    BY OnDisk DEF FilesInv, Audited
  <2>2. PICK m : /\ disk["manifest"] = Written(m)
                 /\ \A f \in File \ Unhashed : m[f] = disk[f]
    BY OnDisk DEF FilesInv
  <2>3. Summary = result
    BY <2>1 DEF Summary, Written
  <2>4. \/ disk["report"] = Written(result.answer)
        \/ disk["report"] = Written("gate-failure") /\ result.status = "failed"
    BY OnDisk DEF FilesInv, Audited, ReportTells
  <2> QED
    BY <2>1, <2>2, <2>3, <2>4 DEF Written
<1> QED
  BY <1>1, FilesInvariant, PTL

LEMMA VerdictInvariant == PipelineLimits => (Spec => []VerdictInv)
<1> SUFFICES ASSUME PipelineLimits PROVE Spec => []VerdictInv
  OBVIOUS
<1>1. Init => VerdictInv
  BY DEF Init, VerdictInv, Audited
<1>2. RunInv /\ VerdictInv /\ [Next]_vars => VerdictInv'
  BY VerdictStep
<1> QED
  BY <1>1, <1>2, RunInvariant, PTL DEF Spec

\* OneStory, for every graph under the limits the pipeline's materializer sets:
\* past the gate status, mode and quality agree, a degraded success is allowed,
\* whole, audited and not empty, an exhausted account is blamed, and the files
\* left behind agree (v5_quality_status_integrity, _constitutional_failure_reason).
\* With a minimum of its own a failed run would keep the mode degraded.
THEOREM OneStorySafe == PipelineLimits => (Spec => []OneStory)
<1> SUFFICES ASSUME PipelineLimits PROVE Spec => []OneStory
  OBVIOUS
<1>1. FilesInv /\ VerdictInv => VerdictAgrees /\ CreditCauseKept
  <2> SUFFICES ASSUME FilesInv, VerdictInv, Gated PROVE VerdictAgrees /\ CreditCauseKept
    BY DEF VerdictAgrees, CreditCauseKept
  <2>1. Audited /\ Idle
    BY DEF Gated, Audited
  <2>2. Summary = result
    BY <2>1, OnDisk DEF FilesInv, Summary, Written
  <2>3. Told(result)
    BY <2>1 DEF VerdictInv
  <2>4. VerdictAgrees
    BY <2>1, <2>2, <2>3 DEF VerdictInv, VerdictAgrees, Told, Verdicts
  <2>5. CreditCauseKept
    BY <2>1, <2>2, <2>3 DEF VerdictInv, CreditCauseKept, Told
  <2> QED
    BY <2>4, <2>5
<1> QED
  BY <1>1, FilesInvariant, VerdictInvariant, ExitSafe, PTL DEF OneStory

(***************************************************************************)
(* What the comments on the issues say of the runs, for every number of    *)
(* runs, issues and chunks and whatever the reclaimer does meanwhile.      *)
(***************************************************************************)

BotComment == [marker: Markers \cup {"EXECUTION_ACCEPTED"}, run: Run]

StepNames == {"none", "setup", "receipt", "execute", "deliver", "evidence",
              "terminal", "ended"}

ClaimNames == {"none", "torn", "full", "degraded", "failed"}

\* The types the comments and the runs need; what is posted and swept is apart.
RunTypes ==
  /\ IssueOf \in [Run -> 1 .. Issue]
  /\ step \in [Run -> StepNames]
  /\ ok \in [Run -> BOOLEAN] /\ accepted \in [Run -> BOOLEAN]
  /\ artifact \in [Run -> BOOLEAN]
  /\ claim \in [Run -> ClaimNames]

CommentTypes == comments \in [1 .. Issue -> Seq(BotComment)]

Places_(i) == 1 .. Len(comments[i])

\* The delivery and the terminal are reached by accepted runs only.
AcceptedSteps ==
  \A r \in Run : step[r] \in {"execute", "deliver", "terminal"} => accepted[r]

\* A run that has given its terminal comment gives no other.
Finished(r) == step[r] = "ended" \/ (step[r] = "evidence" /\ ~accepted[r])

TerminalsFinished ==
  \A i \in 1 .. Issue : \A k \in Places_(i) :
    comments[i][k].marker \in Markers =>
      IssueOf[comments[i][k].run] = i /\ Finished(comments[i][k].run)

TerminalsUnique ==
  \A i \in 1 .. Issue : \A k, l \in Places_(i) :
    /\ comments[i][k].marker \in Markers
    /\ comments[i][l].marker \in Markers
    /\ comments[i][k].run = comments[i][l].run
    => k = l

\* A run that got to its end without a failure has answered.
Answered ==
  \A r \in Run :
    Finished(r) /\ ok[r] =>
      \E k \in Places_(IssueOf[r]) :
        comments[IssueOf[r]][k].marker \in Markers /\ comments[IssueOf[r]][k].run = r

CompletedBacked ==
  \A i \in 1 .. Issue : \A k \in Places_(i) :
    comments[i][k].marker = "EXECUTION_COMPLETED" =>
      LET r == comments[i][k].run
      IN  step[r] = "ended" /\ claim[r] = "full" /\ artifact[r]

TicketInv ==
  /\ RunTypes /\ CommentTypes /\ AcceptedSteps
  /\ TerminalsFinished /\ TerminalsUnique /\ Answered /\ CompletedBacked

LEMMA TicketStarts == TicketInit => TicketInv
<1> SUFFICES ASSUME TicketInit PROVE TicketInv
  OBVIOUS
<1>1. RunTypes /\ CommentTypes /\ AcceptedSteps
  BY TicketAssumption DEF TicketInit, RunTypes, CommentTypes, AcceptedSteps, StepNames, ClaimNames
<1>2. \A i \in 1 .. Issue : Places_(i) = {}
  BY TicketAssumption DEF TicketInit, Places_
<1>3. \A r \in Run : ~Finished(r)
  BY DEF TicketInit, Finished
<1> QED
  BY <1>1, <1>2, <1>3 DEF TicketInv, TerminalsFinished, TerminalsUnique, Answered,
     CompletedBacked

-----------------------------------------------------------------------------
LEMMA CommentsTyped ==
  ASSUME CommentTypes
  PROVE  \A i \in 1 .. Issue : \A k \in Places_(i) :
           comments[i][k] \in BotComment /\ comments[i][k].run \in Run
<1> SUFFICES ASSUME NEW i \in 1 .. Issue, NEW k \in Places_(i)
             PROVE  comments[i][k] \in BotComment /\ comments[i][k].run \in Run
  OBVIOUS
<1>1. comments[i] \in Seq(BotComment)
  BY DEF CommentTypes
<1>2. comments[i][k] \in BotComment
  BY <1>1 DEF Places_
<1> QED
  BY <1>2 DEF BotComment

\* A run that does not speak moves on without losing what the comments say of
\* it: the steps of one run that leave the comments alone.
LEMMA SilentStep ==
  ASSUME TicketInv, NEW r \in Run, UNCHANGED <<IssueOf, comments>>,
         RunTypes', step[r] # "ended",
         \A q \in Run \ {r} : /\ step'[q] = step[q] /\ ok'[q] = ok[q]
                              /\ accepted'[q] = accepted[q] /\ claim'[q] = claim[q]
                              /\ artifact'[q] = artifact[q],
         step'[r] \in {"execute", "deliver", "terminal"} => accepted'[r],
         Finished(r) => Finished(r)' /\ (ok'[r] => ok[r]),
         Finished(r)' /\ ok'[r] => Finished(r)
  PROVE  TicketInv'
<1>1. CommentTypes'
  BY DEF TicketInv, CommentTypes
<1>2. AcceptedSteps'
  BY DEF TicketInv, AcceptedSteps
<1>3. \A q \in Run \ {r} : Finished(q)' = Finished(q)
  BY DEF Finished
<1>4. \A i \in 1 .. Issue : \A k \in Places_(i) : comments[i][k].run \in Run
  BY CommentsTyped DEF TicketInv
<1>5. TerminalsFinished'
  <2> SUFFICES ASSUME NEW i \in 1 .. Issue, NEW k \in Places_(i),
                      comments[i][k].marker \in Markers
               PROVE  IssueOf[comments[i][k].run] = i /\ Finished(comments[i][k].run)'
    BY DEF TerminalsFinished, Places_, Finished
  <2>1. IssueOf[comments[i][k].run] = i /\ Finished(comments[i][k].run)
    BY DEF TicketInv, TerminalsFinished
  <2>2. CASE comments[i][k].run = r
    BY <2>1, <2>2 DEF Finished
  <2>3. CASE comments[i][k].run # r
    BY <2>1, <2>3, <1>4 DEF Finished
  <2> QED
    BY <2>2, <2>3
<1>6. TerminalsUnique'
  BY DEF TicketInv, TerminalsUnique, Places_
<1>7. Answered'
  <2> SUFFICES ASSUME NEW q \in Run, Finished(q)', ok'[q]
               PROVE  \E k \in Places_(IssueOf[q]) :
                        /\ comments[IssueOf[q]][k].marker \in Markers
                        /\ comments[IssueOf[q]][k].run = q
    BY DEF Answered, Places_, Finished
  <2>1. Finished(q) /\ ok[q]
    BY <1>3 DEF Finished
  <2> QED
    BY <2>1 DEF TicketInv, Answered
<1>8. CompletedBacked'
  <2> SUFFICES ASSUME NEW i \in 1 .. Issue, NEW k \in Places_(i),
                      comments[i][k].marker = "EXECUTION_COMPLETED"
               PROVE  LET q == comments[i][k].run
                      IN  step'[q] = "ended" /\ claim'[q] = "full" /\ artifact'[q]
    BY DEF CompletedBacked, Places_
  <2> QED
    BY <1>4 DEF TicketInv, CompletedBacked
<1> QED
  BY <1>1, <1>2, <1>5, <1>6, <1>7, <1>8 DEF TicketInv

\* A run that speaks: what the issue holds afterwards.
LEMMA Spoken ==
  ASSUME CommentTypes, NEW r \in Run, IssueOf \in [Run -> 1 .. Issue],
         NEW marker \in Markers \cup {"EXECUTION_ACCEPTED"}, Comment(r, marker)
  PROVE  /\ CommentTypes'
         /\ \A i \in 1 .. Issue \ {IssueOf[r]} : comments'[i] = comments[i]
         /\ Len(comments'[IssueOf[r]]) = Len(comments[IssueOf[r]]) + 1
         /\ \A k \in 1 .. Len(comments[IssueOf[r]]) :
              comments'[IssueOf[r]][k] = comments[IssueOf[r]][k]
         /\ comments'[IssueOf[r]][Len(comments[IssueOf[r]]) + 1]
              = [marker |-> marker, run |-> r]
         /\ Len(comments[IssueOf[r]]) \in Nat
<1> DEFINE i == IssueOf[r]
           new == [marker |-> marker, run |-> r]
<1>1. i \in 1 .. Issue /\ comments[i] \in Seq(BotComment)
  BY DEF CommentTypes
<1>2. new \in BotComment
  BY DEF BotComment
<1>3. comments' = [comments EXCEPT ![i] = Append(comments[i], new)]
  BY DEF Comment
<1> HIDE DEF i, new
<1>4. /\ Append(comments[i], new) \in Seq(BotComment)
      /\ Len(Append(comments[i], new)) = Len(comments[i]) + 1
      /\ \A k \in 1 .. Len(comments[i]) : Append(comments[i], new)[k] = comments[i][k]
      /\ Append(comments[i], new)[Len(comments[i]) + 1] = new
      /\ Len(comments[i]) \in Nat
  BY <1>1, <1>2
<1>5. comments'[i] = Append(comments[i], new)
  BY <1>1, <1>3 DEF CommentTypes
<1>6. CommentTypes'
  BY <1>1, <1>3, <1>4 DEF CommentTypes
<1>7. \A j \in 1 .. Issue \ {i} : comments'[j] = comments[j]
  BY <1>1, <1>3 DEF CommentTypes
<1> QED
  BY <1>4, <1>5, <1>6, <1>7 DEF i, new

\* The comment of a run that speaks: an acceptance on the way to its execution,
\* or its one terminal comment.
LEMMA SpeakingStep ==
  ASSUME TicketInv, NEW r \in Run, UNCHANGED <<IssueOf, ok, accepted, artifact, claim>>,
         NEW marker \in Markers \cup {"EXECUTION_ACCEPTED"}, Comment(r, marker),
         NEW next \in StepNames, step' = [step EXCEPT ![r] = next],
         step[r] \in {"receipt", "terminal"},
         marker = "EXECUTION_ACCEPTED" => next = "execute" /\ accepted[r],
         marker \in Markers =>
           next = "ended" \/ (next = "evidence" /\ ~accepted[r]),
         marker = "EXECUTION_COMPLETED" =>
           next = "ended" /\ claim[r] = "full" /\ artifact[r]
  PROVE  TicketInv'
<1>a. PICK j \in 1 .. Issue : j = IssueOf[r]
  BY DEF TicketInv, RunTypes
<1>b. PICK last : last = Len(comments[j]) + 1
  OBVIOUS
<1>1. /\ CommentTypes'
      /\ \A i \in 1 .. Issue \ {j} : comments'[i] = comments[i]
      /\ Len(comments'[j]) = last
      /\ \A k \in 1 .. Len(comments[j]) : comments'[j][k] = comments[j][k]
      /\ comments'[j][last] = [marker |-> marker, run |-> r]
      /\ Len(comments[j]) \in Nat /\ j \in 1 .. Issue
  BY <1>a, <1>b, Spoken DEF TicketInv, RunTypes
<1>2. RunTypes'
  BY DEF TicketInv, RunTypes
<1>3. AcceptedSteps'
  BY DEF TicketInv, AcceptedSteps, RunTypes, Markers
<1>4. /\ step'[r] = next /\ ~Finished(r)
      /\ \A q \in Run \ {r} : step'[q] = step[q] /\ Finished(q)' = Finished(q)
  BY DEF TicketInv, RunTypes, Finished
\* Every comment of the next state is an old one or the new one.
<1>5. ASSUME NEW i \in 1 .. Issue, NEW k \in Places_(i)'
      PROVE  \/ k \in Places_(i) /\ comments'[i][k] = comments[i][k]
             \/ i = j /\ k = last /\ comments'[i][k] = [marker |-> marker, run |-> r]
  <2>1. CASE i = j
    BY <1>1, <1>b, <2>1 DEF Places_
  <2>2. CASE i # j
    BY <1>1, <2>2 DEF Places_
  <2> QED
    BY <2>1, <2>2
\* Nothing terminal was said by this run before.
<1>6. \A i \in 1 .. Issue : \A k \in Places_(i) :
        comments[i][k].marker \in Markers =>
          comments[i][k].run \in Run \ {r} /\ IssueOf[comments[i][k].run] = i
  BY <1>4, CommentsTyped DEF TicketInv, TerminalsFinished
<1>7. TerminalsFinished'
  <2> SUFFICES ASSUME NEW i \in 1 .. Issue, NEW k \in Places_(i)',
                      comments'[i][k].marker \in Markers
               PROVE  LET q == comments'[i][k].run
                      IN  /\ IssueOf[q] = i
                          /\ step'[q] = "ended" \/ (step'[q] = "evidence" /\ ~accepted[q])
    BY DEF TerminalsFinished, Places_, Finished
  <2>1. CASE k \in Places_(i) /\ comments'[i][k] = comments[i][k]
    <3>1. comments[i][k].run \in Run \ {r} /\ IssueOf[comments[i][k].run] = i
      BY <1>6, <2>1
    <3>2. Finished(comments[i][k].run)
      BY <2>1 DEF TicketInv, TerminalsFinished
    <3>3. step'[comments[i][k].run] = step[comments[i][k].run]
      BY <1>4, <3>1
    <3> QED
      BY <2>1, <3>1, <3>2, <3>3 DEF Finished
  <2>2. CASE i = j /\ k = last /\ comments'[i][k] = [marker |-> marker, run |-> r]
    BY <1>4, <1>a, <2>2
  <2> QED
    BY <1>5, <2>1, <2>2
<1>8. TerminalsUnique'
  <2> SUFFICES ASSUME NEW i \in 1 .. Issue, NEW k \in Places_(i)', NEW l \in Places_(i)',
                      comments'[i][k].marker \in Markers,
                      comments'[i][l].marker \in Markers,
                      comments'[i][k].run = comments'[i][l].run
               PROVE  k = l
    BY DEF TerminalsUnique, Places_
  <2>1. \/ k \in Places_(i) /\ comments'[i][k] = comments[i][k]
        \/ k = last /\ comments'[i][k].run = r
    BY <1>5
  <2>2. \/ l \in Places_(i) /\ comments'[i][l] = comments[i][l]
        \/ l = last /\ comments'[i][l].run = r
    BY <1>5
  <2> QED
    BY <1>6, <2>1, <2>2 DEF TicketInv, TerminalsUnique
<1>9. Answered'
  <2> SUFFICES ASSUME NEW q \in Run, Finished(q)', ok[q]
               PROVE  \E k \in Places_(IssueOf[q])' :
                        /\ comments'[IssueOf[q]][k].marker \in Markers
                        /\ comments'[IssueOf[q]][k].run = q
    BY DEF Answered, Places_, Finished
  <2>1. CASE q = r
    <3>1. marker \in Markers
      BY <1>4, <2>1 DEF Finished, Markers
    <3>2. last \in Places_(j)' /\ comments'[j][last].marker = marker
            /\ comments'[j][last].run = r
      BY <1>1, <1>b DEF Places_
    <3> QED
      BY <1>a, <2>1, <3>1, <3>2
  <2>2. CASE q # r
    <3>1. PICK k \in Places_(IssueOf[q]) :
            comments[IssueOf[q]][k].marker \in Markers /\ comments[IssueOf[q]][k].run = q
      BY <1>4, <2>2 DEF TicketInv, Answered
    <3>2. IssueOf[q] \in 1 .. Issue
      BY DEF TicketInv, RunTypes
    <3>3. k \in Places_(IssueOf[q])' /\ comments'[IssueOf[q]][k] = comments[IssueOf[q]][k]
      <4>1. k \in 1 .. Len(comments[IssueOf[q]])
        BY <3>1 DEF Places_
      <4>2. CASE IssueOf[q] = j
        BY <1>1, <1>b, <4>1, <4>2 DEF Places_
      <4>3. CASE IssueOf[q] # j
        BY <1>1, <3>2, <4>1, <4>3 DEF Places_
      <4> QED
        BY <4>2, <4>3
    <3> QED
      BY <3>1, <3>3
  <2> QED
    BY <2>1, <2>2
<1>10. CompletedBacked'
  <2> SUFFICES ASSUME NEW i \in 1 .. Issue, NEW k \in Places_(i)',
                      comments'[i][k].marker = "EXECUTION_COMPLETED"
               PROVE  LET q == comments'[i][k].run
                      IN  step'[q] = "ended" /\ claim[q] = "full" /\ artifact[q]
    BY DEF CompletedBacked, Places_
  <2>1. CASE k \in Places_(i) /\ comments'[i][k] = comments[i][k]
    <3>1. comments[i][k].run \in Run \ {r}
      BY <1>6, <2>1 DEF Markers
    <3> QED
      BY <1>4, <2>1, <3>1 DEF TicketInv, CompletedBacked
  <2>2. CASE i = j /\ k = last /\ comments'[i][k] = [marker |-> marker, run |-> r]
    BY <1>4, <2>2
  <2> QED
    BY <1>5, <2>1, <2>2
<1> QED
  BY <1>1, <1>2, <1>3, <1>7, <1>8, <1>9, <1>10 DEF TicketInv

-----------------------------------------------------------------------------
LEMMA PrepareBoolean ==
  ASSUME NEW i, NEW v \in BOOLEAN PROVE (Hydrated(i) /\ v) \in BOOLEAN
OBVIOUS

\* Every step of a job either moves silently or speaks.
LEMMA JobStep ==
  ASSUME TicketInv, NEW r \in Run, Job(r) \/ Lose(r) \/ Command(r)
  PROVE  TicketInv'
<1> USE DEF StepNames, ClaimNames
<1>0. RunTypes
  BY DEF TicketInv
<1>1. CASE Command(r)
  <2>1. step[r] = "none" /\ step' = [step EXCEPT ![r] = "setup"]
    BY <1>1 DEF Command
  <2> QED
    BY <1>0, <1>1, <2>1, SilentStep DEF Command, RunTypes, Finished, issue_vars
<1>2. ASSUME NEW v \in BOOLEAN, Prepare(r, v)
      PROVE  TicketInv'
  <2>1. step[r] = "setup" /\ (step'[r] = "receipt" \/ (step'[r] = "evidence" /\ ok'[r] = FALSE))
    BY <1>0, <1>2 DEF Prepare, At, Goto, Fail, RunTypes
  <2>2. RunTypes'
    BY <1>0, <1>2, PrepareBoolean DEF Prepare, At, Goto, Fail, RunTypes
  <2>3. \A q \in Run \ {r} : step'[q] = step[q] /\ ok'[q] = ok[q] /\ accepted'[q] = accepted[q]
    BY <1>0, <1>2 DEF Prepare, At, Goto, Fail, RunTypes
  <2> QED
    BY <1>0, <1>2, <2>1, <2>2, <2>3, SilentStep DEF Prepare, Finished, issue_vars
<1>3. CASE Receipt(r)
  <2> DEFINE marker == IF accepted[r] THEN "EXECUTION_ACCEPTED" ELSE "EXECUTION_REJECTED"
             next == IF accepted[r] THEN "execute" ELSE "evidence"
  <2>1. Comment(r, marker) /\ step' = [step EXCEPT ![r] = next]
    BY <1>3 DEF Receipt, Goto
  <2>2. /\ marker \in Markers \cup {"EXECUTION_ACCEPTED"} /\ next \in StepNames
        /\ marker = "EXECUTION_ACCEPTED" => next = "execute" /\ accepted[r]
        /\ marker \in Markers => next = "evidence" /\ ~accepted[r]
        /\ marker # "EXECUTION_COMPLETED"
    BY DEF Markers
  <2> HIDE DEF marker, next
  <2>3. step[r] = "receipt" /\ UNCHANGED <<IssueOf, ok, accepted, artifact, claim>>
    BY <1>3 DEF Receipt, At
  <2> QED
    BY <2>1, <2>2, <2>3, SpeakingStep
<1>4. CASE ReceiptFails(r)
  <2>1. /\ step[r] = "receipt" /\ ok'[r] = FALSE
        /\ step'[r] = (IF accepted[r] THEN "deliver" ELSE "evidence")
    BY <1>0, <1>4 DEF ReceiptFails, At, Goto, Fail, RunTypes
  <2>2. RunTypes'
    BY <1>0, <1>4 DEF ReceiptFails, At, Goto, Fail, RunTypes
  <2>3. \A q \in Run \ {r} : step'[q] = step[q] /\ ok'[q] = ok[q]
    BY <1>0, <1>4 DEF ReceiptFails, At, Goto, Fail, RunTypes
  <2> QED
    BY <1>4, <2>1, <2>2, <2>3, SilentStep DEF ReceiptFails, Finished, issue_vars
<1>5. CASE Execute(r)
  <2>1. /\ step[r] = "execute" /\ step'[r] \in {"execute", "deliver"}
        /\ \A q \in Run \ {r} : step'[q] = step[q] /\ claim'[q] = claim[q]
        /\ UNCHANGED <<IssueOf, ok, accepted, artifact, comments>>
    BY <1>0, <1>5 DEF Execute, At, Goto, RunTypes, issue_vars
  <2>2. claim' \in [Run -> ClaimNames]
    BY <1>0, <1>5 DEF Execute, RunTypes, Process!Claims
  <2>3. RunTypes'
    BY <1>0, <1>5, <2>2 DEF Execute, At, Goto, RunTypes
  <2>4. accepted[r]
    BY <2>1 DEF TicketInv, AcceptedSteps
  <2> QED
    BY <2>1, <2>3, <2>4, SilentStep DEF Finished
<1>6. CASE Deliver(r)
  <2>1. /\ step[r] = "deliver" /\ step'[r] = "evidence"
        /\ \A q \in Run \ {r} : step'[q] = step[q] /\ ok'[q] = ok[q]
    BY <1>0, <1>6 DEF Deliver, At, Goto, Fail, RunTypes
  <2>2. RunTypes'
    BY <1>0, <1>6 DEF Deliver, At, Goto, Fail, RunTypes
  <2>3. accepted[r]
    BY <2>1 DEF TicketInv, AcceptedSteps
  <2> QED
    BY <1>6, <2>1, <2>2, <2>3, SilentStep DEF Deliver, Finished, issue_vars
<1>7. CASE Evidence(r)
  <2>1. /\ step[r] = "evidence"
        /\ step'[r] = (IF accepted[r] THEN "terminal" ELSE "ended")
        /\ \A q \in Run \ {r} : /\ step'[q] = step[q] /\ ok'[q] = ok[q]
                                /\ artifact'[q] = artifact[q]
        /\ ok'[r] => ok[r]
    BY <1>0, <1>7 DEF Evidence, At, Goto, Fail, RunTypes
  <2>2. RunTypes'
    BY <1>0, <1>7 DEF Evidence, At, Goto, Fail, RunTypes
  <2> QED
    BY <1>7, <2>1, <2>2, SilentStep DEF Evidence, Finished, issue_vars
<1>8. CASE Terminal(r)
  <2>1. step[r] = "terminal" /\ step' = [step EXCEPT ![r] = "ended"]
    BY <1>8 DEF Terminal, At, Goto
  <2>2. CASE UNCHANGED comments /\ Fail(r)
    <3>1. RunTypes' /\ ok'[r] = FALSE /\ \A q \in Run \ {r} : ok'[q] = ok[q]
      BY <1>0, <1>8, <2>1, <2>2 DEF Terminal, Fail, RunTypes
    <3>2. step'[r] = "ended" /\ \A q \in Run \ {r} : step'[q] = step[q]
      BY <1>0, <2>1 DEF RunTypes
    <3>3. accepted[r]
      BY <2>1 DEF TicketInv, AcceptedSteps
    <3> QED
      BY <1>8, <2>1, <2>2, <3>1, <3>2, <3>3, SilentStep DEF Terminal, Finished
  <2>3. CASE TerminalHeading(r) # "none" /\ Comment(r, TerminalHeading(r)) /\ UNCHANGED ok
    <3>1. /\ TerminalHeading(r) \in Markers
          /\ TerminalHeading(r) = "EXECUTION_COMPLETED" => claim[r] = "full" /\ artifact[r]
      BY <2>3 DEF TerminalHeading, Process!Heading, Markers
    <3>2. UNCHANGED <<IssueOf, ok, accepted, artifact, claim>>
      BY <1>8, <2>3 DEF Terminal
    <3>3. TerminalHeading(r) # "EXECUTION_ACCEPTED"
      BY <3>1 DEF Markers
    <3> QED
      BY <2>1, <2>3, <3>1, <3>2, <3>3, SpeakingStep
  <2> QED
    BY <1>8, <2>2, <2>3 DEF Terminal
<1>9. CASE Lose(r)
  <2>1. /\ step[r] # "ended" /\ step'[r] = "ended" /\ ok'[r] = FALSE
        /\ \A q \in Run \ {r} : step'[q] = step[q] /\ ok'[q] = ok[q]
    BY <1>0, <1>9 DEF Lose, Goto, Fail, RunTypes
  <2>2. RunTypes'
    BY <1>0, <1>9 DEF Lose, Goto, Fail, RunTypes
  <2> QED
    BY <1>9, <2>1, <2>2, SilentStep DEF Lose, Finished, issue_vars
<1> QED
  BY <1>1, <1>2, <1>3, <1>4, <1>5, <1>6, <1>7, <1>8, <1>9 DEF Job

-----------------------------------------------------------------------------
\* The steps of the others leave the runs and what they said alone.
LEMMA OtherStep ==
  ASSUME TicketInv, UNCHANGED <<IssueOf, step, ok, accepted, artifact, claim, comments>>
  PROVE  TicketInv'
BY DEF TicketInv, RunTypes, CommentTypes, AcceptedSteps, TerminalsFinished,
       TerminalsUnique, Answered, CompletedBacked, Finished, Places_

LEMMA TicketStep == TicketInv /\ [NextTicket]_ticketVars => TicketInv'
<1> SUFFICES ASSUME TicketInv, [NextTicket]_ticketVars PROVE TicketInv'
  OBVIOUS
<1>1. ASSUME NEW r \in Run, Command(r) \/ Job(r) \/ Lose(r) PROVE TicketInv'
  BY <1>1, JobStep
<1>2. ASSUME NEW i \in 1 .. Issue, PostChunk(i) \/ Inspect(i) \/ CloseIssue(i) PROVE TicketInv'
  BY <1>2, OtherStep DEF PostChunk, Inspect, CloseIssue, run_vars, issue_vars
<1>3. ASSUME NEW p \in 1 .. MaxPages, ListPage(p) PROVE TicketInv'
  BY <1>3, OtherStep DEF ListPage, run_vars, issue_vars
<1>4. CASE EndSweep \/ Abort
  BY <1>4, OtherStep DEF EndSweep, Abort, run_vars, issue_vars
<1>5. CASE UNCHANGED ticketVars
  BY <1>5, OtherStep DEF ticketVars, run_vars, issue_vars
<1> QED
  BY <1>1, <1>2, <1>3, <1>4, <1>5 DEF NextTicket, Reclaim

LEMMA TicketInvariant == TicketSpec => []TicketInv
BY TicketStarts, TicketStep, PTL DEF TicketSpec

-----------------------------------------------------------------------------
\* The positions of a run's terminal comments.
LEMMA TerminalPlaces ==
  ASSUME NEW r \in Run
  PROVE  \A k : k \in Places(r, Markers) <=>
           /\ k \in Places_(IssueOf[r])
           /\ \E m \in Markers : comments[IssueOf[r]][k] = [marker |-> m, run |-> r]
<1> SUFFICES ASSUME NEW k
             PROVE  k \in Places(r, Markers) <=>
                      /\ k \in Places_(IssueOf[r])
                      /\ \E m \in Markers : comments[IssueOf[r]][k] = [marker |-> m, run |-> r]
  OBVIOUS
<1>1. k \in Places(r, Markers) <=> \E m \in Markers : k \in Marks(r, m)
  BY DEF Places
<1>2. \A m \in Markers : k \in Marks(r, m) <=>
        k \in Places_(IssueOf[r]) /\ comments[IssueOf[r]][k] = [marker |-> m, run |-> r]
  BY DEF Marks, Places_
<1> QED
  BY <1>1, <1>2

\* However many runs answer on one issue, each leaves at most one terminal
\* comment, and exactly one if none of its steps failed.
THEOREM OneTerminalSafe == TicketSpec => []OneTerminal
<1>1. ASSUME TicketInv PROVE OneTerminal
  <2> SUFFICES ASSUME NEW r \in Run
               PROVE  /\ Cardinality(Places(r, Markers)) <= 1
                      /\ step[r] = "ended" /\ ok[r] => Cardinality(Places(r, Markers)) = 1
    BY DEF OneTerminal
  <2> DEFINE i == IssueOf[r]
             P == Places(r, Markers)
  <2>1. i \in 1 .. Issue
    BY <1>1 DEF TicketInv, RunTypes
  <2>2. \A k \in P : k \in Places_(i) /\ comments[i][k].marker \in Markers
                       /\ comments[i][k].run = r
    <3> SUFFICES ASSUME NEW k \in P
                 PROVE  k \in Places_(i) /\ comments[i][k].marker \in Markers
                          /\ comments[i][k].run = r
      OBVIOUS
    <3>1. PICK m \in Markers : comments[i][k] = [marker |-> m, run |-> r]
      BY TerminalPlaces
    <3> QED
      BY <3>1, TerminalPlaces
  <2>3. \A k, l \in P : k = l
    BY <1>1, <2>1, <2>2 DEF TicketInv, TerminalsUnique
  <2>4. ASSUME NEW k \in P PROVE P = {k} /\ Cardinality(P) = 1
    <3>1. P = {k}
      BY <2>3, <2>4
    <3> QED
      BY <3>1, FS_Singleton
  <2>5. P = {} => Cardinality(P) = 0
    BY FS_EmptySet
  <2>6. step[r] = "ended" /\ ok[r] => P # {}
    <3> SUFFICES ASSUME step[r] = "ended", ok[r] PROVE P # {}
      OBVIOUS
    <3>1. PICK k \in Places_(i) : comments[i][k].marker \in Markers /\ comments[i][k].run = r
      BY <1>1 DEF TicketInv, Answered, Finished
    <3>2. comments[i][k] \in BotComment
      BY <1>1, <2>1, CommentsTyped DEF TicketInv
    <3>3. comments[i][k] = [marker |-> comments[i][k].marker, run |-> r]
      BY <3>1, <3>2 DEF BotComment
    <3> QED
      BY <3>1, <3>3, TerminalPlaces DEF P
  <2> HIDE DEF P
  <2> QED
    BY <2>4, <2>5, <2>6 DEF P
<1> QED
  BY <1>1, TicketInvariant, PTL

\* A completion is only ever said by a run whose summary claims full success
\* when its process is over and whose evidence artifact exists.
THEOREM CompletionSafe == TicketSpec => []CompletedIsClaimed
<1>1. ASSUME TicketInv PROVE CompletedIsClaimed
  <2> SUFFICES ASSUME NEW r \in Run, NEW k \in Marks(r, "EXECUTION_COMPLETED")
               PROVE  Over(r) /\ claim[r] = "full" /\ artifact[r]
    BY DEF CompletedIsClaimed
  <2>1. IssueOf[r] \in 1 .. Issue
    BY <1>1 DEF TicketInv, RunTypes
  <2>2. /\ k \in Places_(IssueOf[r])
        /\ comments[IssueOf[r]][k] = [marker |-> "EXECUTION_COMPLETED", run |-> r]
    BY DEF Marks, Places_
  <2> QED
    BY <1>1, <2>1, <2>2 DEF TicketInv, CompletedBacked, Over
<1> QED
  BY <1>1, TicketInvariant, PTL

-----------------------------------------------------------------------------
\* A non-empty set of positions has a last one.
LEMMA LastPosition ==
  ASSUME NEW n \in Nat, NEW S \in SUBSET (1 .. n), S # {}
  PROVE  \E m \in S : \A k \in S : k <= m
<1> DEFINE T == {n - k : k \in S}
           R == OpToRel(<, Nat)
<1>1. T \in SUBSET Nat /\ T # {}
  <2>1. \A k \in S : n - k \in Nat
    OBVIOUS
  <2> QED
    BY <2>1
<1>2. PICK x \in T : \A y \in T : <<y, x>> \notin R
  BY <1>1, WFMin, NatLessThanWellFounded
<1>3. \A y \in T : ~(y < x)
  BY <1>1, <1>2 DEF OpToRel
<1>4. PICK m \in S : x = n - m
  BY <1>2
<1>5. \A k \in S : n - k \in T
  OBVIOUS
<1> HIDE DEF T
<1>6. ASSUME NEW k \in S PROVE k <= m
  BY <1>3, <1>4, <1>5
<1> QED
  BY <1>6

SweepFields == {"page", "batch", "last", "terminal"}

\* What the reclaimer has read of the issue it is about to close, and what an
\* issue was closed for, was said by a bot and stays said.
SaidOn(i, marker) == \E k \in Places_(i) : comments[i][k].marker = marker

SweepInv ==
  /\ DOMAIN sweep = SweepFields /\ sweep = [f \in SweepFields |-> sweep[f]]
  /\ sweep.terminal # "none" =>
       /\ sweep.terminal \in Markers /\ Head(sweep.batch) \in 1 .. Issue
       /\ SaidOn(Head(sweep.batch), sweep.terminal)

ClosedInv ==
  /\ closed \in [1 .. Issue -> {"open", "completed", "not_planned"}]
  /\ \A i \in 1 .. Issue :
       /\ closed[i] # "open" => \E m \in Markers : SaidOn(i, m)
       /\ closed[i] = "completed" => SaidOn(i, "EXECUTION_COMPLETED")

\* Nothing that was said is taken back.
LEMMA CommentsGrow ==
  ASSUME TicketInv, [NextTicket]_ticketVars, NEW i, NEW m, SaidOn(i, m),
         i \in 1 .. Issue
  PROVE  SaidOn(i, m)'
<1>1. CASE UNCHANGED comments
  BY <1>1 DEF SaidOn, Places_
<1>2. ASSUME NEW r \in Run, NEW marker \in Markers \cup {"EXECUTION_ACCEPTED"},
             Comment(r, marker)
      PROVE  SaidOn(i, m)'
  <2>1. PICK k \in Places_(i) : comments[i][k].marker = m
    BY DEF SaidOn
  <2>2. k \in 1 .. Len(comments[i])
    BY DEF Places_
  <2>3. k \in 1 .. Len(comments'[i]) /\ comments'[i][k] = comments[i][k]
    <3>1. CommentTypes /\ IssueOf \in [Run -> 1 .. Issue]
      BY DEF TicketInv, RunTypes
    <3>2. /\ \A j \in 1 .. Issue \ {IssueOf[r]} : comments'[j] = comments[j]
          /\ Len(comments'[IssueOf[r]]) = Len(comments[IssueOf[r]]) + 1
          /\ \A j \in 1 .. Len(comments[IssueOf[r]]) :
               comments'[IssueOf[r]][j] = comments[IssueOf[r]][j]
          /\ Len(comments[IssueOf[r]]) \in Nat
      BY <1>2, <3>1, Spoken
    <3>3. CASE i = IssueOf[r]
      BY <2>2, <3>2, <3>3
    <3>4. CASE i # IssueOf[r]
      BY <2>2, <3>2, <3>4
    <3> QED
      BY <3>3, <3>4
  <2> QED
    BY <2>1, <2>3 DEF SaidOn, Places_
<1>3. ASSUME NEW r \in Run, Command(r) \/ Job(r) \/ Lose(r)
      PROVE  SaidOn(i, m)'
  <2>1. CASE Receipt(r)
    BY <1>2, <2>1 DEF Receipt, Markers
  <2>2. CASE Terminal(r)
    <3>1. TerminalHeading(r) # "none" => TerminalHeading(r) \in Markers
      BY DEF TerminalHeading, Process!Heading, Markers
    <3> QED
      BY <1>1, <1>2, <2>2, <3>1 DEF Terminal
  <2>3. ASSUME NEW v \in BOOLEAN, Prepare(r, v) PROVE UNCHANGED comments
    BY <2>3 DEF Prepare, issue_vars
  <2>4. CASE Command(r) \/ ReceiptFails(r) \/ Execute(r) \/ Deliver(r) \/ Evidence(r) \/ Lose(r)
    BY <1>1, <2>4 DEF Command, ReceiptFails, Execute, Deliver, Evidence, Lose, issue_vars
  <2> QED
    BY <1>1, <1>3, <2>1, <2>2, <2>3, <2>4 DEF Job
<1> QED
  BY <1>1, <1>3 DEF NextTicket, Reclaim, PostChunk, ListPage, EndSweep, Inspect, CloseIssue,
     Abort, ticketVars, run_vars, issue_vars

LEMMA LastTerminalSaid ==
  ASSUME CommentTypes, NEW i \in 1 .. Issue, LastTerminal(i) # "none"
  PROVE  LastTerminal(i) \in Markers /\ SaidOn(i, LastTerminal(i))
<1> DEFINE c == comments[i]
           found == {k \in 1 .. Len(c) : c[k].marker \in Markers}
           last == CHOOSE k \in found : \A j \in found : j <= k
<1>1. found # {} /\ LastTerminal(i) = c[last].marker
  BY DEF LastTerminal
<1>2. Len(c) \in Nat
  BY DEF CommentTypes
<1>3. last \in found
  BY <1>1, <1>2, LastPosition
<1> QED
  BY <1>1, <1>3 DEF SaidOn, Places_

\* Sweeping and closing: the reclaimer acts on what it read some steps before.
LEMMA SweepStep ==
  ASSUME TicketInv, SweepInv, ClosedInv, [NextTicket]_ticketVars
  PROVE  SweepInv' /\ ClosedInv'
<1>0. \A i \in 1 .. Issue : \A m : SaidOn(i, m) => SaidOn(i, m)'
  BY CommentsGrow
<1>1. CASE UNCHANGED <<sweep, closed>>
  <2>1. SweepInv'
    BY <1>0, <1>1 DEF SweepInv
  <2>2. ClosedInv'
    BY <1>0, <1>1 DEF ClosedInv, Markers
  <2> QED
    BY <2>1, <2>2
<1>2. CASE sweep'.terminal = "none" /\ UNCHANGED closed
           /\ sweep' = [f \in SweepFields |-> sweep'[f]]
  <2>1. SweepInv'
    BY <1>2 DEF SweepInv
  <2>2. ClosedInv'
    BY <1>0, <1>2 DEF ClosedInv, Markers
  <2> QED
    BY <2>1, <2>2
<1>3. ASSUME NEW i \in 1 .. Issue, Inspect(i) PROVE SweepInv' /\ ClosedInv'
  <2>1. CASE LastTerminal(i) = "none"
    BY <1>2, <1>3, <2>1 DEF Inspect, SweepInv, SweepFields, issue_vars
  <2>2. CASE LastTerminal(i) # "none"
    <3>1. LastTerminal(i) \in Markers /\ SaidOn(i, LastTerminal(i))
      BY <2>2, LastTerminalSaid DEF TicketInv
    <3>2. sweep' = [sweep EXCEPT !.terminal = LastTerminal(i)] /\ Head(sweep.batch) = i
      BY <1>3, <2>2 DEF Inspect, Visits
    <3>3. /\ sweep'.terminal = LastTerminal(i) /\ sweep'.batch = sweep.batch
          /\ DOMAIN sweep' = SweepFields /\ sweep' = [f \in SweepFields |-> sweep'[f]]
      BY <3>2 DEF SweepInv, SweepFields
    <3>4. SaidOn(i, LastTerminal(i))'
      BY <1>3, <3>1 DEF Inspect, issue_vars, SaidOn, Places_, LastTerminal
    <3>5. SweepInv'
      BY <1>0, <3>1, <3>2, <3>3, <3>4 DEF SweepInv
    <3>6. ClosedInv'
      BY <1>0, <1>3 DEF ClosedInv, Markers, Inspect, issue_vars
    <3> QED
      BY <3>5, <3>6
  <2> QED
    BY <2>1, <2>2
<1>4. ASSUME NEW i \in 1 .. Issue, CloseIssue(i) PROVE SweepInv' /\ ClosedInv'
  <2>1. /\ sweep' = [sweep EXCEPT !.batch = Tail(@), !.terminal = "none"]
        /\ Head(sweep.batch) = i /\ sweep.terminal # "none"
        /\ closed' = [closed EXCEPT ![i] =
             IF sweep.terminal = "EXECUTION_COMPLETED" THEN "completed" ELSE "not_planned"]
    BY <1>4 DEF CloseIssue, Visits
  <2>2. SweepInv'
    BY <2>1 DEF SweepInv, SweepFields
  <2>0. PICK t : t = sweep.terminal
    OBVIOUS
  <2>3. t \in Markers /\ SaidOn(i, t)'
    <3>1. t \in Markers /\ SaidOn(i, t)
      BY <2>0, <2>1 DEF SweepInv
    <3> QED
      BY <1>0, <3>1
  <2>4. closed' \in [1 .. Issue -> {"open", "completed", "not_planned"}]
    BY <2>1 DEF ClosedInv
  <2>5. ASSUME NEW j \in 1 .. Issue
        PROVE  /\ closed'[j] # "open" => \E m \in Markers : SaidOn(j, m)'
               /\ closed'[j] = "completed" => SaidOn(j, "EXECUTION_COMPLETED")'
    <3>1. CASE j = i
      BY <2>0, <2>1, <2>3, <3>1 DEF ClosedInv
    <3>2. CASE j # i
      <4>1. closed'[j] = closed[j]
        BY <2>1, <3>2 DEF ClosedInv
      <4> QED
        BY <1>0, <4>1 DEF ClosedInv, Markers
    <3> QED
      BY <3>1, <3>2
  <2> QED
    BY <2>2, <2>4, <2>5 DEF ClosedInv
<1>5. ASSUME NEW p \in 1 .. MaxPages, ListPage(p) PROVE SweepInv' /\ ClosedInv'
  BY <1>2, <1>5 DEF ListPage, SweepFields, issue_vars
<1>6. CASE EndSweep \/ Abort
  BY <1>2, <1>6 DEF EndSweep, Abort, Resting, SweepFields, issue_vars
<1>7. ASSUME NEW r \in Run, Command(r) \/ Job(r) \/ Lose(r)
      PROVE  UNCHANGED <<sweep, closed>>
  BY <1>7 DEF Command, Job, Lose, Prepare, Receipt, ReceiptFails, Execute, Deliver,
     Evidence, Terminal, issue_vars
<1>8. ASSUME NEW i \in 1 .. Issue, PostChunk(i) PROVE UNCHANGED <<sweep, closed>>
  BY <1>8 DEF PostChunk, issue_vars
<1> QED
  BY <1>1, <1>3, <1>4, <1>5, <1>6, <1>7, <1>8 DEF NextTicket, Reclaim, ticketVars, issue_vars

\* An issue is closed only after a terminal comment on it, and as completed
\* only after a completion.
THEOREM ClosedSafe == TicketSpec => []ClosedByTerminal
<1> DEFINE Inv == TicketInv /\ SweepInv /\ ClosedInv
<1>1. TicketInit => Inv
  BY TicketStarts DEF TicketInit, SweepInv, ClosedInv, SweepFields
<1>2. Inv /\ [NextTicket]_ticketVars => Inv'
  BY TicketStep, SweepStep
<1>3. ASSUME Inv PROVE ClosedByTerminal
  <2>1. \A i : \A m : SaidOn(i, m) => \E c \in Said(i) : c.marker = m
    BY DEF SaidOn, Said, Places_
  <2> QED
    BY <1>3, <2>1 DEF ClosedInv, ClosedByTerminal
<1>4. Inv => ClosedByTerminal
  BY <1>3
<1> QED
  BY <1>1, <1>2, <1>4, PTL DEF TicketSpec

-----------------------------------------------------------------------------
\* A finite set's image is finite: the second parts of a set of pairs.
LEMMA SecondsFinite ==
  ASSUME NEW S, IsFiniteSet(S)
  PROVE  IsFiniteSet({x[2] : x \in S})
<1> DEFINE T == {x[2] : x \in S}
           f == [x \in S |-> x[2]]
<1>1. f \in Surjection(S, T)
  BY DEF Surjection
<1> QED
  BY <1>1, FS_Surjection

WholePool(i) ==
  \E x \in posted[i] : \A c \in 1 .. Chunks[i] : <<c, x[2]>> \in posted[i]

PoolInv ==
  /\ posted \in [1 .. Issue -> UNION {SUBSET Parcels[i] : i \in 1 .. Issue}]
  /\ \A i \in 1 .. Issue : posted[i] \subseteq Parcels[i]
  /\ \A r \in Run : accepted[r] => WholePool(IssueOf[r])

\* What passes for hydrated is one compression, every chunk of it.
LEMMA HydratedWhole ==
  ASSUME PoolInv, NEW i \in 1 .. Issue, Hydrated(i)
  PROVE  WholePool(i)
<1> DEFINE seconds == {x[2] : x \in posted[i]}
           versions(c) == {x[2] : x \in {y \in posted[i] : y[1] = c}}
<1>1. /\ IsFiniteSet(posted[i])
      /\ \A x \in posted[i] : x = <<x[1], x[2]>>
      /\ Chunks[i] \in Nat \ {0}
  BY TicketAssumption, FS_Subset DEF PoolInv
<1>2. IsFiniteSet(seconds)
  BY <1>1, SecondsFinite
<1>3. PICK v : seconds = {v}
  BY <1>2, FS_Singleton DEF Hydrated
<1>4. ASSUME NEW c \in 1 .. Chunks[i]
      PROVE  <<c, v>> \in posted[i]
  <2>1. versions(c) # {}
    BY <1>4, FS_EmptySet DEF Hydrated
  <2>2. PICK y \in posted[i] : y[1] = c
    BY <2>1
  <2>3. y[2] = v
    BY <1>3
  <2> QED
    BY <1>1, <2>2, <2>3
<1>5. <<1, v>> \in posted[i]
  BY <1>1, <1>4
<1> QED
  BY <1>4, <1>5 DEF WholePool

\* However commands and chunks are interleaved, a run is accepted only on an
\* issue that holds every chunk of one compression of the pool.
THEOREM AcceptedSafe == TicketSpec => []AcceptedOnWholePool
<1> DEFINE Inv == TicketInv /\ PoolInv
<1>1. TicketInit => Inv
  BY TicketStarts, TicketAssumption DEF TicketInit, PoolInv
<1>2. ASSUME TicketInv, PoolInv, [NextTicket]_ticketVars PROVE PoolInv'
  <2>1. UNCHANGED IssueOf /\ IssueOf \in [Run -> 1 .. Issue]
    BY <1>2 DEF TicketInv, RunTypes, NextTicket, Reclaim, Command, Job, Lose, Prepare, Receipt,
       ReceiptFails, Execute, Deliver, Evidence, Terminal, PostChunk, ListPage, EndSweep,
       Inspect, CloseIssue, Abort, ticketVars
  <2>2. CASE UNCHANGED <<posted, accepted>>
    BY <1>2, <2>1, <2>2 DEF PoolInv, WholePool
  <2>3. ASSUME NEW r \in Run, NEW v \in BOOLEAN, Prepare(r, v) PROVE PoolInv'
    <3>1. UNCHANGED posted
      BY <2>3 DEF Prepare
    <3>2. accepted'[r] => accepted[r] \/ Hydrated(IssueOf[r])
      BY <1>2, <2>3 DEF Prepare, TicketInv, RunTypes
    <3>3. \A q \in Run \ {r} : accepted'[q] = accepted[q]
      BY <1>2, <2>3 DEF Prepare, TicketInv, RunTypes
    <3>4. \A q \in Run : accepted'[q] => WholePool(IssueOf[q])
      BY <1>2, <2>1, <3>2, <3>3, HydratedWhole DEF PoolInv
    <3> QED
      BY <1>2, <2>1, <3>1, <3>4 DEF PoolInv, WholePool
  <2>4. ASSUME NEW i \in 1 .. Issue, PostChunk(i) PROVE PoolInv'
    <3>1. PICK x \in Parcels[i] : posted' = [posted EXCEPT ![i] = @ \cup {x}]
      BY <2>4 DEF PostChunk
    <3>2. /\ \A j \in 1 .. Issue : posted[j] \subseteq posted'[j]
          /\ \A j \in 1 .. Issue : posted'[j] \subseteq Parcels[j]
      BY <1>2, <3>1 DEF PoolInv
    <3>3. posted' \in [1 .. Issue -> UNION {SUBSET Parcels[j] : j \in 1 .. Issue}]
      BY <1>2, <3>1, <3>2 DEF PoolInv
    <3>4. UNCHANGED accepted
      BY <2>4 DEF PostChunk, run_vars
    <3>5. \A j \in 1 .. Issue : WholePool(j) => WholePool(j)'
      BY <3>2 DEF WholePool
    <3> QED
      BY <1>2, <2>1, <3>2, <3>3, <3>4, <3>5 DEF PoolInv, WholePool
  <2>5. ASSUME NEW r \in Run,
               Command(r) \/ Receipt(r) \/ ReceiptFails(r) \/ Execute(r) \/ Deliver(r)
                 \/ Evidence(r) \/ Terminal(r) \/ Lose(r)
        PROVE  UNCHANGED <<posted, accepted>>
    BY <2>5 DEF Command, Receipt, ReceiptFails, Execute, Deliver, Evidence, Terminal, Lose
  <2>6. ASSUME NEW i \in 1 .. Issue, Inspect(i) \/ CloseIssue(i)
        PROVE  UNCHANGED <<posted, accepted>>
    BY <2>6 DEF Inspect, CloseIssue, run_vars
  <2>7. ASSUME NEW p \in 1 .. MaxPages, ListPage(p) PROVE UNCHANGED <<posted, accepted>>
    BY <2>7 DEF ListPage, run_vars
  <2>8. EndSweep \/ Abort \/ UNCHANGED ticketVars => UNCHANGED <<posted, accepted>>
    BY DEF EndSweep, Abort, ticketVars, run_vars
  <2> QED
    BY <1>2, <2>2, <2>3, <2>4, <2>5, <2>6, <2>7, <2>8 DEF NextTicket, Reclaim, Job
<1>3. Inv /\ [NextTicket]_ticketVars => Inv'
  BY <1>2, TicketStep
<1>4. Inv => AcceptedOnWholePool
  BY DEF PoolInv, WholePool, AcceptedOnWholePool
<1> QED
  BY <1>1, <1>3, <1>4, PTL DEF TicketSpec
=============================================================================
