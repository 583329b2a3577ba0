----------------------------- MODULE RunDelivery -----------------------------
(***************************************************************************)
(* One run of the pipeline after its expert graph has been materialized:   *)
(* the engine's verdict on the run, the gates that may overturn it, and    *)
(* the files they leave behind.                                            *)
(*                                                                         *)
(* The process is sequential, but it may be stopped at any time (job       *)
(* timeout, cancelled job, lost runner) and its files are read afterwards. *)
(* So every file is written in a step of its own: a control step queues    *)
(* the files it writes in "writes", the next control step waits until the  *)
(* queue is empty, and a stop may tear the file being written.             *)
(***************************************************************************)
EXTENDS Integers, FiniteSets, Sequences

CONSTANTS
  Node,             \* nodes of the execution graph
  Work,             \* graph.required_work
  Assigned,         \* node -> the work it is assigned
  Final,            \* graph.final_nodes
  Optional,         \* metadata.optional_work_ids
  NonDegradable,    \* metadata.non_degradable_work_ids
  MinCoverage,      \* limits.min_required_work_coverage, in percent
  MinContentNodes,  \* limits.min_successful_content_nodes
  AuditProblems     \* what the request audit may find in the requests

ASSUME GraphAssumption ==
  /\ IsFiniteSet(Node) /\ IsFiniteSet(Work)
  /\ Assigned \in [Node -> SUBSET Work]
  /\ Final \subseteq Node
  /\ Optional \subseteq Work /\ NonDegradable \subseteq Work
  /\ MinCoverage \in 0 .. 100 /\ MinContentNodes \in Nat
  /\ "none" \in AuditProblems
  /\ AuditProblems \subseteq {"none", "request", "provider", "assignment", "ceiling"}

VARIABLES
  pc,        \* next control step of the process
  allow,     \* constraints.allow_degraded_success: the user allows degradation
  blocked,   \* the engine's account transport state at the end of the stages
  outputs,   \* node -> what its RuntimeNodeResult amounts to
  unbound,   \* nodes whose planned model was never asked with the planned effort
  result,    \* the result mapping in memory
  evidence,  \* verdict of the evidence audit
  writes,    \* files still to be written, oldest first
  disk       \* file -> its content

vars == <<pc, allow, blocked, outputs, unbound, result, evidence, writes, disk>>

Audit  == {"PASS", "FAIL"}

\* The content of a file.
Absent     == [state |-> "absent"]
Torn       == [state |-> "torn"]
Written(v) == [state |-> "written", value |-> v]

File == {"selection", "graph", "constraints", "nodes", "summary", "audit",
         "report", "evidence", "result", "manifest"}

-----------------------------------------------------------------------------
(* Node results.  "incomplete" is a strict success whose contract lacks a  *)
(* required field; a failed node has no answer, any other node has one.    *)

NodeOutcome == {"strict", "incomplete", "degraded", "failed"}

Success(o)      == o # "failed"
StrictStatus(o) == o \in {"strict", "incomplete"}

\* The work the final nodes do not do themselves, or all of it.
ContentWork ==
  LET others == Work \ UNION {Assigned[n] : n \in Final}
  IN  IF others = {} THEN Work ELSE others

\* The content work a degraded delivery is measured by.
Content == ContentWork \ Optional

Usable(w) == {n \in Node : w \in Assigned[n] /\ Success(outputs[n])}
Covered   == {w \in Content : Usable(w) # {}}
Missing   == Content \ Covered

\* Per covered work item, a node with the best quality score among the usable.
BestOutputs == {b \in [Covered -> Node] : \A w \in Covered : b[w] \in Usable(w)}

\* covered / max(1, |content|) >= percent / 100
Reaches(covered, percent) ==
  100 * covered >= percent * (IF Content = {} THEN 1 ELSE Cardinality(Content))

\* _strict_limits: without the user's permission degradation is off and all
\* of the work has to be covered.
Minimum       == IF allow THEN MinCoverage ELSE 100
AllowDegraded == allow

Preferred == \E n \in Final : Success(outputs[n])
Complete  == \A n \in Node : StrictStatus(outputs[n])

\* The deterministic synthesis is a text even when nothing is covered.
FinalAnswer ==
  IF Preferred THEN "preferred"
  ELSE IF Reaches(Cardinality(Covered), Minimum) THEN "synthesis" ELSE "empty"

Degraded ==
  \/ FinalAnswer = "synthesis"
  \/ Preferred /\ (Missing # {} \/ ~Complete)
  \/ \E n \in Node : outputs[n] = "degraded"

StrictContentNodes(best) ==
  Cardinality({n \in Node : StrictStatus(outputs[n])
                              /\ \E w \in Covered : best[w] = n})

MissingNonDegradable == NonDegradable \cap Missing

DeliveryBlockers(best) ==
  LET when(condition, blocker) == IF condition THEN <<blocker>> ELSE <<>>
  IN  when(MissingNonDegradable # {}, "missing-non-degradable-work")
   \o when(~Reaches(Cardinality(Covered), Minimum), "insufficient-required-work-coverage")
   \o when(StrictContentNodes(best) < MinContentNodes,
           "insufficient-successful-content-nodes")
   \o when(Degraded /\ ~AllowDegraded, "degraded-success-disabled")

Verdict(status, mode, quality, reason) ==
  [status |-> status, mode |-> mode, quality |-> quality, reason |-> reason]

CompletionStatus(blockers) ==
  IF blockers = <<>> /\ FinalAnswer # "empty"
  THEN IF ~Degraded /\ Complete /\ Missing = {}
       THEN Verdict("success", "full", "full_success", "all-quality-gates-passed")
       ELSE Verdict("success", "degraded", "degraded_success",
                    "partial-success-deterministic-synthesis")
  ELSE Verdict("failed", "none", "failed",
               IF blockers = <<>> THEN "insufficient-work-coverage-after-recovery"
                                  ELSE Head(blockers))

Credit == "provider-account-credit-insufficient"

\* A failure of a run whose account ran out of credit is put down to that.
AccountReason(v) ==
  IF blocked /\ v.status = "failed" THEN [v EXCEPT !.reason = Credit] ELSE v

ExecutionResult(best) ==
  LET blockers == DeliveryBlockers(best)
      v == AccountReason(CompletionStatus(blockers))
  IN  [status |-> v.status, mode |-> v.mode, quality |-> v.quality,
       reason |-> v.reason, answer |-> FinalAnswer, blockers |-> blockers,
       covered |-> Cardinality(Covered),
       strict_content |-> StrictContentNodes(best)]

-----------------------------------------------------------------------------
(* v5_quality_status_integrity: node quality against the run's status.     *)

DegradedNodes == {n \in Node : outputs[n] \in {"incomplete", "degraded"}}
AllStrict     == Node # {} /\ \A n \in Node : outputs[n] = "strict"

DeclaresDegraded(r) ==
  r.status = "success" /\ r.mode = "degraded" /\ r.quality = "degraded_success"

\* minimum = float(coverage.get("minimum_degraded_coverage") or 1.0)
AuditedMinimum == IF Minimum = 0 THEN 100 ELSE Minimum

\* Mutant: the audited degradation does not look at the strict content.
AuditedDegradationShell(r) ==
  /\ DeclaresDegraded(r)
  /\ r.answer # "empty" /\ AllowDegraded /\ r.blockers = <<>>
  /\ MissingNonDegradable = {}
  /\ r.covered > 0 /\ Reaches(r.covered, AuditedMinimum)


AuditedDegradation(r) ==
  /\ DeclaresDegraded(r)
  /\ r.answer # "empty"
  /\ AllowDegraded
  /\ r.blockers = <<>>
  /\ MissingNonDegradable = {}
  /\ r.covered > 0
  /\ Reaches(r.covered, AuditedMinimum)
  /\ r.strict_content >= 1

RejectDegraded(r) ==
  [r EXCEPT !.status = "failed", !.mode = "none", !.quality = "failed",
            !.answer = "empty",
            !.reason = IF blocked THEN Credit
                       ELSE "degraded-delivery-without-usable-content",
            !.blockers = Append(@, "degraded-delivery-requires-positive-covered-work-and-strict-content")]

ApplyDegradation(r) ==
  [r EXCEPT !.mode = "degraded", !.quality = "degraded_success",
            !.reason = "audited-usable-delivery-with-disclosed-degradation"]

\* Mutant: the run's own verdict is kept if it declares full success.
EnforceIntegrityTrusting(r) ==
  IF DeclaresDegraded(r) /\ ~AuditedDegradation(r) THEN RejectDegraded(r)
  ELSE IF AuditedDegradation(r) THEN ApplyDegradation(r) ELSE r


EnforceIntegrity(r) ==
  IF DeclaresDegraded(r) /\ ~AuditedDegradation(r) THEN RejectDegraded(r)
  ELSE IF AuditedDegradation(r) \/ DegradedNodes # {} THEN ApplyDegradation(r)
  ELSE IF AllStrict /\ r.status = "success"
       THEN [r EXCEPT !.mode = "full", !.quality = "full_success"]
  ELSE r

-----------------------------------------------------------------------------
(* Files and the end of the process.                                       *)

Write(f, content) == [file |-> f, content |-> content]

Idle == writes = <<>>

\* A control step: the files of the one before it are on disk.
Step(from, to, files) ==
  /\ pc = from /\ Idle
  /\ pc' = to
  /\ writes' = files

Ended == pc \in {"exited", "raised", "killed"} /\ Idle

RejectedResult ==
  [status |-> "failed", mode |-> "none", quality |-> "failed",
   reason |-> "native-runtime-preflight-rejected", answer |-> "empty",
   blockers |-> <<"output-contract-integrity">>, covered |-> 0,
   strict_content |-> 0]

NoResult == [RejectedResult EXCEPT !.reason = "none"]

\* write_json truncates the file and writes it: the oldest queued file is next.
WriteNext ==
  /\ ~Idle
  /\ disk' = [disk EXCEPT ![Head(writes).file] = Written(Head(writes).content)]
  /\ writes' = Tail(writes)
  /\ UNCHANGED <<pc, allow, blocked, outputs, unbound, result, evidence>>

\* The process is stopped: between two writes, or with the next file torn.
Kill ==
  /\ ~Ended
  /\ pc' = "killed"
  /\ \/ UNCHANGED disk
     \/ ~Idle /\ disk' = [disk EXCEPT ![Head(writes).file] = Torn]
  /\ writes' = <<>>
  /\ UNCHANGED <<allow, blocked, outputs, unbound, result, evidence>>
-----------------------------------------------------------------------------
(* The control steps.                                                      *)

Init ==
  /\ pc = "setup"
  /\ allow \in BOOLEAN
  /\ blocked = FALSE
  /\ outputs = [n \in Node |-> "failed"]
  /\ unbound = Node
  /\ result = NoResult
  /\ evidence = "none"
  /\ writes = <<>>
  /\ disk = [f \in File |-> Absent]

Engine == <<allow, blocked, outputs, unbound>>

\* main: the ticket's advisory cost is checked before anything else; then the
\* plan is materialized and its selection and graph are written.
Setup(advisory_rejected) ==
  /\ IF advisory_rejected
     THEN Step("setup", "raised", <<>>)
     ELSE Step("setup", "validate",
               <<Write("selection", "planned"), Write("graph", "planned"),
                 Write("constraints", allow)>>)
  /\ UNCHANGED <<Engine, result, evidence, disk>>

\* What an exception of the engine leaves behind.
FailureEvidence(verdict) == <<Write("evidence", verdict)>>

PlannedContentNodes == {n \in Node : Assigned[n] \cap ContentWork # {}}

PreflightBlocked(problem) ==
  \/ problem = "contract"
  \/ Cardinality(PlannedContentNodes)
       < (IF MinContentNodes = 0 THEN 1 ELSE MinContentNodes)

RejectPreflight ==
  <<Write("nodes", <<>>), Write("summary", RejectedResult),
    Write("audit", [status |-> "PASS", knobs |-> "unknown"])>>

\* _validated_graph and _preflight: nothing is called for a bad graph.
Validate(problem, verdict) ==
  /\ \/ /\ problem = "structure"
        /\ Step("validate", "raised", FailureEvidence(verdict))
     \/ /\ problem # "structure" /\ PreflightBlocked(problem)
        /\ Step("validate", "raised", RejectPreflight \o FailureEvidence(verdict))
     \/ /\ problem = "none" /\ ~PreflightBlocked(problem)
        /\ Step("validate", "stages", <<>>)
  /\ UNCHANGED <<Engine, result, evidence, disk>>

\* The stages run (ExpertRuntime).  Some node's planned model has been asked;
\* another node may have been served by other models only.
RunStages ==
  /\ Step("stages", "verdict", <<>>)
  /\ outputs' \in [Node -> NodeOutcome]
  /\ unbound' \in SUBSET Node \ {Node}
  /\ blocked' \in BOOLEAN
  /\ UNCHANGED <<allow, result, evidence, disk>>

EngineFiles(r) ==
  <<Write("nodes", outputs), Write("summary", r),
    Write("audit", [status |-> "PASS", knobs |-> "unknown"]),
    Write("report", r.answer)>>

\* Mutant: a provisional summary is written before the integrity layer runs.
JudgeProvisional ==
  \E best \in BestOutputs :
    LET r == ExecutionResult(best)
    IN  /\ Step("verdict", "gate",
                <<Write("summary", r)>> \o EngineFiles(EnforceIntegrity(r)))
        /\ result' = EnforceIntegrity(r)
        /\ UNCHANGED <<Engine, evidence, disk>>

\* Delivery state, blockers, result, integrity; then the engine's four files.
Judge ==
  \E best \in BestOutputs :
    LET r == EnforceIntegrity(ExecutionResult(best))
    IN  /\ Step("verdict", "gate", EngineFiles(r))
        /\ result' = r
        /\ UNCHANGED <<Engine, evidence, disk>>

\* The evidence audit of the final answer, whatever the answer is.
AuditEvidence(verdict) ==
  /\ Step("gate", "decide", <<Write("evidence", verdict)>>)
  /\ evidence' = verdict
  /\ UNCHANGED <<Engine, result, disk>>

ConstitutionalFailure ==
  IF blocked /\ result.status = "failed" /\ result.answer = "empty" THEN Credit
  ELSE IF evidence # "PASS" THEN "unsupported-evidence-or-quantity"
  ELSE IF result.mode = "degraded" /\ ~allow THEN "degradation-not-authorized-by-user"
  ELSE "none"

FailResult(r, reason) ==
  [r EXCEPT !.status = "failed", !.mode = "none", !.quality = "failed",
            !.answer = "empty", !.reason = reason]

\* A constitutional failure replaces summary and report; it raises nothing.
Decide ==
  LET reason == ConstitutionalFailure
      r == IF reason = "none" THEN result ELSE FailResult(result, reason)
      files == IF reason = "none" THEN <<>>
               ELSE <<Write("summary", r), Write("report", "gate-failure")>>
  IN  /\ Step("decide", "request_audit", Append(files, Write("summary", r)))
      /\ result' = r
      /\ UNCHANGED <<Engine, evidence, disk>>

AuditRow(status, knobs) == Write("audit", [status |-> status, knobs |-> knobs])

KnobCoverage == IF unbound = {} THEN "PASS" ELSE "FAIL"

\* _request_audit: each layer rewrites the audit and raises on what it finds.
RequestAudit(problem) ==
  LET first    == AuditRow(IF problem = "request" THEN "FAIL" ELSE "PASS", "unknown")
      provider == AuditRow(IF problem = "provider" THEN "FAIL" ELSE "PASS", "unknown")
      knobs    == AuditRow("PASS", KnobCoverage)
      next(l, files) == Step("request_audit", l, files)
  IN  /\ CASE problem = "request"    -> next("raised", <<first>>)
           [] problem = "provider"   -> next("raised", <<first, provider>>)
           [] problem = "assignment" -> next("raised", <<first, provider, knobs>>)
           [] OTHER -> next(IF KnobCoverage = "PASS" THEN "finalize" ELSE "raised",
                            <<first, provider, knobs, knobs>>)
      /\ UNCHANGED <<Engine, result, evidence, disk>>

\* _finalize_result: more reserved calls than approved end the run here.
Finalize(problem) ==
  /\ IF problem = "ceiling"
     THEN Step("finalize", "raised", <<>>)
     ELSE Step("finalize", "manifest", <<Write("result", result), Write("summary", result)>>)
  /\ UNCHANGED <<Engine, result, evidence, disk>>

\* write_manifest hashes the files as they are now; _rewrite_static_artifacts
\* then rewrites two of them.
Manifest ==
  /\ Step("manifest", "exited",
          <<Write("manifest", [f \in File \ {"manifest"} |-> disk[f]]),
            Write("selection", "annotated"), Write("graph", "annotated")>>)
  /\ UNCHANGED <<Engine, result, evidence, disk>>

Next ==
  \/ \E rejected \in BOOLEAN : Setup(rejected)
  \/ \E p \in {"none", "structure", "contract"}, v \in Audit : Validate(p, v)
  \/ RunStages
  \/ Judge
  \/ \E v \in Audit : AuditEvidence(v)
  \/ Decide
  \/ \E p \in AuditProblems : RequestAudit(p)
  \/ \E p \in AuditProblems : Finalize(p)
  \/ Manifest
  \/ WriteNext
  \/ Kill

Spec == Init /\ [][Next]_vars

-----------------------------------------------------------------------------
(* Properties.                                                             *)

\* The values the variables range over.
TypeOK ==
  /\ pc \in {"setup", "validate", "stages", "verdict", "gate", "decide",
             "request_audit", "finalize", "manifest", "exited", "raised", "killed"}
  /\ allow \in BOOLEAN /\ blocked \in BOOLEAN
  /\ outputs \in [Node -> NodeOutcome]
  /\ unbound \subseteq Node
  /\ result.status \in {"success", "failed"}
  /\ result.mode \in {"full", "degraded", "none"}
  /\ result.answer \in {"preferred", "synthesis", "empty"}
  /\ evidence \in Audit \cup {"none"}
  /\ \A i \in 1 .. Len(writes) : writes[i].file \in File
  /\ DOMAIN disk = File

HasSummary == disk["summary"].state = "written"
Summary    == disk["summary"].value

\* No summary on disk, not even one a later gate withdraws, claims full success
\* unless every node succeeded strictly, with its contract complete, and all of
\* the content work is covered (v5_quality_status_integrity: degraded output
\* "must never be represented as full_success").
FullSuccessMeansStrict ==
  HasSummary /\ Summary.quality = "full_success"
    => AllStrict /\ Missing = {} /\ Summary.status = "success" /\ Preferred

\* The constitutional gate is through and its files are on disk.
Gated == HasSummary /\ Idle /\ pc \in {"request_audit", "finalize", "manifest", "exited"}

\* Past the gate, status, mode and quality agree, although the integrity layer
\* marks a failed run with a degraded node as degraded and only the gate undoes
\* that; and a degraded success is one the user allowed, rests on strictly
\* successful content and comes with an answer the evidence audit passed.
VerdictAgrees ==
  Gated =>
    /\ (Summary.status = "failed") = (Summary.mode = "none")
    /\ (Summary.status = "failed") = (Summary.quality = "failed")
    /\ Summary.mode = "full" => Summary.quality = "full_success"
    /\ Summary.status = "success" /\ Summary.mode = "degraded" =>
         /\ allow /\ evidence = "PASS" /\ Summary.answer # "empty"
         /\ Missing = {}
         /\ \E n \in Node : StrictStatus(outputs[n]) /\ Assigned[n] \cap Covered # {}

\* A run that produced nothing usable after the account ran out of credit
\* blames the credit, although the integrity layer and the evidence audit of
\* the empty answer each have a reason of their own to write down.
CreditCauseKept ==
  Gated /\ blocked /\ ~Preferred /\ Covered = {} /\ NonDegradable = {}
    => Summary.status = "failed" /\ Summary.reason = Credit

\* When the process has ended by itself the manifest is true of every file but
\* the two that are rewritten after it, and the result file, the summary and
\* the report tell of the same answer.
ExitConsistent ==
  pc = "exited" /\ Idle
    => /\ \A f \in File \ {"manifest", "selection", "graph"} :
             disk["manifest"].value[f] = disk[f]
       /\ disk["result"] = disk["summary"]
       /\ \/ disk["report"].value = Summary.answer
          \/ disk["report"].value = "gate-failure" /\ Summary.status = "failed"

\* What a run tells of itself is one story, its cause included: in the verdict
\* of the gate, and in the files that are left when the process has ended.
OneStory == VerdictAgrees /\ CreditCauseKept /\ ExitConsistent

\* What the summary on disk claims.
ClaimOf(content) ==
  IF content.state = "absent" THEN "none"
  ELSE IF content.state = "torn" THEN "torn"
  ELSE IF content.value.status # "success" THEN "failed"
  ELSE IF content.value.mode = "degraded" THEN "degraded"
  ELSE IF content.value.quality = "full_success" THEN "full" ELSE "failed"

Abstract == INSTANCE Delivery
  WITH claim <- ClaimOf(disk["summary"]), over <- Ended

\* The summary file behaves as Delivery says: a failure is final, a success
\* changes only into a failure, and only a stop tears the file.
ImplementsDelivery == Abstract!DeliverySpec

\* The runtime delivery gate has proved the coverage
\* (v5_quality_status_integrity.py:3-9): what it lets pass as degraded success
\* with covered work and strict content is not rejected as empty.
PartialDeliveryKept ==
  \A best \in BestOutputs :
    pc = "gate" /\ DeliveryBlockers(best) = <<>> /\ Covered # {}
      /\ StrictContentNodes(best) >= 1
      => result.reason # "degraded-delivery-without-usable-content"

\* "Completion requires an authoritative final status backed by" the request
\* audit, quality evidence and the frozen manifest (DELEGATION_CONTRACT.md:37):
\* after a run that was not stopped, EXECUTION_COMPLETED has all of them.
CompletedIsBacked ==
  Ended /\ pc # "killed"
    /\ Abstract!Heading(ClaimOf(disk["summary"]), TRUE) = "EXECUTION_COMPLETED"
    => /\ evidence = "PASS"
       /\ disk["audit"].value = [status |-> "PASS", knobs |-> "PASS"]
       /\ disk["manifest"].state = "written"
==============================================================================
