---------------------------- MODULE ExpertRuntime ----------------------------
(***************************************************************************)
(* The production execution engine: expert nodes run stage by stage, the   *)
(* nodes of a stage in parallel threads.  A node makes its initial call    *)
(* and, when that fails, searches a finite recovery space, replanned       *)
(* before every call from what all threads of the run have observed:       *)
(*   - the account circuit opened by an HTTP 402, which zero-cost recovery *)
(*     calls lower for their own duration;                                 *)
(*   - models that failed in a way no retry repairs;                       *)
(*   - standby models, each claimed by one node of the run;                *)
(*   - the quality circuit, opened when one deterministic contract reason  *)
(*     rejects the answers of several models;                              *)
(*   - the endpoint circuits and call counters of CallBudget.              *)
(* A step of a thread is one critical section or one unlocked read of this *)
(* shared state, with the thread-local work around it.  Ranking is         *)
(* abstracted to "any candidate of the space" (RecoveryOrder has it).      *)
(***************************************************************************)
EXTENDS Integers, FiniteSets, Sequences

CONSTANTS
  Node, Model,
  Selected,      \* Node -> Model, the planner's choice, one model per node
  Recovery,      \* models of the recovery pool, the same rows for every node
  Standby,       \* models of the standby inventory
  Free,          \* models whose rows are explicit zero-cost candidates
  Stages,        \* sequence of sets of nodes
  Workers,       \* parallel_workers
  Outcomes,      \* the call outcomes to be considered
  Contract,      \* deterministic task-obligation reasons
  NoReason, NoCall

Outcome == {"passed", "truncated", "quality", "transient", "invalid",
            "privacy404", "credit402", "contract"}

ASSUME ModelAssumption ==
  /\ IsFiniteSet(Node) /\ IsFiniteSet(Model)
  /\ Selected \in [Node -> Model]
  /\ \A n, o \in Node : Selected[n] = Selected[o] => n = o
  /\ Recovery \subseteq Model /\ Standby \subseteq Model /\ Free \subseteq Model
  /\ Recovery \cap Standby = {}
  /\ \A n \in Node : Selected[n] \notin Recovery \cup Standby
ASSUME StageAssumption ==
  /\ Stages \in Seq(SUBSET Node)
  /\ \A n \in Node : \E i \in 1 .. Len(Stages) : n \in Stages[i]
  /\ \A i, j \in 1 .. Len(Stages) : i # j => Stages[i] \cap Stages[j] = {}
  /\ Workers \in Nat \ {0}
ASSUME OutcomeAssumption ==
  /\ Outcomes \subseteq Outcome
  /\ IsFiniteSet(Contract) /\ NoReason \notin Contract
ASSUME RuntimeNoCallAssumption ==
  NoCall \notin [kind : {"initial", "retry", "replacement"}, endpoint : Model]

(***************************************************************************)
(* Parameters derived from the graph                                       *)
(***************************************************************************)
CeilSqrt(k)   == CHOOSE i \in 0 .. k : i * i >= k /\ \A j \in 0 .. i - 1 : j * j < k
CeilDiv(a, b) == (a + b - 1) \div b
AtLeast(a, b) == IF a >= b THEN a ELSE b

RecoveryLimit == Cardinality(Recovery) + Cardinality(Standby)

MaxProviderFailures ==
  AtLeast(1, CeilDiv(Cardinality(Recovery) + CeilSqrt(Cardinality(Standby)),
                     AtLeast(1, Cardinality(Node))))

\* Failures that may be repaired by a replacement: every category but the
\* account's 402, a suppressed call and a contract violation.
Eligible == {"truncated", "quality", "transient", "invalid", "privacy404"}

VARIABLES
  stage,                       \* the stage being executed
  pc, phase,                   \* of each thread: step, and what its call is for
  cur,                         \* the call it makes, or is about to claim
  returned,                    \* its last call gave an attempt, not None
  attempts,                    \* the node's attempts list
  remaining,                   \* remaining_initial of _recover_node
  best,                        \* a degraded answer is kept
  result,                      \* RuntimeNodeResult.status
  prior_blocked,               \* local of the credit-aware _recorded_call
  zero_limit, nonprivacy,      \* locals of the zero-cost recovery loop
  provider_account_blocked,
  standby_claimed,
  hard_failed_model_ids,
  quality_models,              \* contract reason -> models rejected for it
  quality_circuit_open,
  calls_reserved, initial_calls_reserved, recovery_calls_reserved,
  retry_calls_reserved, replacement_calls_reserved,
  pending, denials, endpoint_failures,
  credit_402_seen,             \* history: a 402 has been recorded
  late_claims                  \* history: claims under an open quality circuit

counters == <<calls_reserved, initial_calls_reserved, recovery_calls_reserved,
              retry_calls_reserved, replacement_calls_reserved>>
ledger   == <<counters, pending, denials, endpoint_failures>>
account  == <<provider_account_blocked, credit_402_seen>>
memory   == <<hard_failed_model_ids, quality_models, quality_circuit_open>>
claims   == <<standby_claimed, late_claims>>
search   == <<remaining, best, zero_limit, nonprivacy>>
where    == <<pc, phase, cur>>
vars     == <<stage, where, returned, attempts, search, result, prior_blocked,
              account, claims, memory, ledger>>

(***************************************************************************)
(* The budget controller, with a thread's steps seen as steps of its call  *)
(***************************************************************************)
BudgetPc ==
  [n \in Node |->
    CASE pc[n] \in {"identity", "reserve", "network"} -> pc[n]
      [] pc[n] \in {"gate", "endpoint"}               -> "endpoint"
      [] pc[n] \in {"record", "mark"}                 -> "record"
      [] OTHER                                        -> "idle"]
BudgetCall  == [n \in Node |-> IF BudgetPc[n] = "idle" THEN NoCall ELSE cur[n]]
BudgetAsked == [n \in Node |-> pc[n] # "queued"]

Budget == INSTANCE CallBudget WITH
            Endpoint <- Model, pc <- BudgetPc, call <- BudgetCall,
            asked <- BudgetAsked

Init ==
  /\ stage = 1
  /\ pc = [n \in Node |-> "queued"]
  /\ phase = [n \in Node |-> "initial"]
  /\ cur = [n \in Node |-> NoCall]
  /\ returned = [n \in Node |-> FALSE]
  /\ attempts = [n \in Node |-> <<>>]
  /\ remaining = [n \in Node |-> {}]
  /\ best = [n \in Node |-> FALSE]
  /\ result = [n \in Node |-> "running"]
  /\ prior_blocked = [n \in Node |-> FALSE]
  /\ zero_limit = [n \in Node |-> 0]
  /\ nonprivacy = [n \in Node |-> 0]
  /\ provider_account_blocked = FALSE
  /\ standby_claimed = {}
  /\ hard_failed_model_ids = {}
  /\ quality_models = [r \in Contract |-> {}]
  /\ quality_circuit_open = FALSE
  /\ calls_reserved = 0
  /\ initial_calls_reserved = 0
  /\ recovery_calls_reserved = 0
  /\ retry_calls_reserved = 0
  /\ replacement_calls_reserved = 0
  /\ pending = 0
  /\ denials = {}
  /\ endpoint_failures = [m \in Model |-> 0]
  /\ credit_402_seen = FALSE
  /\ late_claims = [n \in Node |-> 0]

(***************************************************************************)
(* Helpers on a thread                                                     *)
(***************************************************************************)
LastAttempt(n)     == attempts[n][Len(attempts[n])]
AttemptedModels(n) == {attempts[n][i].model : i \in 1 .. Len(attempts[n])}

\* _category: a call that was never made counts as CALL_LIMIT_EXHAUSTED.
Category(n) ==
  IF attempts[n] = <<>> THEN "call-limit" ELSE LastAttempt(n).outcome

GoTo(n, label) == pc' = [pc EXCEPT ![n] = label]

BeginCall(n, kind, m, purpose) ==
  /\ cur' = [cur EXCEPT ![n] = [kind |-> kind, endpoint |-> m]]
  /\ phase' = [phase EXCEPT ![n] = purpose]
  /\ GoTo(n, IF purpose = "zero" THEN "clear"
             ELSE IF kind = "replacement" THEN "identity" ELSE "gate")

Finish(n, status) ==
  /\ result' = [result EXCEPT ![n] = status]
  /\ GoTo(n, "done")
  /\ cur' = [cur EXCEPT ![n] = NoCall]
  /\ UNCHANGED phase

\* execute_node after an unsuccessful recovery.
Fallback(n) == IF best'[n] THEN "success_degraded" ELSE "failed"

AfterCall(n) == IF phase[n] = "zero" THEN "restore" ELSE "resume"

ReturnNone(n) ==
  /\ returned' = [returned EXCEPT ![n] = FALSE]
  /\ GoTo(n, AfterCall(n))

(***************************************************************************)
(* One call, from _recorded_call of the outermost class inwards            *)
(***************************************************************************)
StartNode(n) ==
  /\ pc[n] = "queued"
  /\ stage <= Len(Stages) /\ n \in Stages[stage]
  /\ Cardinality({o \in Stages[stage] : pc[o] \notin {"queued", "done"}}) < Workers
  /\ BeginCall(n, "initial", Selected[n], "initial")
  /\ UNCHANGED <<stage, returned, attempts, search, result, prior_blocked,
                 account, claims, memory, ledger>>

\* A zero-cost call lowers the account circuit before it enters the gates.
ClearBlock(n) ==
  /\ pc[n] = "clear"
  /\ prior_blocked' = [prior_blocked EXCEPT ![n] = provider_account_blocked]
  /\ provider_account_blocked' = FALSE
  /\ GoTo(n, "identity")
  /\ UNCHANGED <<stage, phase, cur, returned, attempts, search, result,
                 credit_402_seen, claims, memory, ledger>>

CheckIdentity(n) ==
  /\ pc[n] = "identity"
  /\ IF Budget!EndpointAvailable(cur[n].endpoint)
     THEN GoTo(n, "gate") /\ UNCHANGED returned
     ELSE ReturnNone(n)
  /\ UNCHANGED <<stage, phase, cur, attempts, search, result, prior_blocked,
                 account, claims, memory, ledger>>

\* (mutant) Only recovery calls are held at the account gate.
AccountGateLetsInitialPass(n) ==
  /\ pc[n] = "gate"
  /\ IF provider_account_blocked /\ cur[n].kind # "initial"
     THEN ReturnNone(n)
     ELSE GoTo(n, "endpoint") /\ UNCHANGED returned
  /\ UNCHANGED <<stage, phase, cur, attempts, search, result, prior_blocked,
                 account, claims, memory, ledger>>

AccountGate(n) ==
  /\ pc[n] = "gate"
  /\ IF provider_account_blocked
     THEN ReturnNone(n)
     ELSE GoTo(n, "endpoint") /\ UNCHANGED returned
  /\ UNCHANGED <<stage, phase, cur, attempts, search, result, prior_blocked,
                 account, claims, memory, ledger>>

CheckEndpoint(n) ==
  /\ pc[n] = "endpoint"
  /\ IF Budget!EndpointAvailable(cur[n].endpoint)
     THEN GoTo(n, "reserve") /\ UNCHANGED returned
     ELSE ReturnNone(n)
  /\ UNCHANGED <<stage, phase, cur, attempts, search, result, prior_blocked,
                 account, claims, memory, ledger>>

Reserve(n) ==
  /\ pc[n] = "reserve"
  /\ Budget!DenialReasons(cur[n].kind) = {}
  /\ Budget!AddReservation(cur[n].kind)
  /\ GoTo(n, "network")
  /\ UNCHANGED <<stage, phase, cur, returned, attempts, search, result,
                 prior_blocked, account, claims, memory, denials,
                 endpoint_failures>>

Deny(n) ==
  /\ pc[n] = "reserve"
  /\ \E r \in Budget!DenialReasons(cur[n].kind) :
       denials' = denials \cup {[kind |-> cur[n].kind, reason |-> r]}
  /\ ReturnNone(n)
  /\ UNCHANGED <<stage, phase, cur, attempts, search, result, prior_blocked,
                 account, claims, memory, counters, pending, endpoint_failures>>

\* The answer text, evaluated: only a rejected or truncated answer can be
\* usable in degraded form or carry a deterministic contract reason.
Rejected == {"truncated", "quality"}

Attempt(n, outcome, usable, reason) ==
  [model |-> cur[n].endpoint, kind |-> cur[n].kind, outcome |-> outcome,
   usable |-> usable, reason |-> reason]

AddAttempt(n, attempt) ==
  /\ attempts' = [attempts EXCEPT ![n] = Append(@, attempt)]
  /\ returned' = [returned EXCEPT ![n] = TRUE]
  /\ GoTo(n, "record")

\* (mutant) The answer's cost is never reconciled.
RespondUnreconciled(n) ==
  /\ pc[n] = "network"
  /\ \E outcome \in Outcomes : AddAttempt(n, Attempt(n, outcome, FALSE, NoReason))
  /\ UNCHANGED <<stage, phase, cur, search, result, prior_blocked, account,
                 claims, memory, ledger>>

Respond(n) ==
  /\ pc[n] = "network"
  /\ \E outcome \in Outcomes :
       \E usable \in IF outcome \in Rejected THEN BOOLEAN ELSE {FALSE},
          reason \in IF outcome \in Rejected THEN Contract \cup {NoReason}
                                             ELSE {NoReason} :
         AddAttempt(n, Attempt(n, outcome, usable, reason))
  /\ pending' = Budget!Reconciled(pending)
  /\ UNCHANGED <<stage, phase, cur, search, result, prior_blocked, account,
                 claims, memory, counters, denials, endpoint_failures>>

\* Evaluating the answer raises after its cost was reconciled.
RespondAndRaise(n) ==
  /\ pc[n] = "network"
  /\ "invalid" \in Outcomes
  /\ AddAttempt(n, Attempt(n, "invalid", FALSE, NoReason))
  /\ pending' = Budget!Reconciled(Budget!Reconciled(pending))
  /\ UNCHANGED <<stage, phase, cur, search, result, prior_blocked, account,
                 claims, memory, counters, denials, endpoint_failures>>

\* repeated_deterministic_quality_signal over the attempts of the run.
QualitySignal(models) ==
  LET threshold ==
        AtLeast(3, CeilSqrt(Cardinality(UNION {models[r] : r \in Contract})) + 1)
  IN  \E r \in Contract : Cardinality(models[r]) >= threshold

\* A non-retryable invalid response; the privacy 404 is one.
HardFailure == {"invalid", "privacy404"}

RecordFeedback(n) ==
  LET a == LastAttempt(n)
  IN  /\ pc[n] = "record"
      /\ IF a.outcome = "transient"
         THEN Budget!FailEndpoint(a.model)
         ELSE UNCHANGED endpoint_failures
      /\ hard_failed_model_ids' = hard_failed_model_ids \cup
           (IF a.outcome \in HardFailure THEN {a.model} ELSE {})
      /\ quality_models' =
           [r \in Contract |->
             quality_models[r] \cup (IF r = a.reason THEN {a.model} ELSE {})]
      /\ quality_circuit_open' =
           (quality_circuit_open \/ QualitySignal(quality_models'))
      /\ GoTo(n, IF a.outcome \in HardFailure \cup {"credit402"}
                 THEN "mark" ELSE AfterCall(n))
      /\ UNCHANGED <<stage, phase, cur, returned, attempts, search, result,
                     prior_blocked, account, claims, counters, pending, denials>>

MarkBlocked(n) ==
  /\ pc[n] = "mark"
  /\ LastAttempt(n).outcome = "credit402"
  /\ provider_account_blocked' = TRUE
  /\ credit_402_seen' = TRUE
  /\ GoTo(n, AfterCall(n))
  /\ UNCHANGED <<stage, phase, cur, returned, attempts, search, result,
                 prior_blocked, claims, memory, ledger>>

FailInvalidEndpoint(n) ==
  /\ pc[n] = "mark"
  /\ LastAttempt(n).outcome \in HardFailure
  /\ Budget!FailEndpoint(LastAttempt(n).model)
  /\ GoTo(n, AfterCall(n))
  /\ UNCHANGED <<stage, phase, cur, returned, attempts, search, result,
                 prior_blocked, account, claims, memory, counters, pending,
                 denials>>

\* (mutant) The finally clause writes back the value it read.
RestoreBlockToPrior(n) ==
  /\ pc[n] = "restore"
  /\ provider_account_blocked' = prior_blocked[n]
  /\ prior_blocked' = [prior_blocked EXCEPT ![n] = FALSE]
  /\ GoTo(n, "resume")
  /\ UNCHANGED <<stage, phase, cur, returned, attempts, search, result,
                 credit_402_seen, claims, memory, ledger>>

\* The finally clause of the zero-cost call.
RestoreBlock(n) ==
  /\ pc[n] = "restore"
  /\ provider_account_blocked' = (provider_account_blocked \/ prior_blocked[n])
  /\ prior_blocked' = [prior_blocked EXCEPT ![n] = FALSE]
  /\ GoTo(n, "resume")
  /\ UNCHANGED <<stage, phase, cur, returned, attempts, search, result,
                 credit_402_seen, claims, memory, ledger>>

(***************************************************************************)
(* execute_node after a call: what is tried next                           *)
(***************************************************************************)
Resuming(n, purpose) ==
  /\ pc[n] = "resume" /\ phase[n] = purpose
  /\ ~(returned[n] /\ Category(n) = "passed")
  /\ UNCHANGED <<stage, returned, attempts, prior_blocked, account, claims,
                 memory, ledger>>

\* (mutant) The latest answer replaces a better one.
KeepBestLatest(n, attempted) ==
  best' = [best EXCEPT ![n] = attempted /\ LastAttempt(n).usable]

KeepBest(n, attempted) ==
  best' = [best EXCEPT ![n] = @ \/ (attempted /\ LastAttempt(n).usable)]

\* The ordinary recovery loop starts from the pool without hard failures.
StartSearch(n) ==
  /\ GoTo(n, "select")
  /\ cur' = [cur EXCEPT ![n] = NoCall]
  /\ remaining' = [remaining EXCEPT ![n] = Recovery \ hard_failed_model_ids]
  /\ UNCHANGED <<phase, result>>

ContinueSearch(n) ==
  /\ GoTo(n, "select")
  /\ cur' = [cur EXCEPT ![n] = NoCall]
  /\ UNCHANGED <<phase, remaining, result>>

GiveUp(n) == Finish(n, Fallback(n)) /\ UNCHANGED remaining

StatusFor == [initial |-> "success", samemodel |-> "success_retried",
              recover |-> "success_recovered", rebind |-> "success_recovered",
              zero |-> "success_recovered"]

ResumePassed(n) ==
  /\ pc[n] = "resume"
  /\ returned[n] /\ Category(n) = "passed"
  /\ Finish(n, StatusFor[phase[n]])
  /\ UNCHANGED <<stage, returned, attempts, search, prior_blocked, account,
                 claims, memory, ledger>>

\* The credit-aware _recover_node reads the account circuit without its lock.
ResumeInitial(n) ==
  /\ Resuming(n, "initial")
  /\ KeepBest(n, returned[n])
  /\ IF Category(n) = "credit402" /\ provider_account_blocked
     THEN /\ GoTo(n, "zselect")
          /\ UNCHANGED <<phase, cur, remaining, result>>
     ELSE IF Category(n) \notin Eligible THEN GiveUp(n)
     ELSE IF Category(n) = "truncated"
     THEN /\ BeginCall(n, "retry", Selected[n], "samemodel")
          /\ UNCHANGED <<remaining, result>>
     ELSE StartSearch(n)
  /\ UNCHANGED <<zero_limit, nonprivacy>>

\* (mutant) A retry that is truncated again is retried again.
ResumeSameModelAgain(n) ==
  /\ Resuming(n, "samemodel")
  /\ KeepBest(n, returned[n])
  /\ IF returned[n] /\ Category(n) = "truncated"
     THEN /\ BeginCall(n, "retry", Selected[n], "samemodel")
          /\ UNCHANGED <<remaining, result>>
     ELSE IF Category(n) \in Eligible THEN StartSearch(n) ELSE GiveUp(n)
  /\ UNCHANGED <<zero_limit, nonprivacy>>

\* A suppressed retry leaves the category as it was, truncated.
ResumeSameModel(n) ==
  /\ Resuming(n, "samemodel")
  /\ KeepBest(n, returned[n])
  /\ IF Category(n) \in Eligible THEN StartSearch(n) ELSE GiveUp(n)
  /\ UNCHANGED <<zero_limit, nonprivacy>>

\* A truncated replacement is retried once before it is judged; a suppressed
\* one is passed over and the search goes on.
ResumeReplacement(n) ==
  /\ Resuming(n, "recover")
  /\ IF returned[n] /\ Category(n) = "truncated"
     THEN /\ BeginCall(n, "retry", cur[n].endpoint, "rebind")
          /\ UNCHANGED <<remaining, best, result>>
     ELSE /\ KeepBest(n, returned[n])
          /\ IF ~returned[n] \/ Category(n) \in Eligible
             THEN ContinueSearch(n) ELSE GiveUp(n)
  /\ UNCHANGED <<zero_limit, nonprivacy>>

\* feedback_aware_call hands on the retry's attempt in place of the truncated
\* one, or the truncated one when the retry was suppressed.
ResumeRebind(n) ==
  /\ Resuming(n, "rebind")
  /\ KeepBest(n, TRUE)
  /\ IF Category(n) \in Eligible THEN ContinueSearch(n) ELSE GiveUp(n)
  /\ UNCHANGED <<zero_limit, nonprivacy>>

(***************************************************************************)
(* The ordinary recovery loop                                              *)
(***************************************************************************)
\* remaining_initial, filtered again on every turn.
RemainingInitial(n) ==
  remaining[n] \ (AttemptedModels(n) \cup hard_failed_model_ids)

\* The node's own rejected models by contract reason.
NodeQuality(n) ==
  [r \in Contract |->
    {a.model : a \in {attempts[n][i] : i \in {j \in 1 .. Len(attempts[n]) :
                                              attempts[n][j].reason = r}}}]

\* The node's attempts alone can show the signal where the whole run's do not:
\* the threshold grows with the models rejected for any reason.
QualityOpen(n) == quality_circuit_open \/ QualitySignal(NodeQuality(n))

\* (mutant) Standby is promoted although the quality circuit is open.
PromotableDespiteQuality(n) ==
  IF provider_account_blocked THEN {}
  ELSE Standby \ (standby_claimed \cup hard_failed_model_ids)

Promotable(n) ==
  IF QualityOpen(n) \/ provider_account_blocked THEN {}
  ELSE Standby \ (standby_claimed \cup hard_failed_model_ids)

Selecting(n) ==
  /\ pc[n] = "select"
  /\ UNCHANGED <<stage, returned, attempts, best, zero_limit, nonprivacy,
                 prior_blocked, account, claims, hard_failed_model_ids,
                 quality_models, ledger>>

\* One turn of the loop recomputes the space, unless the account is blocked.
Replanning(n) ==
  /\ Selecting(n)
  /\ ~provider_account_blocked
  /\ quality_circuit_open' = QualityOpen(n)

StopSearch(n) ==
  /\ \/ /\ Selecting(n)
        /\ provider_account_blocked
        /\ UNCHANGED quality_circuit_open
     \/ /\ Replanning(n)
        /\ RemainingInitial(n) \cup Promotable(n) = {}
  /\ GiveUp(n)

SelectInitial(n) ==
  /\ Replanning(n)
  /\ \E m \in RemainingInitial(n) :
       /\ remaining' = [remaining EXCEPT ![n] = RemainingInitial(n) \ {m}]
       /\ BeginCall(n, "replacement", m, "recover")
  /\ UNCHANGED result

SelectStandby(n) ==
  /\ Replanning(n)
  /\ \E m \in Promotable(n) :
       cur' = [cur EXCEPT ![n] = [kind |-> "replacement", endpoint |-> m]]
  /\ remaining' = [remaining EXCEPT ![n] = RemainingInitial(n)]
  /\ GoTo(n, "claim")
  /\ UNCHANGED <<phase, result>>

AddClaim(n, m) ==
  /\ standby_claimed' = standby_claimed \cup {m}
  /\ late_claims' = [late_claims EXCEPT ![n] = @ + Budget!Tick(quality_circuit_open)]

\* _claim_specific_standby; a claim that fails sends the search round again.
Claim(n) ==
  LET m == cur[n].endpoint
  IN  /\ pc[n] = "claim"
      /\ IF \/ m \in standby_claimed \cup hard_failed_model_ids
            \/ provider_account_blocked
         THEN ContinueSearch(n) /\ UNCHANGED claims
         ELSE /\ AddClaim(n, m)
              /\ BeginCall(n, "replacement", m, "recover")
              /\ UNCHANGED <<remaining, result>>
      /\ UNCHANGED <<stage, returned, attempts, best, zero_limit, nonprivacy,
                     prior_blocked, account, memory, ledger>>

(***************************************************************************)
(* Zero-cost recovery of a node whose own initial call met the 402         *)
(***************************************************************************)
ZeroCostSpace(n) ==
  ((Recovery \cup Standby) \cap Free)
    \ (AttemptedModels(n) \cup hard_failed_model_ids \cup standby_claimed)

\* The depth is between one and the size of the space when it is first seen,
\* and stays the bound on failures that are no privacy 404.
SelectZeroCost(n) ==
  /\ pc[n] = "zselect"
  /\ \E m \in ZeroCostSpace(n) :
       IF m \in Standby
       THEN /\ cur' = [cur EXCEPT ![n] = [kind |-> "replacement", endpoint |-> m]]
            /\ GoTo(n, "zclaim")
            /\ UNCHANGED phase
       ELSE BeginCall(n, "replacement", m, "zero")
  /\ \E depth \in 1 .. Cardinality(ZeroCostSpace(n)) :
       zero_limit' = [zero_limit EXCEPT ![n] = IF @ = 0 THEN depth ELSE @]
  /\ UNCHANGED <<stage, returned, attempts, remaining, best, nonprivacy, result,
                 prior_blocked, account, claims, memory, ledger>>

\* The search may also stop with models in the space, when the account's policy
\* excludes them all (RecoveryOrder has the policy).
StopZeroCost(n) ==
  /\ pc[n] = "zselect"
  /\ UNCHANGED search
  /\ Finish(n, Fallback(n))
  /\ UNCHANGED <<stage, returned, attempts, prior_blocked, account, claims,
                 memory, ledger>>

\* (mutant) The zero-cost claim only looks at the hard failures.
ClaimZeroCostUnchecked(n) ==
  LET m == cur[n].endpoint
  IN  /\ pc[n] = "zclaim"
      /\ IF m \in hard_failed_model_ids
         THEN /\ GoTo(n, "zselect")
              /\ UNCHANGED <<phase, cur, standby_claimed>>
         ELSE /\ standby_claimed' = standby_claimed \cup {m}
              /\ BeginCall(n, "replacement", m, "zero")
      /\ UNCHANGED <<stage, returned, attempts, search, result, prior_blocked,
                     account, late_claims, memory, ledger>>

\* _claim_zero_cost_standby asks neither the account nor the quality circuit.
ClaimZeroCost(n) ==
  LET m == cur[n].endpoint
  IN  /\ pc[n] = "zclaim"
      /\ IF m \in standby_claimed \cup hard_failed_model_ids
         THEN /\ GoTo(n, "zselect")
              /\ UNCHANGED <<phase, cur, standby_claimed>>
         ELSE /\ standby_claimed' = standby_claimed \cup {m}
              /\ BeginCall(n, "replacement", m, "zero")
      /\ UNCHANGED <<stage, returned, attempts, search, result, prior_blocked,
                     account, late_claims, memory, ledger>>

\* (mutant) A call that was suppressed does not count as a failure.
ResumeZeroCostUncounted(n) ==
  LET outcome == IF returned[n] THEN Category(n) ELSE "none"
      failures ==
        nonprivacy[n] + Budget!Tick(outcome \notin {"privacy404", "none"})
  IN  /\ Resuming(n, "zero")
      /\ KeepBest(n, returned[n])
      /\ UNCHANGED <<remaining, zero_limit>>
      /\ IF outcome = "credit402"
         THEN Finish(n, Fallback(n)) /\ UNCHANGED nonprivacy
         ELSE /\ nonprivacy' = [nonprivacy EXCEPT ![n] = failures]
              /\ IF outcome # "privacy404" /\ failures >= zero_limit[n]
                 THEN Finish(n, Fallback(n))
                 ELSE GoTo(n, "zselect") /\ UNCHANGED <<phase, cur, result>>

ResumeZeroCost(n) ==
  LET outcome == IF returned[n] THEN Category(n) ELSE "none"
      failures == nonprivacy[n] + Budget!Tick(outcome # "privacy404")
  IN  /\ Resuming(n, "zero")
      /\ KeepBest(n, returned[n])
      /\ UNCHANGED <<remaining, zero_limit>>
      /\ IF outcome = "credit402"
         THEN Finish(n, Fallback(n)) /\ UNCHANGED nonprivacy
         ELSE /\ nonprivacy' = [nonprivacy EXCEPT ![n] = failures]
              /\ IF outcome # "privacy404" /\ failures >= zero_limit[n]
                 THEN Finish(n, Fallback(n))
                 ELSE GoTo(n, "zselect") /\ UNCHANGED <<phase, cur, result>>

(***************************************************************************)
(* The stages                                                              *)
(***************************************************************************)
RunOver == stage > Len(Stages)

\* (mutant) The run also stops early when no recovery call is left.
AdvanceStageOnPoolSpent ==
  /\ ~RunOver
  /\ \A n \in Stages[stage] : pc[n] = "done"
  /\ stage' = IF recovery_calls_reserved >= RecoveryLimit
              THEN Len(Stages) + 1 ELSE stage + 1
  /\ UNCHANGED <<where, returned, attempts, search, result, prior_blocked,
                 account, claims, memory, ledger>>

\* The barrier between stages; the run stops early when no call is left.
AdvanceStage ==
  /\ ~RunOver
  /\ \A n \in Stages[stage] : pc[n] = "done"
  /\ stage' = IF calls_reserved >= Budget!TotalLimit
              THEN Len(Stages) + 1 ELSE stage + 1
  /\ UNCHANGED <<where, returned, attempts, search, result, prior_blocked,
                 account, claims, memory, ledger>>

Finished == RunOver /\ UNCHANGED vars

Call(n) ==
  \/ StartNode(n) \/ ClearBlock(n) \/ CheckIdentity(n) \/ AccountGate(n)
  \/ CheckEndpoint(n) \/ Reserve(n) \/ Deny(n) \/ Respond(n)
  \/ RespondAndRaise(n) \/ RecordFeedback(n) \/ MarkBlocked(n)
  \/ FailInvalidEndpoint(n) \/ RestoreBlock(n)

Recover(n) ==
  \/ ResumePassed(n) \/ ResumeInitial(n) \/ ResumeSameModel(n)
  \/ ResumeReplacement(n) \/ ResumeRebind(n) \/ StopSearch(n)
  \/ SelectInitial(n) \/ SelectStandby(n) \/ Claim(n)
  \/ SelectZeroCost(n) \/ StopZeroCost(n) \/ ClaimZeroCost(n)
  \/ ResumeZeroCost(n)

Step(n) == Call(n) \/ Recover(n)

Next == (\E n \in Node : Step(n)) \/ AdvanceStage \/ Finished

Spec == Init /\ [][Next]_vars

\* Threads are scheduled, and a model call ends: openrouter_api enforces a
\* hard deadline on every request.
FairSpec ==
  /\ Spec
  /\ \A n \in Node : WF_vars(Step(n))
  /\ WF_vars(AdvanceStage)

(***************************************************************************)
(* Properties                                                              *)
(***************************************************************************)
PC == {"queued", "clear", "identity", "gate", "endpoint", "reserve", "network",
       "record", "mark", "restore", "resume", "select", "claim", "zselect",
       "zclaim", "done"}
Phase  == {"initial", "samemodel", "recover", "rebind", "zero"}
Status == {"running", "success", "success_retried", "success_recovered",
           "success_degraded", "failed"}
AttemptRecord ==
  [model : Model, kind : {"initial", "retry", "replacement"}, outcome : Outcome,
   usable : BOOLEAN, reason : Contract \cup {NoReason}]

\* Every variable of the engine holds a value of its kind.
TypeOK ==
  /\ stage \in 1 .. Len(Stages) + 1
  /\ pc \in [Node -> PC] /\ phase \in [Node -> Phase]
  /\ cur \in [Node -> [kind : {"initial", "retry", "replacement"},
                       endpoint : Model] \cup {NoCall}]
  /\ returned \in [Node -> BOOLEAN]
  /\ attempts \in [Node -> Seq(AttemptRecord)]
  /\ remaining \in [Node -> SUBSET Model]
  /\ best \in [Node -> BOOLEAN] /\ result \in [Node -> Status]
  /\ prior_blocked \in [Node -> BOOLEAN]
  /\ zero_limit \in [Node -> Nat] /\ nonprivacy \in [Node -> Nat]
  /\ provider_account_blocked \in BOOLEAN /\ credit_402_seen \in BOOLEAN
  /\ standby_claimed \subseteq Model /\ hard_failed_model_ids \subseteq Model
  /\ quality_models \in [Contract -> SUBSET Model]
  /\ quality_circuit_open \in BOOLEAN
  /\ late_claims \in [Node -> Nat]

\* Nodes whose zero-cost call is between lowering the account circuit and
\* the finally clause that raises it again.
ZeroCostInFlight == {n \in Node : prior_blocked[n]}

\* A recorded 402 is never forgotten: at any later moment the account circuit
\* is up, or a zero-cost call that found it up is in flight and will raise it
\* again, however many such calls overlap (_recorded_call, finally clause).
AccountCircuitHeld ==
  credit_402_seen =>
    \/ provider_account_blocked
    \/ ZeroCostInFlight # {}

\* "After an actual account-credit 402, paid follow-up calls remain
\* suppressed": no call of a model that is not free passes the account gate
\* once a 402 has been recorded.
NoPaidCallAfter402 ==
  [][\A n \in Node :
       credit_402_seen /\ pc[n] = "gate" /\ pc'[n] = "endpoint"
         => cur[n].endpoint \in Free]_vars

\* What the account gate does guarantee: after a 402, a paid call can only
\* slip in while a zero-cost call of another node has the circuit lowered.
PaidCallNeedsZeroCostWindow ==
  [][\A n \in Node :
       credit_402_seen /\ pc[n] = "gate" /\ pc'[n] = "endpoint"
         /\ cur[n].endpoint \notin Free
         => ZeroCostInFlight \ {n} # {}]_vars

\* A standby model is a candidate of one node only: claims made by parallel
\* searches, ordinary and zero-cost, never hand the same model to two nodes.
StandbyUsedByOneNode ==
  \A m \in Standby : \A n, o \in Node :
    m \in AttemptedModels(n) /\ m \in AttemptedModels(o) => n = o

\* A node calls the same model again only to repair a truncated answer, once,
\* and right away; no path through the search returns to a tried model.
SameModelOnlyToRepairTruncation ==
  \A n \in Node : \A i, j \in 1 .. Len(attempts[n]) :
    i < j /\ attempts[n][i].model = attempts[n][j].model
      => /\ j = i + 1
         /\ attempts[n][i].outcome = "truncated"
         /\ attempts[n][i].kind # "retry" /\ attempts[n][j].kind = "retry"

\* Once the quality circuit is open a node promotes at most the one standby
\* it had chosen before: the choice and the claim are separate sections, and
\* the claim does not look at the circuit.
LateClaimsBounded == \A n \in Node : late_claims[n] <= 1

Succeeded == {"success", "success_retried", "success_recovered"}

\* A node reports strict success exactly when the last answer it paid for
\* passed, and no passing answer is ever followed by another call.
SuccessIsTheLastAnswer ==
  \A n \in Node :
    /\ \A i \in 1 .. Len(attempts[n]) :
         attempts[n][i].outcome = "passed" => i = Len(attempts[n])
    /\ pc[n] = "done" =>
         (result[n] \in Succeeded) = (Category(n) = "passed")

\* A usable but rejected answer is lost to a failed node only in one way: it
\* was the truncated answer of a replacement, retried on the same model with
\* an answer that is not usable.
UsableAnswerLostOnlyByRebind ==
  \A n \in Node : result[n] = "failed" =>
    \A i \in 1 .. Len(attempts[n]) : attempts[n][i].usable =>
      /\ attempts[n][i].kind = "replacement"
      /\ attempts[n][i].outcome = "truncated"
      /\ i < Len(attempts[n])
      /\ attempts[n][i + 1].kind = "retry"
      /\ attempts[n][i + 1].model = attempts[n][i].model

\* What a node reports follows from its answers, in both directions.
OutcomeFollowsAnswers == SuccessIsTheLastAnswer /\ UsableAnswerLostOnlyByRebind

\* The early stop of the stage loop never skips a node: the run's call
\* capacity is only exhausted once every node has had its initial call.
NoNodeSkipped == RunOver => \A n \in Node : pc[n] = "done"

\* reserve denies no initial call, however the recoveries interleave.
InitialCallNeverDenied == Budget!InitialCallNeverDenied

\* The engine drives the budget controller as CallBudget promises.
ImplementsBudget == Budget!Spec

\* Every node gets a result and the run ends: recovery is a finite search
\* although the candidate space is recomputed before every call.
RunTerminates == <>RunOver

=============================================================================
