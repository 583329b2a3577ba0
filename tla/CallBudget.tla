----------------------------- MODULE CallBudget -----------------------------
(***************************************************************************)
(* The BudgetController of v5_runtime_legacy.py / v5_runtime.py: the one   *)
(* ledger shared by all node threads of a run.  A node thread makes its    *)
(* first ("initial") call once, and any number of "retry" / "replacement"  *)
(* calls after it.  One call is a sequence of separately locked sections,  *)
(*                                                                         *)
(*   [identity ->] endpoint -> reserve -> network -> record                *)
(*                                                                         *)
(* and other threads interleave between any two of them.  Amounts of money *)
(* are left out: they are advisory and no decision of the controller reads *)
(* them; what is kept of the pending cost list is its length.              *)
(***************************************************************************)
EXTENDS Integers, FiniteSets

CONSTANTS
  Node,                 \* the expert nodes of the graph, one thread each
  Endpoint,             \* provider endpoints ("<model>@openrouter-auto")
  RecoveryLimit,        \* recovery rows + standby rows of the graph
  MaxProviderFailures,  \* failures that open an endpoint's circuit
  NoCall                \* no call under way

ASSUME NodeAssumption == IsFiniteSet(Node)
ASSUME LimitAssumption ==
  /\ RecoveryLimit \in Nat
  /\ MaxProviderFailures \in Nat \ {0}
ASSUME NoCallAssumption ==
  NoCall \notin [kind : {"initial", "retry", "replacement"}, endpoint : Endpoint]

InitialLimit == Cardinality(Node)
TotalLimit   == InitialLimit + RecoveryLimit

RecoveryKind == {"retry", "replacement"}
Kind         == {"initial"} \cup RecoveryKind
Call         == [kind : Kind, endpoint : Endpoint]
Reason       == {"total-call-limit-exhausted",
                 "initial-call-cap-reserved-for-recovery",
                 "shared-recovery-pool-exhausted"}

VARIABLES
  pc,                            \* where each thread is in its call
  call,                          \* the call it is making
  asked,                         \* it has begun its initial call
  calls_reserved,
  initial_calls_reserved,
  recovery_calls_reserved,
  retry_calls_reserved,
  replacement_calls_reserved,
  pending,                       \* Len(pending_risk_costs)
  denials,                       \* the kinds refused so far, with the reason
  endpoint_failures

counters == <<calls_reserved, initial_calls_reserved, recovery_calls_reserved,
              retry_calls_reserved, replacement_calls_reserved>>
thread   == <<pc, call, asked>>
vars     == <<thread, counters, pending, denials, endpoint_failures>>

Init ==
  /\ pc = [n \in Node |-> "idle"]
  /\ call = [n \in Node |-> NoCall]
  /\ asked = [n \in Node |-> FALSE]
  /\ calls_reserved = 0
  /\ initial_calls_reserved = 0
  /\ recovery_calls_reserved = 0
  /\ retry_calls_reserved = 0
  /\ replacement_calls_reserved = 0
  /\ pending = 0
  /\ denials = {}
  /\ endpoint_failures = [e \in Endpoint |-> 0]

EndpointAvailable(e) == endpoint_failures[e] < MaxProviderFailures

\* (mutant) Recovery calls are only held to the total.
DenialReasonsNoPool(kind) ==
  IF calls_reserved >= TotalLimit
  THEN {"total-call-limit-exhausted"}
  ELSE IF kind = "initial" /\ initial_calls_reserved >= InitialLimit
  THEN {"initial-call-cap-reserved-for-recovery"}
  ELSE {}

(***************************************************************************)
(* reserve: the first limit the call runs into, in the order tested.       *)
(***************************************************************************)
DenialReasons(kind) ==
  IF calls_reserved >= TotalLimit
  THEN {"total-call-limit-exhausted"}
  ELSE IF kind = "initial" /\ initial_calls_reserved >= InitialLimit
  THEN {"initial-call-cap-reserved-for-recovery"}
  ELSE IF kind # "initial" /\ recovery_calls_reserved >= RecoveryLimit
  THEN {"shared-recovery-pool-exhausted"}
  ELSE {}

\* One unit of count when P holds.
Tick(P) == IF P THEN 1 ELSE 0

AddReservation(kind) ==
  /\ calls_reserved' = calls_reserved + 1
  /\ initial_calls_reserved' = initial_calls_reserved + Tick(kind = "initial")
  /\ recovery_calls_reserved' = recovery_calls_reserved + Tick(kind # "initial")
  /\ retry_calls_reserved' = retry_calls_reserved + Tick(kind = "retry")
  /\ replacement_calls_reserved' =
       replacement_calls_reserved + Tick(kind = "replacement")
  /\ pending' = pending + 1

\* reconcile pops the oldest pending cost, if there is one.
Reconciled(p) == IF p > 0 THEN p - 1 ELSE 0

FailEndpoint(e) ==
  endpoint_failures' = [endpoint_failures EXCEPT ![e] = @ + 1]

(***************************************************************************)
(* One thread's call                                                       *)
(***************************************************************************)
GoTo(n, label) == pc' = [pc EXCEPT ![n] = label]

EndCall(n) ==
  /\ GoTo(n, "idle")
  /\ call' = [call EXCEPT ![n] = NoCall]

Request(n, kind, e) ==
  /\ pc[n] = "idle"
  /\ (kind = "initial") = ~asked[n]
  /\ call' = [call EXCEPT ![n] = [kind |-> kind, endpoint |-> e]]
  /\ asked' = [asked EXCEPT ![n] = TRUE]
  /\ GoTo(n, IF kind = "replacement" THEN "identity" ELSE "endpoint")
  /\ UNCHANGED <<counters, pending, denials, endpoint_failures>>

\* (mutant) The circuit is looked at for replacements only.
CheckEndpointOnceOnly(n) ==
  /\ pc[n] \in {"identity", "endpoint"}
  /\ IF pc[n] = "endpoint" \/ EndpointAvailable(call[n].endpoint)
     THEN /\ GoTo(n, IF pc[n] = "identity" THEN "endpoint" ELSE "reserve")
          /\ UNCHANGED call
     ELSE EndCall(n)
  /\ UNCHANGED <<asked, counters, pending, denials, endpoint_failures>>

\* A replacement's endpoint is looked at once before its identity is noted
\* and once more, like every call's, in _attempt.
CheckEndpoint(n) ==
  /\ pc[n] \in {"identity", "endpoint"}
  /\ IF EndpointAvailable(call[n].endpoint)
     THEN /\ GoTo(n, IF pc[n] = "identity" THEN "endpoint" ELSE "reserve")
          /\ UNCHANGED call
     ELSE EndCall(n)
  /\ UNCHANGED <<asked, counters, pending, denials, endpoint_failures>>

\* The engine suppresses the call (provider account blocked) before _attempt.
Withdraw(n) ==
  /\ pc[n] = "endpoint"
  /\ EndCall(n)
  /\ UNCHANGED <<asked, counters, pending, denials, endpoint_failures>>

Reserve(n) ==
  /\ pc[n] = "reserve"
  /\ DenialReasons(call[n].kind) = {}
  /\ AddReservation(call[n].kind)
  /\ GoTo(n, "network")
  /\ UNCHANGED <<call, asked, denials, endpoint_failures>>

Deny(n) ==
  /\ pc[n] = "reserve"
  /\ \E r \in DenialReasons(call[n].kind) :
       denials' = denials \cup {[kind |-> call[n].kind, reason |-> r]}
  /\ EndCall(n)
  /\ UNCHANGED <<asked, counters, pending, endpoint_failures>>

\* (mutant) A call that raises leaves its cost pending.
SettleWithoutReconcile(n) ==
  /\ pc[n] = "network"
  /\ GoTo(n, "record")
  /\ UNCHANGED <<call, asked, counters, pending, denials, endpoint_failures>>

\* The call returns or raises: one reconcile.
Settle(n) ==
  /\ pc[n] = "network"
  /\ pending' = Reconciled(pending)
  /\ GoTo(n, "record")
  /\ UNCHANGED <<call, asked, counters, denials, endpoint_failures>>

\* The answer's evaluation raises after its cost was reconciled, and the
\* handler reconciles a second time, popping another call's entry.
SettleTwice(n) ==
  /\ pc[n] = "network"
  /\ pending' = Reconciled(Reconciled(pending))
  /\ GoTo(n, "record")
  /\ UNCHANGED <<call, asked, counters, denials, endpoint_failures>>

\* The attempt is recorded; a transport failure counts against its endpoint.
Record(n, failed) ==
  /\ pc[n] = "record"
  /\ IF failed THEN FailEndpoint(call[n].endpoint)
               ELSE UNCHANGED endpoint_failures
  /\ EndCall(n)
  /\ UNCHANGED <<asked, counters, pending, denials>>

Step(n) ==
  \/ \E kind \in Kind, e \in Endpoint : Request(n, kind, e)
  \/ CheckEndpoint(n)
  \/ Withdraw(n)
  \/ Reserve(n)
  \/ Deny(n)
  \/ Settle(n)
  \/ SettleTwice(n)
  \/ \E failed \in BOOLEAN : Record(n, failed)

Next == \E n \in Node : Step(n)

Spec == Init /\ [][Next]_vars

(***************************************************************************)
(* Properties                                                              *)
(***************************************************************************)
PC == {"idle", "identity", "endpoint", "reserve", "network", "record"}

\* Every variable holds a value of its kind, and a thread has a call exactly
\* while it is inside one (BudgetController.__init__ and the _attempt path).
TypeOK ==
  /\ pc \in [Node -> PC]
  /\ call \in [Node -> Call \cup {NoCall}]
  /\ asked \in [Node -> BOOLEAN]
  /\ \A n \in Node : (pc[n] = "idle") = (call[n] = NoCall)
  /\ \A n \in Node : pc[n] # "idle" => asked[n]
  /\ calls_reserved \in Nat
  /\ initial_calls_reserved \in Nat
  /\ recovery_calls_reserved \in Nat
  /\ retry_calls_reserved \in Nat
  /\ replacement_calls_reserved \in Nat
  /\ pending \in Nat
  /\ denials \in SUBSET [kind : Kind, reason : Reason]
  /\ endpoint_failures \in [Endpoint -> Nat]

\* The five counters of the ledger tell one story and stay within the
\* capacity of the finite graph, whatever the interleaving of reserve calls.
LedgerBalanced ==
  /\ calls_reserved = initial_calls_reserved + recovery_calls_reserved
  /\ recovery_calls_reserved = retry_calls_reserved + replacement_calls_reserved
  /\ initial_calls_reserved <= InitialLimit
  /\ recovery_calls_reserved <= RecoveryLimit

\* Recovery traffic of nodes that failed early never eats the call a later
\* node needs for its own first attempt: reserve denies no initial call.
InitialCallNeverDenied == \A d \in denials : d.kind # "initial"

\* Threads that may still add a failure to endpoint e: they passed the check
\* of endpoint_available and have not recorded their attempt yet.
Committed(e) ==
  {n \in Node : pc[n] \in {"reserve", "network", "record"}
                /\ call[n].endpoint = e}

\* The check of an endpoint's circuit and the failure that opens it are
\* separate critical sections, so the failure count can pass the threshold,
\* but by less than the number of threads.
EndpointOvershootBounded ==
  \A e \in Endpoint :
    endpoint_failures[e] + Cardinality(Committed(e))
      <= MaxProviderFailures - 1 + Cardinality(Node)

InFlight == {n \in Node : pc[n] = "network"}

\* No reserved cost outlives its call: once no call is in flight, snapshot
\* reports nothing as still reserved, although reconcile pops whichever entry
\* is the oldest and a failing evaluation pops two.
PendingCoveredByCalls == pending <= Cardinality(InFlight)

\* The ledger is right at both ends: what is booked and what is still reserved
\* never drift apart from the calls that are made.
LedgerSound == LedgerBalanced /\ PendingCoveredByCalls

\* "total-call-limit-exhausted" is only ever answered when the shared
\* recovery pool is used up as well: the total is never the tighter limit.
TotalDenialMeansPoolSpent ==
  \A d \in denials :
    d.reason = "total-call-limit-exhausted"
      => /\ recovery_calls_reserved = RecoveryLimit
         /\ initial_calls_reserved = InitialLimit

\* What reserve denies, and with which reason: never a node's own first call,
\* however much recovery traffic came before it, and never with the total as
\* the reason while a share of it is left.
DenialsJustified == InitialCallNeverDenied /\ TotalDenialMeansPoolSpent

=============================================================================
