-------------------------- MODULE CallBudget_proof --------------------------
(***************************************************************************)
(* Proofs about CallBudget, for any finite set of nodes, any endpoints and *)
(* any limits.                                                             *)
(***************************************************************************)
EXTENDS CallBudget, FiniteSetTheorems, TLAPS

(***************************************************************************)
(* Counting sets of threads                                                *)
(***************************************************************************)
LEMMA ThreadSet ==
  ASSUME NEW S \in SUBSET Node
  PROVE  /\ IsFiniteSet(S)
         /\ Cardinality(S) \in Nat
         /\ Cardinality(S) <= Cardinality(Node)
         /\ Cardinality(Node) \in Nat
BY FS_Subset, FS_CardinalityType, NodeAssumption

\* A thread enters the set: the count grows by at most one.
LEMMA ThreadJoins ==
  ASSUME NEW S \in SUBSET Node, NEW n \in Node
  PROVE  Cardinality(S \cup {n}) = IF n \in S THEN Cardinality(S)
                                             ELSE Cardinality(S) + 1
BY ThreadSet, FS_AddElement

\* A thread leaves the set: the count drops by one, and was positive.
LEMMA ThreadLeaves ==
  ASSUME NEW S \in SUBSET Node, NEW n \in S
  PROVE  /\ Cardinality(S \ {n}) = Cardinality(S) - 1
         /\ Cardinality(S) >= 1
<1>1. /\ IsFiniteSet(S) /\ S \ {n} \in SUBSET Node
  BY ThreadSet
<1>2. Cardinality(S \ {n}) = Cardinality(S) - 1
  BY <1>1, FS_RemoveElement
<1>3. Cardinality(S \ {n}) \in Nat /\ Cardinality(S) \in Nat
  BY <1>1, ThreadSet
<1> QED BY <1>2, <1>3

(***************************************************************************)
(* Type correctness                                                        *)
(***************************************************************************)
LEMMA DenialReasonsType ==
  ASSUME NEW kind
  PROVE  DenialReasons(kind) \in SUBSET Reason
BY DEF DenialReasons, Reason

\* The variables keep their types, and a thread holds a call exactly while it
\* is inside one, for every number of nodes and endpoints.
THEOREM TypeCorrect == Spec => []TypeOK
<1>1. Init => TypeOK
  BY DEF Init, TypeOK, PC
<1>2. TypeOK /\ [Next]_vars => TypeOK'
  <2> SUFFICES ASSUME TypeOK, [Next]_vars PROVE TypeOK'
    OBVIOUS
  <2> USE DEF TypeOK, PC
  <2>1. ASSUME NEW n \in Node, NEW kind \in Kind, NEW e \in Endpoint,
               Request(n, kind, e)
        PROVE  TypeOK'
    <3>1. [kind |-> kind, endpoint |-> e] \in Call
      BY DEF Call
    <3>2. [kind |-> kind, endpoint |-> e] # NoCall
      BY <3>1, NoCallAssumption DEF Call, Kind, RecoveryKind
    <3> QED BY <2>1, <3>1, <3>2 DEF Request, GoTo, counters
  <2>2. ASSUME NEW n \in Node, CheckEndpoint(n) PROVE TypeOK'
    BY <2>2 DEF CheckEndpoint, EndCall, GoTo, counters
  <2>3. ASSUME NEW n \in Node, Withdraw(n) PROVE TypeOK'
    BY <2>3 DEF Withdraw, EndCall, GoTo, counters
  <2>4. ASSUME NEW n \in Node, Reserve(n) PROVE TypeOK'
    BY <2>4 DEF Reserve, AddReservation, GoTo, Tick
  <2>5. ASSUME NEW n \in Node, Deny(n) PROVE TypeOK'
    <3>1. call[n] \in Call
      BY <2>5 DEF Deny
    <3>2. PICK r \in DenialReasons(call[n].kind) :
            denials' = denials \cup {[kind |-> call[n].kind, reason |-> r]}
      BY <2>5 DEF Deny
    <3>3. r \in Reason /\ call[n].kind \in Kind
      BY <3>1, <3>2, DenialReasonsType DEF Call
    <3>4. denials' \in SUBSET [kind : Kind, reason : Reason]
      BY <3>2, <3>3
    <3> QED BY <2>5, <3>4 DEF Deny, EndCall, GoTo, counters
  <2>6. ASSUME NEW n \in Node, Settle(n) PROVE TypeOK'
    BY <2>6 DEF Settle, Reconciled, GoTo, counters
  <2>7. ASSUME NEW n \in Node, SettleTwice(n) PROVE TypeOK'
    BY <2>7 DEF SettleTwice, Reconciled, GoTo, counters
  <2>8. ASSUME NEW n \in Node, NEW failed \in BOOLEAN, Record(n, failed)
        PROVE  TypeOK'
    BY <2>8 DEF Record, FailEndpoint, EndCall, GoTo, counters
  <2>9. CASE UNCHANGED vars
    BY <2>9 DEF vars, thread, counters
  <2> QED BY <2>1, <2>2, <2>3, <2>4, <2>5, <2>6, <2>7, <2>8, <2>9
          DEF Next, Step
<1> QED BY <1>1, <1>2, PTL DEF Spec

(***************************************************************************)
(* The ledger                                                              *)
(***************************************************************************)
LEMMA LimitTypes == InitialLimit \in Nat /\ RecoveryLimit \in Nat
BY FS_CardinalityType, NodeAssumption, LimitAssumption DEF InitialLimit

\* What a granted reservation knows about the limits.
LEMMA GrantedBelowLimits ==
  ASSUME TypeOK, NEW kind, DenialReasons(kind) = {}
  PROVE  /\ calls_reserved < TotalLimit
         /\ kind = "initial" => initial_calls_reserved < InitialLimit
         /\ kind # "initial" => recovery_calls_reserved < RecoveryLimit
BY LimitTypes DEF DenialReasons, TypeOK, TotalLimit

\* Steps that are no reservation leave the counters of the ledger alone.
LEMMA CountersMove ==
  ASSUME Next
  PROVE  (\E n \in Node : Reserve(n)) \/ UNCHANGED counters
BY DEF Next, Step, Request, CheckEndpoint, Withdraw, Deny, Settle, SettleTwice,
       Record

\* The counters agree with each other and never pass the capacity of the
\* graph, for every graph size and every interleaving of reserve.
THEOREM LedgerSafe == Spec => []LedgerBalanced
<1>1. Init => LedgerBalanced
  BY LimitTypes DEF Init, LedgerBalanced
<1>2. TypeOK /\ LedgerBalanced /\ [Next]_vars => LedgerBalanced'
  <2> SUFFICES ASSUME TypeOK, LedgerBalanced, [Next]_vars
               PROVE  LedgerBalanced'
    OBVIOUS
  <2>1. ASSUME NEW n \in Node, Reserve(n) PROVE LedgerBalanced'
    <3>1. call[n] \in Call
      BY <2>1 DEF TypeOK, Reserve
    <3>2. call[n].kind \in {"initial", "retry", "replacement"}
      BY <3>1 DEF Call, Kind, RecoveryKind
    <3>3. /\ call[n].kind = "initial" => initial_calls_reserved < InitialLimit
          /\ call[n].kind # "initial" => recovery_calls_reserved < RecoveryLimit
      BY <2>1, GrantedBelowLimits DEF Reserve
    <3> QED BY <2>1, <3>2, <3>3, LimitTypes
            DEF Reserve, AddReservation, Tick, LedgerBalanced, TypeOK
  <2>2. CASE UNCHANGED counters
    BY <2>2 DEF counters, LedgerBalanced
  <2> QED BY <2>1, <2>2, CountersMove DEF vars
<1> QED BY <1>1, <1>2, TypeCorrect, PTL DEF Spec

(***************************************************************************)
(* Initial calls.  The count alone is not inductive: what is needed is     *)
(* that the calls still owed to nodes fit into what is left of the limit.  *)
(***************************************************************************)
Owed == {n \in Node : \/ ~asked[n]
                      \/ /\ pc[n] \in {"identity", "endpoint", "reserve"}
                         /\ call[n].kind = "initial"}

InitialCallsFit == initial_calls_reserved + Cardinality(Owed) <= InitialLimit

InitialInv == InitialCallsFit /\ InitialCallNeverDenied

LEMMA OwedFinite == Cardinality(Owed) \in Nat
BY ThreadSet DEF Owed

\* A step that owes no node a new call, and reserves no initial call, keeps
\* the bound.
LEMMA OwedShrinks ==
  ASSUME TypeOK, InitialCallsFit, Owed' \subseteq Owed,
         initial_calls_reserved' = initial_calls_reserved
  PROVE  InitialCallsFit'
<1>1. IsFiniteSet(Owed) /\ Owed \in SUBSET Node
  BY ThreadSet DEF Owed
<1>2. Cardinality(Owed') <= Cardinality(Owed) /\ Cardinality(Owed') \in Nat
  BY <1>1, FS_Subset, FS_CardinalityType
<1> QED BY <1>2, OwedFinite, LimitTypes
        DEF InitialCallsFit, TypeOK, InitialLimit

LEMMA InitialInvHolds == Spec => []InitialInv
<1>1. Init => InitialInv
  <2> SUFFICES ASSUME Init PROVE InitialInv
    OBVIOUS
  <2>1. Owed = Node
    BY DEF Init, Owed
  <2>2. InitialCallsFit
    BY <2>1, LimitTypes DEF Init, InitialCallsFit, InitialLimit
  <2>3. InitialCallNeverDenied
    BY DEF Init, InitialCallNeverDenied
  <2> QED BY <2>2, <2>3 DEF InitialInv
<1>2. TypeOK /\ LedgerBalanced /\ InitialInv /\ [Next]_vars => InitialInv'
  <2> SUFFICES ASSUME TypeOK, LedgerBalanced, InitialInv, [Next]_vars
               PROVE  InitialInv'
    OBVIOUS
  <2>a. InitialCallsFit /\ InitialCallNeverDenied
    BY DEF InitialInv
  <2>b. ASSUME Owed' \subseteq Owed, UNCHANGED <<counters, denials>>
        PROVE  InitialInv'
    <3>1. InitialCallsFit'
      BY <2>a, <2>b, OwedShrinks DEF counters
    <3>2. InitialCallNeverDenied'
      BY <2>a, <2>b DEF InitialCallNeverDenied
    <3> QED BY <3>1, <3>2 DEF InitialInv
  <2>1. ASSUME NEW n \in Node, NEW kind \in Kind, NEW e \in Endpoint,
               Request(n, kind, e)
        PROVE  InitialInv'
    <3>1. Owed' \subseteq Owed
      BY <2>1 DEF Request, GoTo, Owed, TypeOK
    <3> QED BY <2>1, <3>1, <2>b DEF Request
  <2>2. ASSUME NEW n \in Node, CheckEndpoint(n) PROVE InitialInv'
    <3>1. Owed' \subseteq Owed
      BY <2>2 DEF CheckEndpoint, EndCall, GoTo, Owed, TypeOK
    <3> QED BY <2>2, <3>1, <2>b DEF CheckEndpoint
  <2>3. ASSUME NEW n \in Node, Withdraw(n) PROVE InitialInv'
    <3>1. Owed' \subseteq Owed
      BY <2>3 DEF Withdraw, EndCall, GoTo, Owed, TypeOK
    <3> QED BY <2>3, <3>1, <2>b DEF Withdraw
  <2>4. ASSUME NEW n \in Node, Reserve(n) PROVE InitialInv'
    <3>1. InitialCallNeverDenied'
      BY <2>4, <2>a DEF Reserve, InitialCallNeverDenied
    <3>2. CASE call[n].kind = "initial"
      <4>1. n \in Owed /\ Owed' = Owed \ {n}
        BY <2>4, <3>2 DEF Reserve, GoTo, Owed, TypeOK
      <4>2. Cardinality(Owed') = Cardinality(Owed) - 1
        BY <4>1, ThreadLeaves DEF Owed
      <4>3. initial_calls_reserved' = initial_calls_reserved + 1
        BY <2>4, <3>2 DEF Reserve, AddReservation, Tick
      <4>4. InitialCallsFit'
        BY <4>2, <4>3, <2>a, OwedFinite, LimitTypes
           DEF InitialCallsFit, InitialLimit, TypeOK
      <4> QED BY <3>1, <4>4 DEF InitialInv
    <3>3. CASE call[n].kind # "initial"
      <4>1. Owed' \subseteq Owed
        BY <2>4 DEF Reserve, GoTo, Owed, TypeOK
      <4>2. initial_calls_reserved' = initial_calls_reserved
        BY <2>4, <3>3 DEF Reserve, AddReservation, Tick, TypeOK
      <4>3. InitialCallsFit'
        BY <4>1, <4>2, <2>a, OwedShrinks
      <4> QED BY <3>1, <4>3 DEF InitialInv
    <3> QED BY <3>2, <3>3
  <2>5. ASSUME NEW n \in Node, Deny(n) PROVE InitialInv'
    <3>1. call[n].kind # "initial"
      <4> SUFFICES ASSUME call[n].kind = "initial" PROVE FALSE
        OBVIOUS
      <4>1. n \in Owed
        BY <2>5 DEF Deny, Owed
      <4>2. Cardinality(Owed) >= 1
        BY <4>1, ThreadLeaves DEF Owed
      <4>3. initial_calls_reserved < InitialLimit
        BY <4>2, <2>a, OwedFinite, LimitTypes DEF InitialCallsFit, TypeOK
      <4>4. calls_reserved < TotalLimit
        BY <4>3, LimitTypes DEF LedgerBalanced, TotalLimit, TypeOK
      <4>5. DenialReasons(call[n].kind) = {}
        BY <4>3, <4>4, LimitTypes DEF DenialReasons, TypeOK, TotalLimit
      <4> QED BY <2>5, <4>5 DEF Deny
    <3>2. InitialCallNeverDenied'
      BY <2>5, <3>1, <2>a DEF Deny, InitialCallNeverDenied
    <3>3. Owed' \subseteq Owed
      BY <2>5 DEF Deny, EndCall, GoTo, Owed, TypeOK
    <3>4. InitialCallsFit'
      BY <2>5, <2>a, <3>3, OwedShrinks DEF Deny, counters
    <3> QED BY <3>2, <3>4 DEF InitialInv
  <2>6. ASSUME NEW n \in Node, Settle(n) \/ SettleTwice(n) PROVE InitialInv'
    <3>1. Owed' \subseteq Owed
      BY <2>6 DEF Settle, SettleTwice, GoTo, Owed, TypeOK
    <3> QED BY <2>6, <3>1, <2>b DEF Settle, SettleTwice
  <2>7. ASSUME NEW n \in Node, NEW failed \in BOOLEAN, Record(n, failed)
        PROVE  InitialInv'
    <3>1. Owed' \subseteq Owed
      BY <2>7 DEF Record, EndCall, GoTo, Owed, TypeOK
    <3> QED BY <2>7, <3>1, <2>b DEF Record
  <2>8. CASE UNCHANGED vars
    <3>1. Owed' = Owed
      BY <2>8 DEF vars, thread, Owed
    <3> QED BY <2>8, <3>1, <2>b DEF vars
  <2> QED BY <2>1, <2>2, <2>3, <2>4, <2>5, <2>6, <2>7, <2>8 DEF Next, Step
<1> QED BY <1>1, <1>2, TypeCorrect, LedgerSafe, PTL DEF Spec

\* No initial call is ever denied, however many recovery calls the nodes that
\* failed early have made: the initial share of the capacity is really theirs.
THEOREM InitialCallsSafe == Spec => []InitialCallNeverDenied
<1>1. InitialInv => InitialCallNeverDenied
  BY DEF InitialInv
<1> QED BY <1>1, InitialInvHolds, PTL

\* The capacity is spent only when every node has been asked for its own call.
SpentWhenAllAsked == calls_reserved >= TotalLimit => \A n \in Node : asked[n]

\* The capacity of the graph never runs out before a node's initial call, for
\* every graph size: what is left always covers the calls still owed.
THEOREM SpentLastSafe == Spec => []SpentWhenAllAsked
<1>1. TypeOK /\ LedgerBalanced /\ InitialInv => SpentWhenAllAsked
  <2> SUFFICES ASSUME TypeOK, LedgerBalanced, InitialInv,
                      calls_reserved >= TotalLimit, NEW n \in Node, ~asked[n]
               PROVE  FALSE
    BY DEF SpentWhenAllAsked
  <2>1. Cardinality(Owed) >= 1
    BY ThreadLeaves DEF Owed
  <2>2. initial_calls_reserved >= InitialLimit
    BY LimitTypes DEF LedgerBalanced, TotalLimit, TypeOK
  <2> QED BY <2>1, <2>2, OwedFinite, LimitTypes DEF InitialInv, InitialCallsFit, TypeOK
<1> QED BY <1>1, InitialInvHolds, TypeCorrect, LedgerSafe, PTL

(***************************************************************************)
(* The endpoint circuits                                                   *)
(***************************************************************************)
OvershootAt(e) ==
  endpoint_failures[e] + Cardinality(Committed(e))
    <= MaxProviderFailures - 1 + Cardinality(Node)

LEMMA CommittedSet ==
  ASSUME NEW e
  PROVE  /\ Committed(e) \in SUBSET Node
         /\ Cardinality(Committed(e)) \in Nat
         /\ Cardinality(Committed(e)) <= Cardinality(Node)
         /\ Cardinality(Node) \in Nat
<1>1. Committed(e) \in SUBSET Node
  BY DEF Committed
<1> QED BY <1>1, ThreadSet

\* A step that commits no new thread to e, and adds no failure to it.
LEMMA OvershootKept ==
  ASSUME TypeOK, NEW e \in Endpoint, OvershootAt(e),
         Committed(e)' \subseteq Committed(e),
         endpoint_failures' = endpoint_failures
  PROVE  OvershootAt(e)'
<1>1. IsFiniteSet(Committed(e))
  BY CommittedSet, ThreadSet
<1>2. Cardinality(Committed(e)') <= Cardinality(Committed(e))
  BY <1>1, FS_Subset
<1>3. Cardinality(Committed(e)') \in Nat
  BY <1>1, FS_Subset, FS_CardinalityType
<1> QED BY <1>2, <1>3, CommittedSet, LimitAssumption DEF OvershootAt, TypeOK

\* A circuit opens too late for the threads already past its check, but never
\* by more than those threads: the failures of an endpoint stay below the
\* threshold plus the number of nodes.
THEOREM EndpointCircuitSafe == Spec => []EndpointOvershootBounded
<1>1. Init => EndpointOvershootBounded
  <2> SUFFICES ASSUME Init, NEW e \in Endpoint
               PROVE  endpoint_failures[e] + Cardinality(Committed(e))
                        <= MaxProviderFailures - 1 + Cardinality(Node)
    BY DEF EndpointOvershootBounded
  <2>1. endpoint_failures[e] = 0
    BY DEF Init
  <2> QED BY <2>1, CommittedSet, LimitAssumption
<1>2. TypeOK /\ EndpointOvershootBounded /\ [Next]_vars
        => EndpointOvershootBounded'
  <2> SUFFICES ASSUME TypeOK, EndpointOvershootBounded, [Next]_vars,
                      NEW e \in Endpoint
               PROVE  OvershootAt(e)'
    BY DEF EndpointOvershootBounded, OvershootAt
  <2>a. OvershootAt(e)
    BY DEF EndpointOvershootBounded, OvershootAt
  <2>1. ASSUME NEW n \in Node, NEW kind \in Kind, NEW f \in Endpoint,
               Request(n, kind, f)
        PROVE  OvershootAt(e)'
    <3>1. Committed(e)' \subseteq Committed(e)
      BY <2>1 DEF Request, GoTo, Committed, TypeOK
    <3> QED BY <2>1, <3>1, <2>a, OvershootKept DEF Request
  <2>2. ASSUME NEW n \in Node, CheckEndpoint(n) PROVE OvershootAt(e)'
    <3>1. CASE pc'[n] = "reserve" /\ call[n].endpoint = e
      <4>1. endpoint_failures[e] <= MaxProviderFailures - 1
        BY <2>2, <3>1, LimitAssumption
           DEF CheckEndpoint, EndpointAvailable, EndCall, GoTo, TypeOK
      <4>2. Cardinality(Committed(e)') \in Nat
              /\ Cardinality(Committed(e)') <= Cardinality(Node)
              /\ Cardinality(Node) \in Nat
        <5>1. Committed(e)' \in SUBSET Node
          BY DEF Committed
        <5> QED BY <5>1, ThreadSet
      <4>3. endpoint_failures' = endpoint_failures
        BY <2>2 DEF CheckEndpoint
      <4> QED BY <4>1, <4>2, <4>3, LimitAssumption DEF OvershootAt, TypeOK
    <3>2. CASE ~(pc'[n] = "reserve" /\ call[n].endpoint = e)
      <4>1. Committed(e)' \subseteq Committed(e)
        BY <2>2, <3>2 DEF CheckEndpoint, EndCall, GoTo, Committed, TypeOK
      <4> QED BY <2>2, <4>1, <2>a, OvershootKept DEF CheckEndpoint
    <3> QED BY <3>1, <3>2
  <2>3. ASSUME NEW n \in Node, Withdraw(n) \/ Deny(n) PROVE OvershootAt(e)'
    <3>1. Committed(e)' \subseteq Committed(e)
      BY <2>3 DEF Withdraw, Deny, EndCall, GoTo, Committed, TypeOK
    <3> QED BY <2>3, <3>1, <2>a, OvershootKept DEF Withdraw, Deny
  <2>4. ASSUME NEW n \in Node, Reserve(n) \/ Settle(n) \/ SettleTwice(n)
        PROVE  OvershootAt(e)'
    <3>1. Committed(e)' \subseteq Committed(e)
      BY <2>4 DEF Reserve, Settle, SettleTwice, GoTo, Committed, TypeOK
    <3> QED BY <2>4, <3>1, <2>a, OvershootKept DEF Reserve, Settle, SettleTwice
  <2>5. ASSUME NEW n \in Node, NEW failed \in BOOLEAN, Record(n, failed)
        PROVE  OvershootAt(e)'
    <3>1. CASE failed /\ call[n].endpoint = e
      <4>1. n \in Committed(e) /\ Committed(e)' = Committed(e) \ {n}
        BY <2>5, <3>1 DEF Record, EndCall, GoTo, Committed, TypeOK
      <4>2. Cardinality(Committed(e)') = Cardinality(Committed(e)) - 1
        BY <4>1, CommittedSet, ThreadLeaves
      <4>3. endpoint_failures'[e] = endpoint_failures[e] + 1
        BY <2>5, <3>1 DEF Record, FailEndpoint, TypeOK
      <4> QED BY <4>2, <4>3, <2>a, CommittedSet, LimitAssumption
              DEF OvershootAt, TypeOK
    <3>2. CASE ~(failed /\ call[n].endpoint = e)
      <4>1. IsFiniteSet(Committed(e)) /\ Committed(e)' \subseteq Committed(e)
        BY <2>5, CommittedSet, ThreadSet DEF Record, EndCall, GoTo, Committed, TypeOK
      <4>2. Cardinality(Committed(e)') <= Cardinality(Committed(e))
              /\ Cardinality(Committed(e)') \in Nat
        BY <4>1, FS_Subset, FS_CardinalityType
      <4>3. endpoint_failures'[e] = endpoint_failures[e]
        BY <2>5, <3>2 DEF Record, FailEndpoint, TypeOK
      <4> QED BY <4>2, <4>3, <2>a, CommittedSet, LimitAssumption
              DEF OvershootAt, TypeOK
    <3> QED BY <3>1, <3>2
  <2>6. CASE UNCHANGED vars
    <3>1. Committed(e)' \subseteq Committed(e)
      BY <2>6 DEF vars, thread, Committed
    <3> QED BY <2>6, <3>1, <2>a, OvershootKept DEF vars
  <2> QED BY <2>1, <2>2, <2>3, <2>4, <2>5, <2>6 DEF Next, Step
<1> QED BY <1>1, <1>2, TypeCorrect, PTL DEF Spec

(***************************************************************************)
(* Pending costs and denials                                               *)
(***************************************************************************)
LEMMA InFlightSet ==
  InFlight \in SUBSET Node /\ Cardinality(InFlight) \in Nat
BY ThreadSet DEF InFlight

\* Every pending cost belongs to a call in flight, even when an evaluation
\* that raises reconciles twice.
THEOREM PendingSafe == Spec => []PendingCoveredByCalls
<1>1. Init => PendingCoveredByCalls
  BY InFlightSet DEF Init, PendingCoveredByCalls
<1>2. TypeOK /\ PendingCoveredByCalls /\ [Next]_vars => PendingCoveredByCalls'
  <2> SUFFICES ASSUME TypeOK, PendingCoveredByCalls, [Next]_vars
               PROVE  PendingCoveredByCalls'
    OBVIOUS
  <2>1. ASSUME NEW n \in Node, Reserve(n) PROVE PendingCoveredByCalls'
    <3>1. n \notin InFlight /\ InFlight' = InFlight \cup {n}
      BY <2>1 DEF Reserve, GoTo, InFlight, TypeOK
    <3>2. Cardinality(InFlight') = Cardinality(InFlight) + 1
      BY <3>1, InFlightSet, ThreadJoins
    <3> QED BY <2>1, <3>2, InFlightSet
            DEF Reserve, AddReservation, PendingCoveredByCalls, TypeOK
  <2>2. ASSUME NEW n \in Node, Settle(n) \/ SettleTwice(n)
        PROVE  PendingCoveredByCalls'
    <3>1. n \in InFlight /\ InFlight' = InFlight \ {n}
      BY <2>2 DEF Settle, SettleTwice, GoTo, InFlight, TypeOK
    <3>2. /\ Cardinality(InFlight') = Cardinality(InFlight) - 1
          /\ Cardinality(InFlight) >= 1
      BY <3>1, InFlightSet, ThreadLeaves
    <3> QED BY <2>2, <3>2, InFlightSet
            DEF Settle, SettleTwice, Reconciled, PendingCoveredByCalls, TypeOK
  <2>3. CASE InFlight' = InFlight /\ UNCHANGED pending
    BY <2>3 DEF PendingCoveredByCalls
  <2>4. ASSUME NEW n \in Node,
               \/ \E kind \in Kind, e \in Endpoint : Request(n, kind, e)
               \/ CheckEndpoint(n) \/ Withdraw(n) \/ Deny(n)
               \/ \E failed \in BOOLEAN : Record(n, failed)
        PROVE  InFlight' = InFlight /\ UNCHANGED pending
    BY <2>4 DEF Request, CheckEndpoint, Withdraw, Deny, Record, EndCall, GoTo,
                InFlight, TypeOK
  <2>5. CASE UNCHANGED vars
    BY <2>5, <2>3 DEF vars, thread, InFlight
  <2> QED BY <2>1, <2>2, <2>3, <2>4, <2>5 DEF Next, Step
<1> QED BY <1>1, <1>2, TypeCorrect, PTL DEF Spec

\* The ledger, for every run of the budget: balanced, and no reservation left
\* over that no call stands for.
THEOREM LedgerSoundSafe == Spec => []LedgerSound
BY LedgerSafe, PendingSafe, PTL DEF LedgerSound

\* The total limit is never the one that bites first: it is only reported
\* when the initial and the recovery share are both used up.
THEOREM TotalDenialSafe == Spec => []TotalDenialMeansPoolSpent
<1>1. Init => TotalDenialMeansPoolSpent
  BY DEF Init, TotalDenialMeansPoolSpent
<1>2. /\ TypeOK /\ LedgerBalanced /\ TotalDenialMeansPoolSpent /\ [Next]_vars
      => TotalDenialMeansPoolSpent'
  <2> SUFFICES ASSUME TypeOK, LedgerBalanced, TotalDenialMeansPoolSpent,
                      [Next]_vars
               PROVE  TotalDenialMeansPoolSpent'
    OBVIOUS
  <2>1. ASSUME NEW n \in Node, Reserve(n) PROVE TotalDenialMeansPoolSpent'
    <3>1. calls_reserved < TotalLimit
      BY <2>1, GrantedBelowLimits DEF Reserve
    <3>2. \A d \in denials : d.reason # "total-call-limit-exhausted"
      BY <3>1, LimitTypes
         DEF TotalDenialMeansPoolSpent, LedgerBalanced, TotalLimit, TypeOK
    <3> QED BY <2>1, <3>2 DEF Reserve, TotalDenialMeansPoolSpent
  <2>2. ASSUME NEW n \in Node, Deny(n) PROVE TotalDenialMeansPoolSpent'
    <3>1. PICK r \in DenialReasons(call[n].kind) :
            denials' = denials \cup {[kind |-> call[n].kind, reason |-> r]}
      BY <2>2 DEF Deny
    <3>2. UNCHANGED <<initial_calls_reserved, recovery_calls_reserved>>
      BY <2>2 DEF Deny, counters
    <3>3. r = "total-call-limit-exhausted" =>
            /\ recovery_calls_reserved = RecoveryLimit
            /\ initial_calls_reserved = InitialLimit
      BY <3>1, LimitTypes DEF DenialReasons, LedgerBalanced, TotalLimit, TypeOK
    <3> QED BY <3>1, <3>2, <3>3 DEF TotalDenialMeansPoolSpent
  <2>3. CASE UNCHANGED <<counters, denials>>
    BY <2>3 DEF counters, TotalDenialMeansPoolSpent
  <2>4. Next => \/ \E n \in Node : Reserve(n) \/ Deny(n)
                \/ UNCHANGED <<counters, denials>>
    BY DEF Next, Step, Request, CheckEndpoint, Withdraw, Settle, SettleTwice,
           Record
  <2> QED BY <2>1, <2>2, <2>3, <2>4 DEF vars
<1> QED BY <1>1, <1>2, TypeCorrect, LedgerSafe, PTL DEF Spec

\* Every denial is justified, for every number of nodes and every size of the
\* recovery pool.
THEOREM DenialsSafe == Spec => []DenialsJustified
BY InitialCallsSafe, TotalDenialSafe, PTL DEF DenialsJustified
=============================================================================
