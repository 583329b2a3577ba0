------------------------- MODULE ExpertRuntime_proof -------------------------
(***************************************************************************)
(* Proofs about ExpertRuntime, for any graph and any recovery space: the   *)
(* account circuit, paid calls, the ledger, and the order of the stages;   *)
(* then, from "The moves of a node's thread" on, the recovery: which node  *)
(* may use a standby model, when a model is called again, what a node      *)
(* reports of its answers, and how many standby claims an open quality     *)
(* circuit lets through.  There every step of a thread is first shown to   *)
(* be one of ten moves; the invariants are proved of those.                *)
(***************************************************************************)
EXTENDS ExpertRuntime, TLAPS, FiniteSetTheorems, WellFoundedInduction

(***************************************************************************)
(* The account circuit                                                     *)
(***************************************************************************)
\* The part of the type invariant the argument needs.
AccountTypes ==
  /\ pc \in [Node -> PC]
  /\ phase \in [Node -> Phase]
  /\ prior_blocked \in [Node -> BOOLEAN]
  /\ provider_account_blocked \in BOOLEAN
  /\ credit_402_seen \in BOOLEAN

\* From lowering the circuit to raising it again.
Window == {"identity", "gate", "endpoint", "reserve", "network", "record",
           "mark", "restore"}

\* What a node remembers of the circuit it remembers only inside a zero-cost
\* call, so no other path can drop the memory.
PriorOnlyInWindow ==
  \A n \in Node :
    /\ prior_blocked[n] => pc[n] \in Window /\ phase[n] = "zero"
    /\ pc[n] = "clear" => phase[n] = "zero"

AccountInv == AccountTypes /\ PriorOnlyInWindow /\ AccountCircuitHeld

LEMMA AccountInit == Init => AccountInv
<1> SUFFICES ASSUME Init PROVE AccountInv
  OBVIOUS
<1>1. AccountTypes
  BY DEF Init, AccountTypes, PC, Phase
<1>2. PriorOnlyInWindow
  BY DEF Init, PriorOnlyInWindow
<1>3. AccountCircuitHeld
  BY DEF Init, AccountCircuitHeld
<1> QED BY <1>1, <1>2, <1>3 DEF AccountInv

\* The thread of n moves, the circuit and its memories do not; it moves
\* outside the window, or within one call without leaving it unrestored.
QuietMove(n) ==
  /\ UNCHANGED <<prior_blocked, provider_account_blocked, credit_402_seen>>
  /\ pc' \in [Node -> PC] /\ phase' \in [Node -> Phase]
  /\ \A o \in Node \ {n} : pc'[o] = pc[o] /\ phase'[o] = phase[o]
  /\ \/ pc[n] \notin Window
     \/ phase'[n] = phase[n] /\ (phase[n] = "zero" => pc'[n] \in Window)
  /\ pc'[n] = "clear" => phase'[n] = "zero"

LEMMA AccountQuietStep ==
  ASSUME AccountInv, NEW n \in Node, QuietMove(n)
  PROVE  AccountInv'
<1>1. AccountTypes'
  BY DEF AccountInv, AccountTypes, QuietMove
<1>2. PriorOnlyInWindow'
  BY DEF AccountInv, AccountTypes, PriorOnlyInWindow, QuietMove
<1>3. AccountCircuitHeld'
  BY DEF AccountInv, AccountCircuitHeld, ZeroCostInFlight, QuietMove
<1> QED BY <1>1, <1>2, <1>3 DEF AccountInv

LEMMA AccountCallStep ==
  ASSUME AccountInv, NEW n \in Node, Call(n)
  PROVE  AccountInv'
<1> USE DEF AccountInv, AccountTypes, PC, Phase
<1>1. CASE StartNode(n)
  <2>1. QuietMove(n)
    BY <1>1 DEF StartNode, BeginCall, GoTo, Window, account, QuietMove
  <2> QED BY <2>1, AccountQuietStep
<1>2. CASE ClearBlock(n)
  <2>1. prior_blocked[n] = FALSE /\ phase[n] = "zero"
    BY <1>2 DEF ClearBlock, PriorOnlyInWindow, Window
  <2>2. AccountTypes'
    BY <1>2 DEF ClearBlock, GoTo
  <2>3. PriorOnlyInWindow'
    BY <1>2, <2>1 DEF ClearBlock, GoTo, PriorOnlyInWindow, Window
  <2>4. AccountCircuitHeld'
    BY <1>2, <2>1 DEF ClearBlock, AccountCircuitHeld, ZeroCostInFlight
  <2> QED BY <2>2, <2>3, <2>4
<1>3. CASE CheckIdentity(n) \/ AccountGate(n) \/ CheckEndpoint(n)
  <2>1. QuietMove(n)
    BY <1>3 DEF CheckIdentity, AccountGate, CheckEndpoint, ReturnNone,
                AfterCall, GoTo, Window, account, QuietMove
  <2> QED BY <2>1, AccountQuietStep
<1>4. CASE Reserve(n) \/ Deny(n) \/ Respond(n) \/ RespondAndRaise(n)
  <2>1. QuietMove(n)
    BY <1>4 DEF Reserve, Deny, Respond, RespondAndRaise, AddAttempt, ReturnNone,
                AfterCall, GoTo, Window, account, QuietMove
  <2> QED BY <2>1, AccountQuietStep
<1>5. CASE RecordFeedback(n) \/ FailInvalidEndpoint(n)
  <2>1. QuietMove(n)
    BY <1>5 DEF RecordFeedback, FailInvalidEndpoint, AfterCall, GoTo, Window,
                account, QuietMove
  <2> QED BY <2>1, AccountQuietStep
<1>6. CASE MarkBlocked(n)
  <2>1. AccountTypes'
    BY <1>6 DEF MarkBlocked, AfterCall, GoTo
  <2>2. PriorOnlyInWindow'
    BY <1>6 DEF MarkBlocked, AfterCall, GoTo, PriorOnlyInWindow, Window
  <2>3. AccountCircuitHeld'
    BY <1>6 DEF MarkBlocked, AccountCircuitHeld
  <2> QED BY <2>1, <2>2, <2>3
<1>7. CASE RestoreBlock(n)
  <2>1. AccountTypes'
    BY <1>7 DEF RestoreBlock, GoTo
  <2>2. PriorOnlyInWindow'
    BY <1>7 DEF RestoreBlock, GoTo, PriorOnlyInWindow, Window
  <2>3. AccountCircuitHeld'
    BY <1>7 DEF RestoreBlock, AccountCircuitHeld, ZeroCostInFlight
  <2> QED BY <2>1, <2>2, <2>3
<1> QED BY <1>1, <1>2, <1>3, <1>4, <1>5, <1>6, <1>7 DEF Call

LEMMA AccountRecoverStep ==
  ASSUME AccountInv, NEW n \in Node, Recover(n)
  PROVE  AccountInv'
<1> USE DEF AccountInv, AccountTypes, PC, Phase
<1>1. CASE ResumePassed(n)
  <2>1. QuietMove(n)
    BY <1>1 DEF ResumePassed, Finish, GoTo, Window, account, QuietMove
  <2> QED BY <2>1, AccountQuietStep
<1>2. CASE ResumeInitial(n) \/ ResumeSameModel(n)
  <2>1. QuietMove(n)
    BY <1>2 DEF ResumeInitial, ResumeSameModel, Resuming, StartSearch, GiveUp,
                BeginCall, Finish, GoTo, Window, account, QuietMove
  <2> QED BY <2>1, AccountQuietStep
<1>3. CASE ResumeReplacement(n) \/ ResumeRebind(n)
  <2>1. QuietMove(n)
    BY <1>3 DEF ResumeReplacement, ResumeRebind, Resuming, ContinueSearch,
                GiveUp, BeginCall, Finish, GoTo, Window, account, QuietMove
  <2> QED BY <2>1, AccountQuietStep
<1>4. CASE StopSearch(n) \/ SelectInitial(n) \/ SelectStandby(n)
  <2>1. QuietMove(n)
    BY <1>4 DEF StopSearch, SelectInitial, SelectStandby, Selecting, Replanning,
                GiveUp, BeginCall, Finish, GoTo, Window, account, QuietMove
  <2> QED BY <2>1, AccountQuietStep
<1>5. CASE Claim(n) \/ ClaimZeroCost(n)
  <2>1. QuietMove(n)
    BY <1>5 DEF Claim, ClaimZeroCost, ContinueSearch, BeginCall, GoTo, Window,
                account, QuietMove
  <2> QED BY <2>1, AccountQuietStep
<1>6. CASE SelectZeroCost(n) \/ StopZeroCost(n) \/ ResumeZeroCost(n)
  <2>1. QuietMove(n)
    BY <1>6 DEF SelectZeroCost, StopZeroCost, ResumeZeroCost, Resuming,
                BeginCall, Finish, GoTo, Window, account, QuietMove
  <2> QED BY <2>1, AccountQuietStep
<1> QED BY <1>1, <1>2, <1>3, <1>4, <1>5, <1>6 DEF Recover

LEMMA AccountStep == AccountInv /\ [Next]_vars => AccountInv'
<1> SUFFICES ASSUME AccountInv, [Next]_vars PROVE AccountInv'
  OBVIOUS
<1>1. CASE \E n \in Node : Step(n)
  BY <1>1, AccountCallStep, AccountRecoverStep DEF Step
<1>2. CASE UNCHANGED <<pc, phase, prior_blocked, account>>
  BY <1>2 DEF AccountInv, AccountTypes, PriorOnlyInWindow, AccountCircuitHeld,
              ZeroCostInFlight, account
<1>3. AdvanceStage \/ Finished \/ UNCHANGED vars
        => UNCHANGED <<pc, phase, prior_blocked, account>>
  BY DEF AdvanceStage, Finished, vars, where
<1> QED BY <1>1, <1>2, <1>3 DEF Next

\* A 402 stays recorded: the circuit is up, or a zero-cost call in flight will
\* raise it again, for any number of nodes and zero-cost calls at once.
THEOREM AccountCircuitSafe == Spec => []AccountCircuitHeld
<1>1. AccountInv => AccountCircuitHeld
  BY DEF AccountInv
<1> QED BY <1>1, AccountInit, AccountStep, PTL DEF Spec

(***************************************************************************)
(* Type correctness                                                        *)
(***************************************************************************)
\* A thread has a model to call whenever it is on its way to calling one, and
\* an attempt whenever it is about to record or to repeat one.
Calling == {"clear", "identity", "gate", "endpoint", "reserve", "network",
            "record", "mark", "restore", "resume", "claim", "zclaim"}

CallShape ==
  \A n \in Node :
    /\ pc[n] \in Calling => cur[n] # NoCall
    /\ pc[n] \in {"record", "mark"} => attempts[n] # <<>>
    /\ returned[n] => attempts[n] # <<>>
    /\ phase[n] = "rebind" => attempts[n] # <<>>

TypeInv == TypeOK /\ CallShape

CallRecord == [kind : {"initial", "retry", "replacement"}, endpoint : Model]

LEMMA LastAttemptType ==
  ASSUME TypeOK, NEW n \in Node, attempts[n] # <<>>
  PROVE  /\ LastAttempt(n) \in AttemptRecord
         /\ LastAttempt(n).model \in Model
         /\ LastAttempt(n).outcome \in Outcome
         /\ LastAttempt(n).usable \in BOOLEAN
<1>1. attempts[n] \in Seq(AttemptRecord)
  BY DEF TypeOK
<1>2. LastAttempt(n) \in AttemptRecord
  BY <1>1 DEF LastAttempt
<1> QED BY <1>2 DEF AttemptRecord

LEMMA CallIsNoSentinel ==
  ASSUME NEW kind \in {"initial", "retry", "replacement"}, NEW m \in Model
  PROVE  /\ [kind |-> kind, endpoint |-> m] \in CallRecord
         /\ [kind |-> kind, endpoint |-> m] # NoCall
<1>1. [kind |-> kind, endpoint |-> m] \in CallRecord
  BY DEF CallRecord
<1> QED BY <1>1, RuntimeNoCallAssumption DEF CallRecord

LEMMA TypeInit == Init => TypeInv
<1> SUFFICES ASSUME Init PROVE TypeInv
  OBVIOUS
<1>1. 1 \in 1 .. Len(Stages) + 1
  BY StageAssumption
<1>2. attempts \in [Node -> Seq(AttemptRecord)]
  BY DEF Init
<1>3. TypeOK
  BY <1>1, <1>2 DEF Init, TypeOK, PC, Phase, Status
<1>4. CallShape
  BY DEF Init, CallShape, Calling
<1> QED BY <1>3, <1>4 DEF TypeInv

\* The thread of n moves on; what it has recorded stays as it is.
TypeMove(n) ==
  /\ pc' \in [Node -> PC] /\ phase' \in [Node -> Phase]
  /\ cur' \in [Node -> CallRecord \cup {NoCall}]
  /\ \A o \in Node \ {n} : pc'[o] = pc[o] /\ phase'[o] = phase[o] /\ cur'[o] = cur[o]
  /\ pc'[n] \in Calling => cur'[n] # NoCall
  /\ pc'[n] \in {"record", "mark"} => attempts[n] # <<>>
  /\ phase'[n] = "rebind" => attempts[n] # <<>>
  /\ UNCHANGED <<stage, attempts>>

LEMMA ShapeAfterMove ==
  ASSUME TypeInv, NEW n \in Node, TypeMove(n),
         returned' = returned \/ returned' = [returned EXCEPT ![n] = FALSE]
  PROVE  CallShape'
BY DEF TypeInv, TypeOK, CallShape, TypeMove

\* The helpers by which a thread moves on.
LEMMA BeginCallMoves ==
  ASSUME TypeInv, NEW n \in Node, NEW m \in Model, NEW purpose \in Phase,
         NEW kind \in {"initial", "retry", "replacement"},
         BeginCall(n, kind, m, purpose),
         purpose = "rebind" => attempts[n] # <<>>,
         UNCHANGED <<stage, attempts>>
  PROVE  TypeMove(n)
<1> DEFINE next == [kind |-> kind, endpoint |-> m]
           step == IF purpose = "zero" THEN "clear"
                   ELSE IF kind = "replacement" THEN "identity" ELSE "gate"
<1>1. next \in CallRecord /\ next # NoCall
  BY CallIsNoSentinel
<1>2. step \in {"clear", "identity", "gate"}
  OBVIOUS
<1>3. /\ cur' = [cur EXCEPT ![n] = next]
      /\ phase' = [phase EXCEPT ![n] = purpose]
      /\ pc' = [pc EXCEPT ![n] = step]
  BY DEF BeginCall, GoTo
<1> HIDE DEF next, step
<1> QED BY <1>1, <1>2, <1>3 DEF TypeMove, TypeInv, TypeOK, CallRecord, PC

LEMMA FinishMoves ==
  ASSUME TypeInv, NEW n \in Node, NEW status \in Status, Finish(n, status),
         UNCHANGED <<stage, attempts>>
  PROVE  TypeMove(n) /\ result' \in [Node -> Status]
BY DEF TypeInv, TypeOK, CallShape, TypeMove, Finish, GoTo, CallRecord, Calling, PC

LEMMA ContinueMoves ==
  ASSUME TypeInv, NEW n \in Node, UNCHANGED <<stage, attempts, phase>>,
         GoTo(n, "select"), cur' = [cur EXCEPT ![n] = NoCall]
  PROVE  TypeMove(n)
BY DEF TypeInv, TypeOK, CallShape, TypeMove, GoTo, CallRecord, Calling, PC

\* An answer to the node's call is an attempt at the model it called.
LEMMA AnswerType ==
  ASSUME TypeInv, NEW n \in Node, Respond(n) \/ RespondAndRaise(n)
  PROVE  \E a \in AttemptRecord :
           /\ a.model = cur[n].endpoint /\ a.kind = cur[n].kind
           /\ AddAttempt(n, a)
<1>1. cur[n] \in CallRecord
  BY DEF Respond, RespondAndRaise, TypeInv, TypeOK, CallShape, Calling, CallRecord
<1>2. ASSUME NEW outcome \in Outcomes, NEW usable \in BOOLEAN,
             NEW reason \in Contract \cup {NoReason}
      PROVE  /\ Attempt(n, outcome, usable, reason) \in AttemptRecord
             /\ Attempt(n, outcome, usable, reason).model = cur[n].endpoint
             /\ Attempt(n, outcome, usable, reason).kind = cur[n].kind
  BY <1>1, OutcomeAssumption DEF Attempt, AttemptRecord, CallRecord
<1>3. CASE Respond(n)
  <2>1. PICK outcome \in Outcomes, usable \in BOOLEAN,
             reason \in Contract \cup {NoReason} :
          AddAttempt(n, Attempt(n, outcome, usable, reason))
    BY <1>3 DEF Respond
  <2> QED BY <1>2, <2>1
<1>4. CASE RespondAndRaise(n)
  BY <1>2, <1>4 DEF RespondAndRaise
<1> QED BY <1>3, <1>4

LEMMA TypeCallStep ==
  ASSUME TypeInv, NEW n \in Node, Call(n)
  PROVE  TypeInv'
<1> USE DEF TypeInv, PC, Phase
<1>1. CASE StartNode(n)
  <2>1. TypeMove(n)
    BY <1>1, BeginCallMoves, ModelAssumption DEF StartNode
  <2>2. TypeOK'
    BY <1>1, <2>1 DEF StartNode, TypeMove, TypeOK, CallRecord, search, account,
                      claims, memory
  <2> QED BY <1>1, <2>1, <2>2, ShapeAfterMove DEF StartNode
<1>2. CASE ClearBlock(n) \/ RestoreBlock(n)
  <2>1. TypeMove(n)
    BY <1>2 DEF ClearBlock, RestoreBlock, GoTo, TypeMove, TypeOK, CallShape,
                CallRecord, Calling
  <2>2. TypeOK'
    BY <1>2, <2>1 DEF ClearBlock, RestoreBlock, TypeMove, TypeOK, CallRecord,
                      search, claims, memory
  <2> QED BY <1>2, <2>1, <2>2, ShapeAfterMove DEF ClearBlock, RestoreBlock
<1>3. CASE CheckIdentity(n) \/ AccountGate(n) \/ CheckEndpoint(n)
  <2>1. TypeMove(n)
    BY <1>3 DEF CheckIdentity, AccountGate, CheckEndpoint, ReturnNone,
                AfterCall, GoTo, TypeMove, TypeOK, CallShape, CallRecord, Calling
  <2>2. returned' = returned \/ returned' = [returned EXCEPT ![n] = FALSE]
    BY <1>3 DEF CheckIdentity, AccountGate, CheckEndpoint, ReturnNone
  <2>3. TypeOK'
    BY <1>3, <2>1, <2>2 DEF CheckIdentity, AccountGate, CheckEndpoint, TypeMove,
                 TypeOK, CallRecord, search, account, claims, memory
  <2> QED BY <2>1, <2>2, <2>3, ShapeAfterMove
<1>4. CASE Reserve(n) \/ Deny(n)
  <2>1. TypeMove(n)
    BY <1>4 DEF Reserve, Deny, ReturnNone, AfterCall, GoTo, TypeMove, TypeOK,
                CallShape, CallRecord, Calling
  <2>2. returned' = returned \/ returned' = [returned EXCEPT ![n] = FALSE]
    BY <1>4 DEF Reserve, Deny, ReturnNone
  <2>3. TypeOK'
    BY <1>4, <2>1, <2>2 DEF Reserve, Deny, TypeMove, TypeOK, CallRecord, search,
                 account, claims, memory
  <2> QED BY <2>1, <2>2, <2>3, ShapeAfterMove
<1>5. CASE Respond(n) \/ RespondAndRaise(n)
  <2>1. PICK a \in AttemptRecord : AddAttempt(n, a)
    BY <1>5, AnswerType
  <2>2. attempts' \in [Node -> Seq(AttemptRecord)] /\ attempts'[n] # <<>>
    <3>1. attempts' = [attempts EXCEPT ![n] = Append(attempts[n], a)]
      BY <2>1 DEF AddAttempt
    <3>2. attempts[n] \in Seq(AttemptRecord) /\ attempts \in [Node -> Seq(AttemptRecord)]
      BY DEF TypeOK
    <3>3. Append(attempts[n], a) \in Seq(AttemptRecord)
          /\ Append(attempts[n], a) # <<>>
      BY <3>2
    <3> QED BY <3>1, <3>2, <3>3
  <2>3. TypeOK'
    <3>1. UNCHANGED <<stage, phase, cur, search, result, prior_blocked, account,
                      claims, memory>>
      BY <1>5 DEF Respond, RespondAndRaise
    <3>2. pc' \in [Node -> PC] /\ returned' \in [Node -> BOOLEAN]
      BY <2>1 DEF AddAttempt, GoTo, TypeOK
    <3> QED BY <2>2, <3>1, <3>2 DEF TypeOK, search, account, claims, memory
  <2>4. CallShape'
    BY <1>5, <2>1, <2>2 DEF Respond, RespondAndRaise, AddAttempt, GoTo, TypeOK,
                 CallShape, Calling
  <2> QED BY <2>3, <2>4
<1>6. CASE RecordFeedback(n)
  <2>1. TypeMove(n)
    BY <1>6 DEF RecordFeedback, AfterCall, GoTo, TypeMove, TypeOK, CallShape,
                CallRecord, Calling
  <2>2. LastAttempt(n).model \in Model
    BY <1>6, LastAttemptType DEF RecordFeedback, CallShape
  <2>3. /\ hard_failed_model_ids' \subseteq Model
        /\ quality_models' \in [Contract -> SUBSET Model]
    BY <1>6, <2>2 DEF RecordFeedback, TypeOK
  <2>4. quality_circuit_open' \in BOOLEAN
    BY <1>6 DEF RecordFeedback
  <2>5. TypeOK'
    BY <1>6, <2>1, <2>3, <2>4 DEF RecordFeedback, TypeMove, TypeOK, CallRecord,
                 search, account, claims
  <2> QED BY <1>6, <2>1, <2>5, ShapeAfterMove DEF RecordFeedback
<1>7. CASE MarkBlocked(n) \/ FailInvalidEndpoint(n)
  <2>1. TypeMove(n)
    BY <1>7 DEF MarkBlocked, FailInvalidEndpoint, AfterCall, GoTo, TypeMove,
                TypeOK, CallShape, CallRecord, Calling
  <2>2. TypeOK'
    BY <1>7, <2>1 DEF MarkBlocked, FailInvalidEndpoint, TypeMove, TypeOK,
                 CallRecord, search, account, claims, memory
  <2> QED BY <1>7, <2>1, <2>2, ShapeAfterMove DEF MarkBlocked, FailInvalidEndpoint
<1> QED BY <1>1, <1>2, <1>3, <1>4, <1>5, <1>6, <1>7 DEF Call

\* A recovery step changes a node's search and the claims, nothing else of
\* what the run shares.
SearchTypes ==
  /\ remaining \in [Node -> SUBSET Model]
  /\ best \in [Node -> BOOLEAN] /\ result \in [Node -> Status]
  /\ zero_limit \in [Node -> Nat] /\ nonprivacy \in [Node -> Nat]
  /\ standby_claimed \subseteq Model /\ late_claims \in [Node -> Nat]

LEMMA SearchTypesHold == TypeInv => SearchTypes
BY DEF TypeInv, TypeOK, SearchTypes

LEMMA ReplanMoves ==
  ASSUME TypeInv, NEW n \in Node, TypeMove(n), SearchTypes',
         quality_circuit_open' \in BOOLEAN,
         UNCHANGED <<returned, prior_blocked, account, hard_failed_model_ids,
                     quality_models>>
  PROVE  TypeInv'
<1>1. TypeOK'
  BY DEF TypeInv, TypeOK, TypeMove, SearchTypes, CallRecord, account
<1> QED BY <1>1, ShapeAfterMove DEF TypeInv

LEMMA SearchMoves ==
  ASSUME TypeInv, NEW n \in Node, TypeMove(n), SearchTypes',
         UNCHANGED <<returned, prior_blocked, account, memory>>
  PROVE  TypeInv'
BY ReplanMoves DEF TypeInv, TypeOK, memory

\* A turn of the loop leaves the quality circuit open or closed.
LEMMA ReplanType ==
  ASSUME TypeInv, NEW n \in Node, Replanning(n)
  PROVE  quality_circuit_open' \in BOOLEAN
BY DEF Replanning, QualityOpen

LEMMA KeepBestType ==
  ASSUME TypeInv, NEW n \in Node, NEW attempted \in BOOLEAN,
         KeepBest(n, attempted)
  PROVE  best' \in [Node -> BOOLEAN]
BY DEF TypeInv, TypeOK, KeepBest

LEMMA FallbackType == ASSUME NEW n \in Node PROVE Fallback(n) \in Status
BY DEF Fallback, Status

\* What StartSearch, ContinueSearch and GiveUp leave behind.
LEMMA SearchHelpers ==
  ASSUME TypeInv, NEW n \in Node, UNCHANGED <<stage, attempts>>,
         StartSearch(n) \/ ContinueSearch(n) \/ GiveUp(n)
  PROVE  /\ TypeMove(n)
         /\ remaining' \in [Node -> SUBSET Model]
         /\ result' \in [Node -> Status]
<1>1. CASE GiveUp(n)
  <2>1. Finish(n, Fallback(n)) /\ UNCHANGED remaining
    BY <1>1 DEF GiveUp
  <2> QED BY <2>1, FinishMoves, FallbackType DEF TypeInv, TypeOK
<1>2. CASE StartSearch(n)
  <2>1. TypeMove(n)
    BY <1>2, ContinueMoves DEF StartSearch
  <2>2. Recovery \ hard_failed_model_ids \in SUBSET Model
    BY ModelAssumption
  <2>3. remaining' \in [Node -> SUBSET Model]
    BY <1>2, <2>2 DEF StartSearch, TypeInv, TypeOK
  <2> QED BY <1>2, <2>1, <2>3 DEF StartSearch, TypeInv, TypeOK
<1>3. CASE ContinueSearch(n)
  <2>1. TypeMove(n)
    BY <1>3, ContinueMoves DEF ContinueSearch
  <2> QED BY <1>3, <2>1 DEF ContinueSearch, TypeInv, TypeOK
<1> QED BY <1>1, <1>2, <1>3

LEMMA TypeRecoverStep ==
  ASSUME TypeInv, NEW n \in Node, Recover(n)
  PROVE  TypeInv'
<1> USE SearchTypesHold
<1>1. CASE ResumePassed(n)
  <2>1. StatusFor[phase[n]] \in Status
    BY DEF StatusFor, Status, TypeInv, TypeOK, Phase
  <2>2. TypeMove(n) /\ result' \in [Node -> Status]
    BY <1>1, <2>1, FinishMoves DEF ResumePassed
  <2> QED BY <1>1, <2>2, SearchMoves DEF ResumePassed, SearchTypes, search, claims
<1>2. CASE ResumeInitial(n)
  <2>1. best' \in [Node -> BOOLEAN]
    BY <1>2, KeepBestType DEF ResumeInitial, TypeInv, TypeOK
  <2>2. CASE GoTo(n, "zselect") /\ UNCHANGED <<phase, cur, remaining, result>>
    <3>1. TypeMove(n)
      BY <1>2, <2>2 DEF ResumeInitial, Resuming, GoTo, TypeMove, TypeInv, TypeOK,
                        CallShape, CallRecord, Calling, PC
    <3> QED BY <1>2, <2>1, <2>2, <3>1, SearchMoves
            DEF ResumeInitial, Resuming, SearchTypes, claims
  <2>3. CASE BeginCall(n, "retry", Selected[n], "samemodel")
             /\ UNCHANGED <<remaining, result>>
    <3>1. TypeMove(n)
      BY <1>2, <2>3, BeginCallMoves, ModelAssumption
      DEF ResumeInitial, Resuming, Phase
    <3> QED BY <1>2, <2>1, <2>3, <3>1, SearchMoves
            DEF ResumeInitial, Resuming, SearchTypes, claims
  <2>4. CASE StartSearch(n) \/ GiveUp(n)
    BY <1>2, <2>1, <2>4, SearchHelpers, SearchMoves
    DEF ResumeInitial, Resuming, SearchTypes, claims
  <2> QED BY <1>2, <2>2, <2>3, <2>4 DEF ResumeInitial
<1>3. CASE ResumeSameModel(n)
  <2>1. best' \in [Node -> BOOLEAN]
    BY <1>3, KeepBestType DEF ResumeSameModel, TypeInv, TypeOK
  <2> QED BY <1>3, <2>1, SearchHelpers, SearchMoves
          DEF ResumeSameModel, Resuming, SearchTypes, claims
<1>4. CASE ResumeReplacement(n)
  <2>1. CASE returned[n] /\ Category(n) = "truncated"
    <3>1. cur[n] \in CallRecord /\ attempts[n] # <<>>
      BY <1>4, <2>1 DEF ResumeReplacement, Resuming, TypeInv, TypeOK, CallShape,
                        Calling, CallRecord
    <3>2. cur[n].endpoint \in Model
      BY <3>1 DEF CallRecord
    <3>3. TypeMove(n)
      BY <1>4, <2>1, <3>1, <3>2, BeginCallMoves
      DEF ResumeReplacement, Resuming, Phase
    <3> QED BY <1>4, <2>1, <3>3, SearchMoves
            DEF ResumeReplacement, Resuming, SearchTypes, claims
  <2>2. CASE ~(returned[n] /\ Category(n) = "truncated")
    <3>1. best' \in [Node -> BOOLEAN]
      BY <1>4, <2>2, KeepBestType DEF ResumeReplacement, TypeInv, TypeOK
    <3> QED BY <1>4, <2>2, <3>1, SearchHelpers, SearchMoves
            DEF ResumeReplacement, Resuming, SearchTypes, claims
  <2> QED BY <2>1, <2>2
<1>5. CASE ResumeRebind(n)
  <2>1. best' \in [Node -> BOOLEAN]
    BY <1>5, KeepBestType DEF ResumeRebind
  <2> QED BY <1>5, <2>1, SearchHelpers, SearchMoves
          DEF ResumeRebind, Resuming, SearchTypes, claims
<1>6. CASE StopSearch(n)
  <2>1. quality_circuit_open' \in BOOLEAN
    BY <1>6, ReplanType DEF StopSearch, TypeInv, TypeOK
  <2> QED BY <1>6, <2>1, SearchHelpers, ReplanMoves
          DEF StopSearch, Replanning, Selecting, SearchTypes, claims
<1>7. CASE SelectInitial(n)
  <2>1. PICK m \in RemainingInitial(n) :
           /\ remaining' = [remaining EXCEPT ![n] = RemainingInitial(n) \ {m}]
           /\ BeginCall(n, "replacement", m, "recover")
    BY <1>7 DEF SelectInitial
  <2>2. RemainingInitial(n) \subseteq Model
    BY DEF RemainingInitial, TypeInv, TypeOK
  <2>3. TypeMove(n)
    BY <1>7, <2>1, <2>2, BeginCallMoves
    DEF SelectInitial, Replanning, Selecting, Phase
  <2>4. quality_circuit_open' \in BOOLEAN
    BY <1>7, ReplanType DEF SelectInitial
  <2> QED BY <1>7, <2>1, <2>2, <2>3, <2>4, ReplanMoves
          DEF SelectInitial, Replanning, Selecting, SearchTypes, claims
<1>8. CASE SelectStandby(n)
  <2>1. PICK m \in Promotable(n) :
           cur' = [cur EXCEPT ![n] = [kind |-> "replacement", endpoint |-> m]]
    BY <1>8 DEF SelectStandby
  <2>2. m \in Model
    BY ModelAssumption DEF Promotable
  <2>3. TypeMove(n)
    BY <1>8, <2>1, <2>2, CallIsNoSentinel
    DEF SelectStandby, Replanning, Selecting, GoTo, TypeMove, TypeInv, TypeOK,
        CallShape, CallRecord, Calling, PC
  <2>4. RemainingInitial(n) \subseteq Model
    BY DEF RemainingInitial, TypeInv, TypeOK
  <2>5. quality_circuit_open' \in BOOLEAN
    BY <1>8, ReplanType DEF SelectStandby
  <2> QED BY <1>8, <2>3, <2>4, <2>5, ReplanMoves
          DEF SelectStandby, Replanning, Selecting, SearchTypes, claims
<1>9. CASE Claim(n)
  <2>1. cur[n] \in CallRecord
    BY <1>9 DEF Claim, TypeInv, TypeOK, CallShape, Calling, CallRecord
  <2>2. cur[n].endpoint \in Model
    BY <2>1 DEF CallRecord
  <2>3. CASE ContinueSearch(n) /\ UNCHANGED claims
    BY <1>9, <2>3, SearchHelpers, SearchMoves DEF Claim, SearchTypes, claims
  <2>4. CASE /\ AddClaim(n, cur[n].endpoint)
             /\ BeginCall(n, "replacement", cur[n].endpoint, "recover")
             /\ UNCHANGED <<remaining, result>>
    <3>1. TypeMove(n)
      BY <1>9, <2>2, <2>4, BeginCallMoves DEF Claim, Phase
    <3>2. standby_claimed' \subseteq Model /\ late_claims' \in [Node -> Nat]
      BY <2>2, <2>4 DEF AddClaim, Budget!Tick, TypeInv, TypeOK
    <3> QED BY <1>9, <2>4, <3>1, <3>2, SearchMoves DEF Claim, SearchTypes
  <2> QED BY <1>9, <2>3, <2>4 DEF Claim
<1>10. CASE SelectZeroCost(n)
  <2>1. PICK m \in ZeroCostSpace(n) :
           IF m \in Standby
           THEN /\ cur' = [cur EXCEPT ![n] = [kind |-> "replacement", endpoint |-> m]]
                /\ GoTo(n, "zclaim")
                /\ UNCHANGED phase
           ELSE BeginCall(n, "replacement", m, "zero")
    BY <1>10 DEF SelectZeroCost
  <2>2. m \in Model
    BY ModelAssumption DEF ZeroCostSpace
  <2>3. TypeMove(n)
    <3>1. CASE m \in Standby
      <4>1. [kind |-> "replacement", endpoint |-> m] \in CallRecord \ {NoCall}
        BY <2>2, CallIsNoSentinel
      <4>2. /\ cur' = [cur EXCEPT ![n] = [kind |-> "replacement", endpoint |-> m]]
            /\ pc' = [pc EXCEPT ![n] = "zclaim"]
            /\ UNCHANGED <<stage, attempts, phase>>
        BY <1>10, <2>1, <3>1 DEF SelectZeroCost, GoTo
      <4>3. phase[n] = "rebind" => attempts[n] # <<>>
        BY DEF TypeInv, CallShape
      <4> QED BY <4>1, <4>2, <4>3 DEF TypeMove, TypeInv, TypeOK, CallRecord, PC
    <3>2. CASE m \notin Standby
      BY <1>10, <2>1, <2>2, <3>2, BeginCallMoves DEF SelectZeroCost, Phase
    <3> QED BY <3>1, <3>2
  <2>5. PICK depth \in 1 .. Cardinality(ZeroCostSpace(n)) :
           zero_limit' = [zero_limit EXCEPT ![n] = IF @ = 0 THEN depth ELSE @]
    BY <1>10 DEF SelectZeroCost
  <2>6. zero_limit' \in [Node -> Nat]
    BY <2>5 DEF TypeInv, TypeOK
  <2> QED BY <1>10, <2>3, <2>6, SearchMoves
          DEF SelectZeroCost, SearchTypes, claims
<1>11. CASE StopZeroCost(n)
  <2>1. TypeMove(n) /\ result' \in [Node -> Status]
    BY <1>11, FinishMoves, FallbackType DEF StopZeroCost
  <2> QED BY <1>11, <2>1, SearchMoves DEF StopZeroCost, SearchTypes, search, claims
<1>12. CASE ClaimZeroCost(n)
  <2>1. cur[n] \in CallRecord
    BY <1>12 DEF ClaimZeroCost, TypeInv, TypeOK, CallShape, Calling, CallRecord
  <2>2. cur[n].endpoint \in Model
    BY <2>1 DEF CallRecord
  <2>3. CASE GoTo(n, "zselect") /\ UNCHANGED <<phase, cur, standby_claimed>>
    <3>1. TypeMove(n)
      BY <1>12, <2>3 DEF ClaimZeroCost, GoTo, TypeMove, TypeInv, TypeOK,
                         CallShape, CallRecord, Calling, PC
    <3> QED BY <1>12, <2>3, <3>1, SearchMoves DEF ClaimZeroCost, SearchTypes, search
  <2>4. CASE /\ standby_claimed' = standby_claimed \cup {cur[n].endpoint}
             /\ BeginCall(n, "replacement", cur[n].endpoint, "zero")
    <3>1. TypeMove(n)
      BY <1>12, <2>2, <2>4, BeginCallMoves DEF ClaimZeroCost, Phase
    <3> QED BY <1>12, <2>2, <2>4, <3>1, SearchMoves
            DEF ClaimZeroCost, SearchTypes, search
  <2> QED BY <1>12, <2>3, <2>4 DEF ClaimZeroCost
<1>13. CASE ResumeZeroCost(n)
  <2>1. best' \in [Node -> BOOLEAN]
    BY <1>13, KeepBestType DEF ResumeZeroCost, TypeInv, TypeOK
  <2>2. nonprivacy' \in [Node -> Nat]
    <3>1. nonprivacy \in [Node -> Nat]
      BY DEF TypeInv, TypeOK
    <3>2. ASSUME NEW P \in BOOLEAN PROVE nonprivacy[n] + Budget!Tick(P) \in Nat
      BY <3>1 DEF Budget!Tick
    <3>3. \/ UNCHANGED nonprivacy
          \/ \E P \in BOOLEAN :
               nonprivacy' = [nonprivacy EXCEPT ![n] = nonprivacy[n] + Budget!Tick(P)]
      BY <1>13 DEF ResumeZeroCost
    <3> QED BY <3>1, <3>2, <3>3
  <2>3. CASE Finish(n, Fallback(n))
    BY <1>13, <2>1, <2>2, <2>3, FinishMoves, FallbackType, SearchMoves
    DEF ResumeZeroCost, Resuming, SearchTypes, claims
  <2>4. CASE GoTo(n, "zselect") /\ UNCHANGED <<phase, cur, result>>
    <3>1. TypeMove(n)
      BY <1>13, <2>4 DEF ResumeZeroCost, Resuming, GoTo, TypeMove, TypeInv, TypeOK,
                         CallShape, CallRecord, Calling, PC
    <3> QED BY <1>13, <2>1, <2>2, <2>4, <3>1, SearchMoves
            DEF ResumeZeroCost, Resuming, SearchTypes, claims
  <2> QED BY <1>13, <2>3, <2>4 DEF ResumeZeroCost
<1> QED BY <1>1, <1>2, <1>3, <1>4, <1>5, <1>6, <1>7, <1>8, <1>9, <1>10, <1>11,
           <1>12, <1>13 DEF Recover

LEMMA TypeStep == TypeInv /\ [Next]_vars => TypeInv'
<1> SUFFICES ASSUME TypeInv, [Next]_vars PROVE TypeInv'
  OBVIOUS
<1>1. CASE \E n \in Node : Step(n)
  BY <1>1, TypeCallStep, TypeRecoverStep DEF Step
<1>2. CASE AdvanceStage
  <2>1. stage' \in 1 .. Len(Stages) + 1
    BY <1>2, StageAssumption DEF AdvanceStage, RunOver, TypeInv, TypeOK
  <2>2. TypeOK' /\ CallShape'
    BY <1>2, <2>1 DEF AdvanceStage, where, search, account, claims, memory,
                      TypeInv, TypeOK, CallShape
  <2> QED BY <2>2 DEF TypeInv
<1>3. CASE UNCHANGED vars
  BY <1>3 DEF vars, where, search, account, claims, memory, TypeInv, TypeOK, CallShape
<1> QED BY <1>1, <1>2, <1>3 DEF Next, Finished

\* Every variable of the engine keeps a value of its kind, for any graph.
THEOREM TypeCorrect == Spec => []TypeOK
<1>1. TypeInv => TypeOK
  BY DEF TypeInv
<1> QED BY <1>1, TypeInit, TypeStep, PTL DEF Spec

(***************************************************************************)
(* Paid calls after a 402                                                  *)
(***************************************************************************)
\* A zero-cost call is a call of a free model, from the claim to the restore.
ZeroCostIsFree ==
  \A n \in Node :
    \/ phase[n] = "zero" /\ pc[n] \in Window \cup {"clear"}
    \/ pc[n] = "zclaim"
    => cur[n].endpoint \in Free

\* The thread of n goes on with the call it has, or leaves zero-cost recovery.
KeepsFree(n) ==
  /\ \A o \in Node \ {n} : pc'[o] = pc[o] /\ phase'[o] = phase[o] /\ cur'[o] = cur[o]
  /\ \/ cur'[n] = cur[n] /\ phase'[n] = phase[n] /\ pc'[n] # "zclaim"
        /\ (pc'[n] \in Window \cup {"clear"} => pc[n] \in Window \cup {"clear"})
     \/ phase'[n] # "zero" /\ pc'[n] # "zclaim"
     \/ pc'[n] \notin Window \cup {"clear", "zclaim"}

LEMMA FreeStep ==
  ASSUME TypeInv, ZeroCostIsFree, NEW n \in Node, Step(n)
  PROVE  ZeroCostIsFree'
<1> USE DEF TypeInv, TypeOK, KeepsFree, GoTo, Window
<1>0. ASSUME KeepsFree(n) PROVE ZeroCostIsFree'
  BY <1>0 DEF ZeroCostIsFree
<1>1. CASE StartNode(n)
  BY <1>0, <1>1 DEF StartNode, BeginCall
<1>2. CASE ClearBlock(n) \/ CheckIdentity(n) \/ AccountGate(n) \/ CheckEndpoint(n)
  BY <1>0, <1>2 DEF ClearBlock, CheckIdentity, AccountGate, CheckEndpoint,
                    ReturnNone, AfterCall
<1>3. CASE Reserve(n) \/ Deny(n) \/ Respond(n) \/ RespondAndRaise(n)
  BY <1>0, <1>3 DEF Reserve, Deny, Respond, RespondAndRaise, ReturnNone,
                    AddAttempt, AfterCall
<1>4. CASE RecordFeedback(n) \/ MarkBlocked(n) \/ FailInvalidEndpoint(n) \/ RestoreBlock(n)
  BY <1>0, <1>4 DEF RecordFeedback, MarkBlocked, FailInvalidEndpoint,
                    RestoreBlock, AfterCall
<1>5. CASE ResumePassed(n) \/ ResumeInitial(n) \/ ResumeSameModel(n)
  BY <1>0, <1>5 DEF ResumePassed, ResumeInitial, ResumeSameModel, Resuming,
                    StartSearch, GiveUp, Finish, BeginCall
<1>6. CASE ResumeReplacement(n) \/ ResumeRebind(n)
  BY <1>0, <1>6 DEF ResumeReplacement, ResumeRebind, Resuming, ContinueSearch,
                    GiveUp, Finish, BeginCall
<1>7. CASE StopSearch(n) \/ SelectInitial(n) \/ SelectStandby(n)
  BY <1>0, <1>7 DEF StopSearch, SelectInitial, SelectStandby, Selecting, Replanning, GiveUp,
                    Finish, BeginCall
<1>8. CASE Claim(n)
  BY <1>0, <1>8 DEF Claim, ContinueSearch, BeginCall
<1>9. CASE SelectZeroCost(n)
  <2>1. PICK m \in ZeroCostSpace(n) :
           /\ cur' = [cur EXCEPT ![n] = [kind |-> "replacement", endpoint |-> m]]
           /\ \/ pc' = [pc EXCEPT ![n] = "zclaim"] /\ UNCHANGED phase
              \/ pc' = [pc EXCEPT ![n] = "clear"]
                 /\ phase' = [phase EXCEPT ![n] = "zero"]
    BY <1>9 DEF SelectZeroCost, BeginCall
  <2>2. cur'[n].endpoint \in Free
    BY <2>1 DEF ZeroCostSpace
  <2>3. \A o \in Node \ {n} : pc'[o] = pc[o] /\ phase'[o] = phase[o] /\ cur'[o] = cur[o]
    BY <2>1
  <2> QED BY <2>2, <2>3 DEF ZeroCostIsFree
<1>10. CASE StopZeroCost(n) \/ ResumeZeroCost(n)
  BY <1>0, <1>10 DEF StopZeroCost, ResumeZeroCost, Resuming, Finish
<1>11. CASE ClaimZeroCost(n)
  <2>1. cur[n].endpoint \in Free
    BY <1>11 DEF ClaimZeroCost, ZeroCostIsFree
  <2>2. CASE pc' = [pc EXCEPT ![n] = "zselect"] /\ UNCHANGED <<phase, cur>>
    BY <1>0, <2>2
  <2>3. CASE /\ cur' = [cur EXCEPT ![n] = [kind |-> "replacement",
                                           endpoint |-> cur[n].endpoint]]
             /\ phase' = [phase EXCEPT ![n] = "zero"]
             /\ pc' = [pc EXCEPT ![n] = "clear"]
    <3>1. cur'[n].endpoint \in Free
      BY <2>1, <2>3
    <3> QED BY <2>3, <3>1 DEF ZeroCostIsFree
  <2> QED BY <1>11, <2>2, <2>3 DEF ClaimZeroCost, BeginCall
<1> QED BY <1>1, <1>2, <1>3, <1>4, <1>5, <1>6, <1>7, <1>8, <1>9, <1>10, <1>11
        DEF Step, Call, Recover

PaidInv == TypeInv /\ AccountInv /\ ZeroCostIsFree

LEMMA PaidInit == Init => PaidInv
<1>1. Init => ZeroCostIsFree
  BY DEF Init, ZeroCostIsFree
<1> QED BY <1>1, TypeInit, AccountInit DEF PaidInv

LEMMA PaidStep == PaidInv /\ [Next]_vars => PaidInv'
<1> SUFFICES ASSUME PaidInv, [Next]_vars PROVE ZeroCostIsFree'
  BY TypeStep, AccountStep DEF PaidInv
<1>1. CASE \E n \in Node : Step(n)
  BY <1>1, FreeStep DEF PaidInv
<1>2. CASE UNCHANGED where
  BY <1>2 DEF PaidInv, ZeroCostIsFree, where
<1> QED BY <1>1, <1>2 DEF Next, AdvanceStage, Finished, vars

\* Only AccountGate takes a call through the account gate, and only its own.
LEMMA OnlyGatePassesGate ==
  ASSUME TypeInv, NEW n \in Node, NEW o \in Node, Step(o),
         pc[n] = "gate", pc'[n] = "endpoint"
  PROVE  ~provider_account_blocked
<1> USE DEF TypeInv, TypeOK, GoTo
<1>1. CASE AccountGate(o)
  BY <1>1 DEF AccountGate, ReturnNone, AfterCall
<1>2. CASE StartNode(o) \/ ClearBlock(o) \/ CheckIdentity(o) \/ CheckEndpoint(o)
  BY <1>2 DEF StartNode, BeginCall, ClearBlock, CheckIdentity, CheckEndpoint,
              ReturnNone, AfterCall
<1>3. CASE Reserve(o) \/ Deny(o) \/ Respond(o) \/ RespondAndRaise(o)
  BY <1>3 DEF Reserve, Deny, Respond, RespondAndRaise, ReturnNone, AddAttempt,
              AfterCall
<1>4. CASE RecordFeedback(o) \/ MarkBlocked(o) \/ FailInvalidEndpoint(o) \/ RestoreBlock(o)
  BY <1>4 DEF RecordFeedback, MarkBlocked, FailInvalidEndpoint, RestoreBlock,
              AfterCall
<1>5. CASE ResumePassed(o) \/ ResumeInitial(o) \/ ResumeSameModel(o)
  BY <1>5 DEF ResumePassed, ResumeInitial, ResumeSameModel, Resuming,
              StartSearch, GiveUp, Finish, BeginCall
<1>6. CASE ResumeReplacement(o) \/ ResumeRebind(o)
  BY <1>6 DEF ResumeReplacement, ResumeRebind, Resuming, ContinueSearch, GiveUp,
              Finish, BeginCall
<1>7. CASE StopSearch(o) \/ SelectInitial(o) \/ SelectStandby(o) \/ Claim(o)
  BY <1>7 DEF StopSearch, SelectInitial, SelectStandby, Selecting, Replanning, GiveUp,
              Finish, BeginCall, Claim, ContinueSearch
<1>8. CASE SelectZeroCost(o) \/ StopZeroCost(o) \/ ClaimZeroCost(o) \/ ResumeZeroCost(o)
  BY <1>8 DEF SelectZeroCost, StopZeroCost, ClaimZeroCost, ResumeZeroCost,
              Resuming, Finish, BeginCall
<1> QED BY <1>1, <1>2, <1>3, <1>4, <1>5, <1>6, <1>7, <1>8 DEF Step, Call, Recover

\* After a 402 a paid call passes the account gate only while another node's
\* zero-cost call holds the circuit lowered, for any number of nodes.
THEOREM PaidCallSafe == Spec => PaidCallNeedsZeroCostWindow
<1> DEFINE Paid(n) ==
      credit_402_seen /\ pc[n] = "gate" /\ pc'[n] = "endpoint"
        /\ cur[n].endpoint \notin Free => ZeroCostInFlight \ {n} # {}
<1>1. ASSUME PaidInv, [Next]_vars, NEW n \in Node PROVE Paid(n) \/ UNCHANGED vars
  <2> SUFFICES ASSUME credit_402_seen, pc[n] = "gate", pc'[n] = "endpoint",
                      cur[n].endpoint \notin Free
               PROVE  ZeroCostInFlight \ {n} # {} \/ UNCHANGED vars
    OBVIOUS
  <2>1. CASE \E o \in Node : Step(o)
    <3>1. ~provider_account_blocked
      BY <1>1, <2>1, OnlyGatePassesGate DEF PaidInv
    <3>2. PICK o \in Node : prior_blocked[o]
      BY <1>1, <3>1 DEF PaidInv, AccountInv, AccountCircuitHeld, ZeroCostInFlight
    <3>3. phase[o] = "zero" /\ pc[o] \in Window
      BY <1>1, <3>2 DEF PaidInv, AccountInv, PriorOnlyInWindow
    <3>4. o # n
      BY <1>1, <3>3 DEF PaidInv, ZeroCostIsFree
    <3> QED BY <3>2, <3>4 DEF ZeroCostInFlight
  <2>2. CASE AdvanceStage \/ Finished \/ UNCHANGED vars
    BY <2>2 DEF AdvanceStage, Finished, where, vars
  <2> QED BY <1>1, <2>1, <2>2 DEF Next
<1>2. PaidInv /\ [Next]_vars => [\A n \in Node : Paid(n)]_vars
  BY <1>1
<1> QED BY <1>2, PaidInit, PaidStep, PTL DEF Spec, PaidCallNeedsZeroCostWindow

(***************************************************************************)
(* The engine implements the budget controller: every step of a node's     *)
(* thread is a step of CallBudget's thread, or none.  With it the safety   *)
(* of the ledger carries over to the engine.                               *)
(***************************************************************************)
\* What the budget controller sees of a thread at step l with call c.
SeenPc(l) ==
  CASE l \in {"identity", "reserve", "network"} -> l
    [] l \in {"gate", "endpoint"}               -> "endpoint"
    [] l \in {"record", "mark"}                 -> "record"
    [] OTHER                                    -> "idle"
SeenCall(l, c) == IF SeenPc(l) = "idle" THEN NoCall ELSE c

(***************************************************************************)
(* What the steps rely on                                                  *)
(***************************************************************************)
\* An attempt under way to the records is one of the call that was made, and
\* a zero-cost call is a replacement.
CallRecorded ==
  \A n \in Node :
    /\ pc[n] \in {"record", "mark"} => LastAttempt(n).model = cur[n].endpoint
    /\ pc[n] \in {"clear", "zclaim"} => cur[n].kind = "replacement"

BudgetInv == TypeInv /\ CallRecorded

\* The thread of n moves on without a new attempt.
RecordedMove(n) ==
  /\ UNCHANGED attempts
  /\ \A o \in Node \ {n} : pc'[o] = pc[o] /\ cur'[o] = cur[o]
  /\ pc'[n] \in {"record", "mark"}
       => pc[n] \in {"record", "mark"} /\ cur'[n] = cur[n]
  /\ pc'[n] \in {"clear", "zclaim"} => cur'[n].kind = "replacement"

LEMMA RecordedAfterMove ==
  ASSUME CallRecorded, NEW n \in Node, RecordedMove(n)
  PROVE  CallRecorded'
<1>1. \A o \in Node : LastAttempt(o)' = LastAttempt(o)
  BY DEF RecordedMove, LastAttempt
<1> QED BY <1>1 DEF CallRecorded, RecordedMove

ThreadTypes ==
  /\ pc \in [Node -> PC]
  /\ cur \in [Node -> CallRecord \cup {NoCall}]

LEMMA RecordedStep ==
  ASSUME BudgetInv, NEW n \in Node, Step(n)
  PROVE  CallRecorded'
<1>0. ThreadTypes
  BY DEF BudgetInv, TypeInv, TypeOK, ThreadTypes, CallRecord
<1>1. ASSUME RecordedMove(n) PROVE CallRecorded'
  BY <1>1, RecordedAfterMove DEF BudgetInv
<1> USE DEF ThreadTypes, RecordedMove, GoTo
<1>2. CASE StartNode(n) \/ ClearBlock(n) \/ CheckIdentity(n) \/ AccountGate(n)
  BY <1>0, <1>1, <1>2 DEF StartNode, BeginCall, ClearBlock, CheckIdentity,
                          AccountGate, ReturnNone, AfterCall
<1>3. CASE CheckEndpoint(n) \/ Reserve(n) \/ Deny(n)
  BY <1>0, <1>1, <1>3 DEF CheckEndpoint, Reserve, Deny, ReturnNone, AfterCall
<1>4. CASE Respond(n) \/ RespondAndRaise(n)
  <2>1. PICK a : AddAttempt(n, a) /\ a.model = cur[n].endpoint
    <3>1. CASE Respond(n)
      BY <3>1 DEF Respond, Attempt
    <3>2. CASE RespondAndRaise(n)
      BY <3>2 DEF RespondAndRaise, Attempt
    <3> QED BY <1>4, <3>1, <3>2
  <2>2. attempts \in [Node -> Seq(AttemptRecord)]
    BY DEF BudgetInv, TypeInv, TypeOK
  <2>3. attempts' = [attempts EXCEPT ![n] = Append(attempts[n], a)]
    BY <2>1 DEF AddAttempt
  <2>4. attempts'[n][Len(attempts'[n])] = a
    BY <2>2, <2>3
  <2>5. /\ LastAttempt(n)' = a
        /\ \A o \in Node \ {n} : LastAttempt(o)' = LastAttempt(o)
    BY <2>2, <2>3, <2>4 DEF LastAttempt
  <2>6. /\ cur' = cur /\ pc' = [pc EXCEPT ![n] = "record"]
    BY <1>4, <2>1 DEF Respond, RespondAndRaise, AddAttempt
  <2>7. CallRecorded
    BY DEF BudgetInv
  <2> QED BY <1>0, <2>1, <2>5, <2>6, <2>7 DEF CallRecorded
<1>5. CASE RecordFeedback(n) \/ MarkBlocked(n) \/ FailInvalidEndpoint(n) \/ RestoreBlock(n)
  BY <1>0, <1>1, <1>5 DEF RecordFeedback, MarkBlocked, FailInvalidEndpoint,
                          RestoreBlock, AfterCall
<1>6. CASE ResumePassed(n) \/ ResumeInitial(n) \/ ResumeSameModel(n)
  BY <1>0, <1>1, <1>6 DEF ResumePassed, ResumeInitial, ResumeSameModel, Resuming,
                          StartSearch, GiveUp, Finish, BeginCall
<1>7. CASE ResumeReplacement(n) \/ ResumeRebind(n)
  BY <1>0, <1>1, <1>7 DEF ResumeReplacement, ResumeRebind, Resuming,
                          ContinueSearch, GiveUp, Finish, BeginCall
<1>8. CASE StopSearch(n) \/ SelectInitial(n) \/ SelectStandby(n)
  BY <1>0, <1>1, <1>8 DEF StopSearch, SelectInitial, SelectStandby, Selecting, Replanning,
                          GiveUp, Finish, BeginCall
<1>9. CASE Claim(n)
  BY <1>0, <1>1, <1>9 DEF Claim, ContinueSearch, BeginCall
<1>10. CASE SelectZeroCost(n)
  BY <1>0, <1>1, <1>10 DEF SelectZeroCost, BeginCall
<1>11. CASE StopZeroCost(n) \/ ResumeZeroCost(n)
  BY <1>0, <1>1, <1>11 DEF StopZeroCost, ResumeZeroCost, Resuming, Finish
<1>12. CASE ClaimZeroCost(n)
  BY <1>0, <1>1, <1>12 DEF ClaimZeroCost, BeginCall
<1> QED BY <1>2, <1>3, <1>4, <1>5, <1>6, <1>7, <1>8, <1>9, <1>10, <1>11, <1>12
        DEF Step, Call, Recover

LEMMA BudgetInit == Init => BudgetInv
<1>1. Init => CallRecorded
  BY DEF Init, CallRecorded
<1> QED BY <1>1, TypeInit DEF BudgetInv

LEMMA BudgetInvStep == BudgetInv /\ [Next]_vars => BudgetInv'
<1> SUFFICES ASSUME BudgetInv, [Next]_vars PROVE CallRecorded'
  BY TypeStep DEF BudgetInv
<1>1. CASE \E n \in Node : Step(n)
  BY <1>1, RecordedStep
<1>2. CASE UNCHANGED <<where, attempts>>
  BY <1>2 DEF BudgetInv, CallRecorded, LastAttempt, where
<1> QED BY <1>1, <1>2 DEF Next, AdvanceStage, Finished, vars

(***************************************************************************)
(* How a thread's move is seen                                             *)
(***************************************************************************)
\* What the controller sees of every thread.
LEMMA SeenThread ==
  ASSUME NEW n \in Node
  PROVE  /\ BudgetPc[n] = SeenPc(pc[n])
         /\ BudgetCall[n] = SeenCall(pc[n], cur[n])
         /\ BudgetAsked[n] = (pc[n] # "queued")
BY DEF BudgetPc, BudgetCall, BudgetAsked, SeenPc, SeenCall

Moved(n, l, c) ==
  /\ pc' = [pc EXCEPT ![n] = l]
  /\ cur' = [cur EXCEPT ![n] = c]

\* A thread that moves to step l with call c is seen to do just that.
LEMMA SeenMove ==
  ASSUME ThreadTypes, NEW n \in Node, NEW l, NEW c, Moved(n, l, c)
  PROVE  /\ BudgetPc' = [BudgetPc EXCEPT ![n] = SeenPc(l)]
         /\ BudgetCall' = [BudgetCall EXCEPT ![n] = SeenCall(l, c)]
         /\ BudgetAsked' = [BudgetAsked EXCEPT ![n] = l # "queued"]
<1>1. BudgetPc' = [BudgetPc EXCEPT ![n] = SeenPc(l)]
  BY DEF BudgetPc, SeenPc, ThreadTypes, Moved
<1>2. \A o \in Node \ {n} : pc'[o] = pc[o] /\ cur'[o] = cur[o]
  BY DEF ThreadTypes, Moved
<1>3. pc'[n] = l /\ cur'[n] = c
  BY DEF ThreadTypes, Moved
<1>4. BudgetCall' = [o \in Node |-> SeenCall(pc'[o], cur'[o])]
  BY DEF BudgetCall, BudgetPc, SeenCall, SeenPc
<1>5. BudgetCall = [o \in Node |-> SeenCall(pc[o], cur[o])]
  BY DEF BudgetCall, BudgetPc, SeenCall, SeenPc
<1>6. BudgetCall' = [BudgetCall EXCEPT ![n] = SeenCall(l, c)]
  BY <1>2, <1>3, <1>4, <1>5
<1>7. BudgetAsked' = [BudgetAsked EXCEPT ![n] = l # "queued"]
  BY <1>2, <1>3 DEF BudgetAsked
<1> QED BY <1>1, <1>6, <1>7

\* A move between two steps that look alike, with the same call or none, is
\* not seen at all.
LEMMA SeenStutter ==
  ASSUME ThreadTypes, NEW n \in Node, NEW l, NEW c,
         pc' = [pc EXCEPT ![n] = l], cur' = [cur EXCEPT ![n] = c],
         SeenPc(l) = SeenPc(pc[n]), SeenPc(l) = "idle" \/ c = cur[n],
         l # "queued", pc[n] # "queued"
  PROVE  UNCHANGED <<BudgetPc, BudgetCall, BudgetAsked>>
<1>1. /\ BudgetPc' = [BudgetPc EXCEPT ![n] = SeenPc(l)]
      /\ BudgetCall' = [BudgetCall EXCEPT ![n] = SeenCall(l, c)]
      /\ BudgetAsked' = [BudgetAsked EXCEPT ![n] = l # "queued"]
  BY SeenMove DEF Moved
<1>2. /\ BudgetPc[n] = SeenPc(l)
      /\ BudgetCall[n] = SeenCall(l, c)
      /\ BudgetAsked[n] = (l # "queued")
  BY SeenThread DEF SeenCall
<1> QED BY <1>1, <1>2 DEF BudgetPc, BudgetCall, BudgetAsked

(***************************************************************************)
(* The steps of a call                                                     *)
(***************************************************************************)
\* Moving on to a first step of a call is a request of it.
LEMMA RequestSeen ==
  ASSUME ThreadTypes, NEW n \in Node, NEW kind, NEW m, NEW l,
         pc' = [pc EXCEPT ![n] = l],
         cur' = [cur EXCEPT ![n] = [kind |-> kind, endpoint |-> m]],
         SeenPc(pc[n]) = "idle", (kind = "initial") = (pc[n] = "queued"),
         l = IF kind = "replacement" THEN "identity" ELSE "gate",
         UNCHANGED ledger
  PROVE  Budget!Request(n, kind, m)
<1>0. Moved(n, l, [kind |-> kind, endpoint |-> m])
  BY DEF Moved
<1>1. /\ BudgetPc' = [BudgetPc EXCEPT ![n] = SeenPc(l)]
      /\ BudgetCall' = [BudgetCall EXCEPT ![n] = SeenCall(l, [kind |-> kind, endpoint |-> m])]
      /\ BudgetAsked' = [BudgetAsked EXCEPT ![n] = l # "queued"]
  BY <1>0, SeenMove
<1>2. SeenPc(l) = IF kind = "replacement" THEN "identity" ELSE "endpoint"
  BY DEF SeenPc
<1>3. /\ BudgetPc[n] = "idle"
      /\ (kind = "initial") = ~BudgetAsked[n]
  BY SeenThread
<1>4. (l # "queued") = TRUE
  OBVIOUS
<1> QED BY <1>1, <1>2, <1>3, <1>4
        DEF Budget!Request, Budget!GoTo, Budget!counters, SeenCall, ledger, counters

\* Leaving the call is the end of it.
LEMMA EndSeen ==
  ASSUME ThreadTypes, NEW n \in Node, NEW l,
         pc' = [pc EXCEPT ![n] = l], UNCHANGED cur,
         SeenPc(l) = "idle", l # "queued", pc[n] # "queued"
  PROVE  Budget!EndCall(n) /\ UNCHANGED BudgetAsked
<1>1. Moved(n, l, cur[n])
  BY DEF ThreadTypes, Moved
<1>2. /\ BudgetPc' = [BudgetPc EXCEPT ![n] = SeenPc(l)]
      /\ BudgetCall' = [BudgetCall EXCEPT ![n] = SeenCall(l, cur[n])]
      /\ BudgetAsked' = [BudgetAsked EXCEPT ![n] = l # "queued"]
  BY <1>1, SeenMove
<1>3. BudgetAsked[n] = (l # "queued")
  BY SeenThread
<1> QED BY <1>2, <1>3 DEF Budget!EndCall, Budget!GoTo, SeenCall, BudgetAsked

\* Going on within the call is a move of its thread.
LEMMA GoOnSeen ==
  ASSUME ThreadTypes, NEW n \in Node, NEW l,
         pc' = [pc EXCEPT ![n] = l], UNCHANGED cur,
         SeenPc(l) # "idle", SeenPc(pc[n]) # "idle", l # "queued"
  PROVE  /\ Budget!GoTo(n, SeenPc(l))
         /\ UNCHANGED <<BudgetCall, BudgetAsked>>
<1>1. Moved(n, l, cur[n])
  BY DEF ThreadTypes, Moved
<1>2. /\ BudgetPc' = [BudgetPc EXCEPT ![n] = SeenPc(l)]
      /\ BudgetCall' = [BudgetCall EXCEPT ![n] = SeenCall(l, cur[n])]
      /\ BudgetAsked' = [BudgetAsked EXCEPT ![n] = l # "queued"]
  BY <1>1, SeenMove
<1>3. BudgetAsked[n] = (l # "queued") /\ BudgetCall[n] = SeenCall(l, cur[n])
  BY SeenThread DEF SeenCall, SeenPc
<1> QED BY <1>2, <1>3 DEF Budget!GoTo, BudgetCall, BudgetAsked

\* While its call is seen, the controller sees the call itself.
LEMMA CallIsSeen ==
  ASSUME NEW n \in Node, SeenPc(pc[n]) # "idle"
  PROVE  BudgetCall[n] = cur[n] /\ BudgetPc[n] = SeenPc(pc[n])
BY SeenThread DEF SeenCall

LEMMA AfterCallSeen ==
  ASSUME NEW n \in Node
  PROVE  /\ AfterCall(n) # "queued"
         /\ SeenPc(AfterCall(n)) = "idle"
BY DEF AfterCall, SeenPc

LEMMA CallRefines ==
  ASSUME BudgetInv, NEW n \in Node, Call(n)
  PROVE  [Budget!Next]_(Budget!vars)
<1> DEFINE Stutter == UNCHANGED <<BudgetPc, BudgetCall, BudgetAsked, ledger>>
<1>0. ThreadTypes
  BY DEF BudgetInv, TypeInv, TypeOK, ThreadTypes, CallRecord
<1>a. Stutter => UNCHANGED Budget!vars
  BY DEF Budget!vars, Budget!thread, Budget!counters, ledger, counters
<1>b. Budget!Step(n) => Budget!Next
  BY DEF Budget!Next
<1>c. cur' = cur => cur' = [cur EXCEPT ![n] = cur[n]]
  BY <1>0 DEF ThreadTypes
<1>1. CASE StartNode(n)
  <2>1. Budget!Request(n, "initial", Selected[n])
    BY <1>0, <1>1, RequestSeen DEF StartNode, BeginCall, GoTo, SeenPc
  <2> QED BY <2>1, <1>b, ModelAssumption DEF Budget!Step, Budget!Kind
<1>2. CASE ClearBlock(n)
  <2>1. cur[n] \in CallRecord /\ cur[n].kind = "replacement"
    BY <1>0, <1>2 DEF ClearBlock, BudgetInv, TypeInv, CallShape, CallRecorded,
                      ThreadTypes, Calling
  <2>2. cur[n] = [kind |-> "replacement", endpoint |-> cur[n].endpoint]
        /\ cur[n].endpoint \in Model
    BY <2>1 DEF CallRecord
  <2>3. Budget!Request(n, "replacement", cur[n].endpoint)
    BY <1>0, <1>2, <1>c, <2>2, RequestSeen DEF ClearBlock, GoTo, SeenPc
  <2> QED BY <2>2, <2>3, <1>b DEF Budget!Step, Budget!Kind, Budget!RecoveryKind
<1>3. CASE CheckIdentity(n) \/ CheckEndpoint(n)
  <2>1. BudgetCall[n] = cur[n] /\ BudgetPc[n] = pc[n]
        /\ pc[n] \in {"identity", "endpoint"}
    BY <1>3, CallIsSeen DEF CheckIdentity, CheckEndpoint, SeenPc
  <2>2. CASE Budget!EndpointAvailable(cur[n].endpoint)
    <3>1. /\ Budget!GoTo(n, IF pc[n] = "identity" THEN "endpoint" ELSE "reserve")
          /\ UNCHANGED <<BudgetCall, BudgetAsked>>
      <4>1. CASE CheckIdentity(n)
        BY <1>0, <2>2, <4>1, GoOnSeen DEF CheckIdentity, GoTo, SeenPc
      <4>2. CASE CheckEndpoint(n)
        BY <1>0, <2>2, <4>2, GoOnSeen DEF CheckEndpoint, GoTo, SeenPc
      <4> QED BY <1>3, <4>1, <4>2
    <3> QED BY <1>3, <1>b, <2>1, <2>2, <3>1
            DEF CheckIdentity, CheckEndpoint, Budget!Step, Budget!CheckEndpoint,
                Budget!counters, ledger, counters
  <2>3. CASE ~Budget!EndpointAvailable(cur[n].endpoint)
    <3>1. Budget!EndCall(n) /\ UNCHANGED BudgetAsked
      BY <1>0, <1>3, <2>3, EndSeen, AfterCallSeen
      DEF CheckIdentity, CheckEndpoint, ReturnNone, GoTo
    <3> QED BY <1>3, <1>b, <2>1, <2>3, <3>1
            DEF CheckIdentity, CheckEndpoint, Budget!Step, Budget!CheckEndpoint,
                Budget!counters, ledger, counters
  <2> QED BY <2>2, <2>3
<1>4. CASE AccountGate(n)
  <2>1. BudgetPc[n] = "endpoint"
    BY <1>4, SeenThread DEF AccountGate, SeenPc
  <2>2. CASE provider_account_blocked
    <3>1. Budget!EndCall(n) /\ UNCHANGED BudgetAsked
      BY <1>0, <1>4, <2>2, EndSeen, AfterCallSeen DEF AccountGate, ReturnNone, GoTo
    <3> QED BY <1>4, <1>b, <2>1, <3>1
            DEF AccountGate, Budget!Step, Budget!Withdraw, Budget!counters,
                ledger, counters
  <2>3. CASE ~provider_account_blocked
    <3>1. Stutter
      BY <1>0, <1>4, <1>c, <2>3, SeenStutter DEF AccountGate, GoTo, SeenPc
    <3> QED BY <3>1, <1>a
  <2> QED BY <2>2, <2>3
<1>5. CASE Reserve(n)
  <2>1. BudgetCall[n] = cur[n] /\ BudgetPc[n] = "reserve"
    BY <1>5, CallIsSeen DEF Reserve, SeenPc
  <2>2. Budget!GoTo(n, "network") /\ UNCHANGED <<BudgetCall, BudgetAsked>>
    BY <1>0, <1>5, GoOnSeen DEF Reserve, GoTo, SeenPc
  <2> QED BY <1>5, <1>b, <2>1, <2>2 DEF Reserve, Budget!Step, Budget!Reserve
<1>6. CASE Deny(n)
  <2>1. BudgetCall[n] = cur[n] /\ BudgetPc[n] = "reserve"
    BY <1>6, CallIsSeen DEF Deny, SeenPc
  <2>2. Budget!EndCall(n) /\ UNCHANGED BudgetAsked
    BY <1>0, <1>6, EndSeen, AfterCallSeen DEF Deny, ReturnNone, GoTo
  <2> QED BY <1>6, <1>b, <2>1, <2>2
          DEF Deny, Budget!Step, Budget!Deny, Budget!counters, counters
<1>7. CASE Respond(n) \/ RespondAndRaise(n)
  <2>1. BudgetPc[n] = "network"
    BY <1>7, SeenThread DEF Respond, RespondAndRaise, SeenPc
  <2>2. pc' = [pc EXCEPT ![n] = "record"] /\ UNCHANGED cur /\ pc[n] = "network"
    BY <1>7 DEF Respond, RespondAndRaise, AddAttempt, GoTo
  <2>3. Budget!GoTo(n, "record") /\ UNCHANGED <<BudgetCall, BudgetAsked>>
    BY <1>0, <2>2, GoOnSeen DEF SeenPc
  <2>4. Budget!Settle(n) \/ Budget!SettleTwice(n)
    BY <1>7, <2>1, <2>3
    DEF Respond, RespondAndRaise, Budget!Settle, Budget!SettleTwice,
        Budget!counters, counters
  <2> QED BY <1>b, <2>4 DEF Budget!Step
<1>8. CASE RecordFeedback(n)
  <2>1. /\ BudgetCall[n] = cur[n] /\ BudgetPc[n] = "record" /\ pc[n] = "record"
        /\ UNCHANGED <<cur, counters, pending, denials>>
    BY <1>8, CallIsSeen DEF RecordFeedback, SeenPc
  <2>2. LastAttempt(n).model = cur[n].endpoint
    BY <2>1 DEF BudgetInv, CallRecorded
  <2>3. CASE LastAttempt(n).outcome \in HardFailure \cup {"credit402"}
    <3>1. pc' = [pc EXCEPT ![n] = "mark"] /\ UNCHANGED endpoint_failures
      BY <1>8, <2>3 DEF RecordFeedback, GoTo, HardFailure
    <3>2. Stutter
      BY <1>0, <1>c, <2>1, <3>1, SeenStutter DEF SeenPc, ledger
    <3> QED BY <3>2, <1>a
  <2>4. CASE LastAttempt(n).outcome \notin HardFailure \cup {"credit402"}
    <3>1. Budget!EndCall(n) /\ UNCHANGED BudgetAsked
      BY <1>0, <1>8, <2>1, <2>4, EndSeen, AfterCallSeen DEF RecordFeedback, GoTo
    <3>2. \E failed \in BOOLEAN : Budget!Record(n, failed)
      BY <1>8, <2>1, <2>2, <3>1
      DEF RecordFeedback, Budget!Record, Budget!counters, counters
    <3> QED BY <3>2, <1>b DEF Budget!Step
  <2> QED BY <2>3, <2>4
<1>9. CASE MarkBlocked(n) \/ FailInvalidEndpoint(n)
  <2>1. /\ BudgetCall[n] = cur[n] /\ BudgetPc[n] = "record" /\ pc[n] = "mark"
        /\ UNCHANGED <<cur, counters, pending, denials>>
    <3>1. CASE MarkBlocked(n)
      BY <3>1, CallIsSeen DEF MarkBlocked, SeenPc, ledger
    <3>2. CASE FailInvalidEndpoint(n)
      BY <3>2, CallIsSeen DEF FailInvalidEndpoint, SeenPc
    <3> QED BY <1>9, <3>1, <3>2
  <2>2. LastAttempt(n).model = cur[n].endpoint
    BY <2>1 DEF BudgetInv, CallRecorded
  <2>3. Budget!EndCall(n) /\ UNCHANGED BudgetAsked
    BY <1>0, <1>9, <2>1, EndSeen, AfterCallSeen
    DEF MarkBlocked, FailInvalidEndpoint, GoTo
  <2>4. \E failed \in BOOLEAN : Budget!Record(n, failed)
    <3>1. CASE MarkBlocked(n)
      <4>1. Budget!Record(n, FALSE)
        BY <2>1, <2>3, <3>1 DEF MarkBlocked, Budget!Record, Budget!counters, counters, ledger
      <4> QED BY <4>1
    <3>2. CASE FailInvalidEndpoint(n)
      <4>1. Budget!Record(n, TRUE)
        BY <2>1, <2>2, <2>3, <3>2
        DEF FailInvalidEndpoint, Budget!Record, Budget!counters, counters
      <4> QED BY <4>1
    <3> QED BY <1>9, <3>1, <3>2
  <2> QED BY <2>4, <1>b DEF Budget!Step
<1>10. CASE RestoreBlock(n)
  <2>1. Stutter
    BY <1>0, <1>10, <1>c, SeenStutter DEF RestoreBlock, GoTo, SeenPc
  <2> QED BY <2>1, <1>a
<1> QED BY <1>1, <1>2, <1>3, <1>4, <1>5, <1>6, <1>7, <1>8, <1>9, <1>10 DEF Call

(***************************************************************************)
(* The steps between calls                                                 *)
(***************************************************************************)
\* A thread moves between calls, or begins one of the recovery kinds.
BetweenCalls(n) ==
  /\ pc[n] \in {"resume", "select", "claim", "zselect", "zclaim"}
  /\ UNCHANGED ledger
  /\ \/ \E l \in {"select", "claim", "zselect", "zclaim", "clear", "done"} :
          \E c : Moved(n, l, c)
     \/ \E m \in Model : Moved(n, "gate", [kind |-> "retry", endpoint |-> m])
     \/ \E m \in Model :
          Moved(n, "identity", [kind |-> "replacement", endpoint |-> m])

LEMMA BetweenRefines ==
  ASSUME ThreadTypes, NEW n \in Node, BetweenCalls(n)
  PROVE  [Budget!Next]_(Budget!vars)
<1>1. CASE \E l \in {"select", "claim", "zselect", "zclaim", "clear", "done"} :
             \E c : Moved(n, l, c)
  <2>1. PICK l \in {"select", "claim", "zselect", "zclaim", "clear", "done"} :
          \E c : Moved(n, l, c)
    BY <1>1
  <2>2. PICK c : Moved(n, l, c)
    BY <2>1
  <2>3. /\ SeenPc(l) = "idle" /\ SeenPc(pc[n]) = "idle"
        /\ l # "queued" /\ pc[n] # "queued"
    BY DEF BetweenCalls, SeenPc
  <2>4. UNCHANGED <<BudgetPc, BudgetCall, BudgetAsked>>
    BY <2>2, <2>3, SeenStutter DEF Moved
  <2> QED BY <2>4 DEF BetweenCalls, Budget!vars, Budget!thread, Budget!counters,
                      ledger, counters
<1>2. CASE \E m \in Model : Moved(n, "gate", [kind |-> "retry", endpoint |-> m])
  <2>1. PICK m \in Model : Moved(n, "gate", [kind |-> "retry", endpoint |-> m])
    BY <1>2
  <2>2. Budget!Request(n, "retry", m)
    BY <2>1, RequestSeen DEF BetweenCalls, Moved, SeenPc
  <2> QED BY <2>2 DEF Budget!Next, Budget!Step, Budget!Kind, Budget!RecoveryKind
<1>3. CASE \E m \in Model :
             Moved(n, "identity", [kind |-> "replacement", endpoint |-> m])
  <2>1. PICK m \in Model :
          Moved(n, "identity", [kind |-> "replacement", endpoint |-> m])
    BY <1>3
  <2>2. Budget!Request(n, "replacement", m)
    BY <2>1, RequestSeen DEF BetweenCalls, Moved, SeenPc
  <2> QED BY <2>2 DEF Budget!Next, Budget!Step, Budget!Kind, Budget!RecoveryKind
<1> QED BY <1>1, <1>2, <1>3 DEF BetweenCalls

LEMMA RecoverBetweenCalls ==
  ASSUME BudgetInv, NEW n \in Node, Recover(n)
  PROVE  BetweenCalls(n)
<1>0. ThreadTypes
  BY DEF BudgetInv, TypeInv, TypeOK, ThreadTypes, CallRecord
<1> USE DEF BetweenCalls, Moved, GoTo
<1>1. \A c : cur' = cur => cur' = [cur EXCEPT ![n] = cur[n]]
  BY <1>0 DEF ThreadTypes
<1>2. CASE ResumePassed(n)
  BY <1>2 DEF ResumePassed, Finish
<1>3. CASE ResumeInitial(n)
  <2>1. pc[n] = "resume" /\ UNCHANGED ledger
    BY <1>3 DEF ResumeInitial, Resuming
  <2>2. \/ GoTo(n, "zselect") /\ UNCHANGED cur
        \/ BeginCall(n, "retry", Selected[n], "samemodel")
        \/ StartSearch(n) \/ GiveUp(n)
    BY <1>3 DEF ResumeInitial
  <2>3. Selected[n] \in Model
    BY ModelAssumption
  <2> QED BY <1>1, <2>1, <2>2, <2>3 DEF BeginCall, StartSearch, GiveUp, Finish
<1>4. CASE ResumeSameModel(n)
  BY <1>4 DEF ResumeSameModel, Resuming, StartSearch, GiveUp, Finish
<1>5. CASE ResumeReplacement(n)
  <2>1. pc[n] = "resume" /\ UNCHANGED ledger
    BY <1>5 DEF ResumeReplacement, Resuming
  <2>2. \/ BeginCall(n, "retry", cur[n].endpoint, "rebind")
        \/ ContinueSearch(n) \/ GiveUp(n)
    BY <1>5 DEF ResumeReplacement
  <2>3. cur[n] \in CallRecord
    BY <1>0, <2>1 DEF BudgetInv, TypeInv, CallShape, Calling, ThreadTypes
  <2>4. cur[n].endpoint \in Model
    BY <2>3 DEF CallRecord
  <2> QED BY <2>1, <2>2, <2>4 DEF BeginCall, ContinueSearch, GiveUp, Finish
<1>6. CASE ResumeRebind(n)
  BY <1>6 DEF ResumeRebind, Resuming, ContinueSearch, GiveUp, Finish
<1>7. CASE StopSearch(n)
  BY <1>7 DEF StopSearch, Selecting, Replanning, GiveUp, Finish
<1>8. CASE SelectInitial(n)
  <2>1. RemainingInitial(n) \subseteq Model
    BY DEF RemainingInitial, BudgetInv, TypeInv, TypeOK
  <2> QED BY <1>8, <2>1 DEF SelectInitial, Selecting, Replanning, BeginCall
<1>9. CASE SelectStandby(n)
  BY <1>9 DEF SelectStandby, Selecting, Replanning
<1>10. CASE Claim(n)
  <2>1. pc[n] = "claim" /\ UNCHANGED ledger
    BY <1>10 DEF Claim
  <2>2. \/ ContinueSearch(n)
        \/ BeginCall(n, "replacement", cur[n].endpoint, "recover")
    BY <1>10 DEF Claim
  <2>3. cur[n] \in CallRecord
    BY <1>0, <2>1 DEF BudgetInv, TypeInv, CallShape, Calling, ThreadTypes
  <2>4. cur[n].endpoint \in Model
    BY <2>3 DEF CallRecord
  <2> QED BY <2>1, <2>2, <2>4 DEF BeginCall, ContinueSearch
<1>11. CASE SelectZeroCost(n)
  BY <1>11 DEF SelectZeroCost, BeginCall
<1>12. CASE StopZeroCost(n)
  BY <1>12 DEF StopZeroCost, Finish
<1>13. CASE ClaimZeroCost(n)
  BY <1>1, <1>13 DEF ClaimZeroCost, BeginCall
<1>14. CASE ResumeZeroCost(n)
  BY <1>1, <1>14 DEF ResumeZeroCost, Resuming, Finish
<1> QED BY <1>2, <1>3, <1>4, <1>5, <1>6, <1>7, <1>8, <1>9, <1>10, <1>11, <1>12,
           <1>13, <1>14 DEF Recover

LEMMA BudgetInitRefines == Init => Budget!Init
BY DEF Init, Budget!Init, BudgetPc, BudgetCall, BudgetAsked

LEMMA BudgetStepRefines == BudgetInv /\ [Next]_vars => [Budget!Next]_(Budget!vars)
<1> SUFFICES ASSUME BudgetInv, [Next]_vars PROVE [Budget!Next]_(Budget!vars)
  OBVIOUS
<1>1. CASE \E n \in Node : Call(n)
  BY <1>1, CallRefines
<1>2. CASE \E n \in Node : Recover(n)
  <2>1. ThreadTypes
    BY DEF BudgetInv, TypeInv, TypeOK, ThreadTypes, CallRecord
  <2> QED BY <1>2, <2>1, RecoverBetweenCalls, BetweenRefines
<1>3. CASE UNCHANGED <<where, ledger>>
  BY <1>3 DEF where, ledger, counters, Budget!vars, Budget!thread,
              Budget!counters, BudgetPc, BudgetCall, BudgetAsked
<1> QED BY <1>1, <1>2, <1>3 DEF Next, Step, AdvanceStage, Finished, vars

\* Every behaviour of the engine is one of the budget controller, for any
\* graph: what CallBudget promises of its ledger, the engine gets.
THEOREM BudgetRefined == Spec => ImplementsBudget
BY BudgetInit, BudgetInvStep, BudgetInitRefines, BudgetStepRefines, PTL
DEF Spec, Budget!Spec, ImplementsBudget

(***************************************************************************)
(* What the engine gets from the ledger's safety                           *)
(***************************************************************************)
LEMMA CeilSqrtType == ASSUME NEW k \in Nat PROVE CeilSqrt(k) \in Nat
<1> DEFINE T == {i \in 0 .. k : i * i >= k}
           P(i) == i * i >= k /\ \A j \in 0 .. i - 1 : j * j < k
<1>1. k * k >= k
  <2>1. CASE k = 0
    BY <2>1
  <2>2. CASE k >= 1
    <3>1. k * k - k = k * (k - 1)
      OBVIOUS
    <3>2. k * (k - 1) >= 0
      BY <2>2
    <3> QED BY <3>1, <3>2
  <2> QED BY <2>1, <2>2
<1>2. T \subseteq Nat /\ T # {}
  <2>1. k \in 0 .. k
    OBVIOUS
  <2>2. k \in T
    BY <1>1, <2>1
  <2>3. T \subseteq 0 .. k /\ 0 .. k \subseteq Nat
    OBVIOUS
  <2> HIDE DEF T
  <2> QED BY <2>2, <2>3
<1>3. \E x \in T : \A y \in T : ~ (<<y, x>> \in OpToRel(<, Nat))
  <2> HIDE DEF T
  <2> QED BY <1>2, NatLessThanWellFounded, WFMin
<1>4. PICK x \in T : \A y \in T : ~ (<<y, x>> \in OpToRel(<, Nat))
  BY <1>3
<1>5. \A y \in T : ~(y < x)
  BY <1>2, <1>4 DEF OpToRel
<1>6. x \in 0 .. k /\ P(x)
  <2>1. \A j \in 0 .. x - 1 : j * j \in Nat
    OBVIOUS
  <2> QED BY <1>5, <2>1
<1>7. CeilSqrt(k) = CHOOSE i \in 0 .. k : P(i)
  BY DEF CeilSqrt
<1>8. CeilSqrt(k) \in 0 .. k
  <2> HIDE DEF P
  <2> QED BY <1>6, <1>7
<1> QED BY <1>8

LEMMA PoolLimits == MaxProviderFailures \in Nat \ {0} /\ RecoveryLimit \in Nat
<1>1. IsFiniteSet(Recovery) /\ IsFiniteSet(Standby)
  BY ModelAssumption, FS_Subset
<1>2. /\ Cardinality(Recovery) \in Nat /\ Cardinality(Standby) \in Nat
      /\ Cardinality(Node) \in Nat
  BY <1>1, ModelAssumption, FS_CardinalityType
<1>3. CeilSqrt(Cardinality(Standby)) \in Nat
  BY <1>2, CeilSqrtType
<1>4. AtLeast(1, Cardinality(Node)) \in Nat \ {0}
  BY <1>2 DEF AtLeast
<1>5. \A a \in Int, b \in Nat \ {0} : CeilDiv(a, b) \in Int
  BY DEF CeilDiv
<1>6. CeilDiv(Cardinality(Recovery) + CeilSqrt(Cardinality(Standby)),
              AtLeast(1, Cardinality(Node))) \in Int
  BY <1>2, <1>3, <1>4, <1>5
<1>7. \A a \in Int : AtLeast(1, a) \in Nat \ {0}
  BY DEF AtLeast
<1> QED BY <1>2, <1>6, <1>7 DEF MaxProviderFailures, RecoveryLimit

Ledger == INSTANCE CallBudget_proof WITH
            Endpoint <- Model, pc <- BudgetPc, call <- BudgetCall,
            asked <- BudgetAsked

\* What is proved of the ledger alone is proved of the engine's ledger.
LEMMA LedgerRefined == Spec => Ledger!Spec
<1>1. Budget!Init => Ledger!Init
  BY DEF Budget!Init, Ledger!Init
<1>2. [Budget!Next]_(Budget!vars) => [Ledger!Next]_(Ledger!vars)
  BY DEF Budget!Next, Ledger!Next, Budget!vars, Ledger!vars, Budget!thread,
         Ledger!thread, Budget!counters, Ledger!counters, Budget!Step,
         Ledger!Step, Budget!Request, Ledger!Request, Budget!CheckEndpoint,
         Ledger!CheckEndpoint, Budget!Withdraw, Ledger!Withdraw,
         Budget!Reserve, Ledger!Reserve, Budget!Deny, Ledger!Deny,
         Budget!Settle, Ledger!Settle, Budget!SettleTwice, Ledger!SettleTwice,
         Budget!Record, Ledger!Record, Budget!GoTo, Ledger!GoTo,
         Budget!EndCall, Ledger!EndCall, Budget!EndpointAvailable,
         Ledger!EndpointAvailable, Budget!DenialReasons, Ledger!DenialReasons,
         Budget!Tick, Ledger!Tick, Budget!AddReservation,
         Ledger!AddReservation, Budget!Reconciled, Ledger!Reconciled,
         Budget!FailEndpoint, Ledger!FailEndpoint, Budget!TotalLimit,
         Ledger!TotalLimit, Budget!InitialLimit, Ledger!InitialLimit,
         Budget!Kind, Ledger!Kind, Budget!RecoveryKind, Ledger!RecoveryKind,
         Budget!Cardinality, Ledger!Cardinality
<1> QED BY BudgetRefined, <1>1, <1>2, PTL DEF ImplementsBudget, Budget!Spec, Ledger!Spec

LEMMA LedgerAssumptions ==
  Ledger!NodeAssumption /\ Ledger!LimitAssumption /\ Ledger!NoCallAssumption
<1>1. Ledger!NodeAssumption
  BY ModelAssumption DEF Ledger!NodeAssumption, Ledger!IsFiniteSet, IsFiniteSet
<1>2. Ledger!LimitAssumption
  BY PoolLimits DEF Ledger!LimitAssumption
<1>3. Ledger!NoCallAssumption
  BY RuntimeNoCallAssumption DEF Ledger!NoCallAssumption
<1> QED BY <1>1, <1>2, <1>3

\* reserve denies no initial call of any node of any graph, whatever the
\* recoveries of the other nodes do to the shared pool in the meantime.
THEOREM EngineInitialCallsSafe == Spec => []InitialCallNeverDenied
<1>1. Ledger!Spec => []Ledger!InitialCallNeverDenied
  BY LedgerAssumptions, Ledger!InitialCallsSafe
<1>2. Ledger!InitialCallNeverDenied => InitialCallNeverDenied
  BY DEF Ledger!InitialCallNeverDenied, InitialCallNeverDenied, Budget!InitialCallNeverDenied
<1> QED BY LedgerRefined, <1>1, <1>2, PTL

(***************************************************************************)
(* The stages                                                              *)
(***************************************************************************)
\* When the run's capacity is spent every node has left the queue.
SpentWhenAllStarted ==
  calls_reserved >= Budget!TotalLimit => \A n \in Node : pc[n] # "queued"

LEMMA CapacityLastsForAll == Spec => []SpentWhenAllStarted
<1>1. Ledger!Spec => []Ledger!SpentWhenAllAsked
  BY LedgerAssumptions, Ledger!SpentLastSafe
<1>2. Ledger!SpentWhenAllAsked => SpentWhenAllStarted
  BY DEF Ledger!SpentWhenAllAsked, SpentWhenAllStarted, BudgetAsked,
         Budget!TotalLimit, Ledger!TotalLimit, Budget!InitialLimit,
         Ledger!InitialLimit, Budget!Cardinality, Ledger!Cardinality
<1> QED BY LedgerRefined, <1>1, <1>2, PTL

\* The barrier: stages before the present one are done, later ones queued.
StagesInOrder ==
  \A i \in 1 .. Len(Stages) : \A n \in Stages[i] \cap Node :
    /\ i < stage => pc[n] = "done"
    /\ i > stage => pc[n] = "queued"

\* Only a node of the present stage starts, and a node that is done stays so.
LEMMA StageMove ==
  ASSUME TypeInv, NEW n \in Node, Step(n)
  PROVE  /\ UNCHANGED stage
         /\ \A o \in Node \ {n} : pc'[o] = pc[o]
         /\ pc[n] # "done"
         /\ pc[n] = "queued" => stage <= Len(Stages) /\ n \in Stages[stage]
<1> USE DEF TypeInv, TypeOK, GoTo
<1>1. CASE StartNode(n) \/ ClearBlock(n) \/ CheckIdentity(n) \/ AccountGate(n)
  BY <1>1 DEF StartNode, BeginCall, ClearBlock, CheckIdentity, AccountGate,
              ReturnNone, AfterCall
<1>2. CASE CheckEndpoint(n) \/ Reserve(n) \/ Deny(n)
  BY <1>2 DEF CheckEndpoint, Reserve, Deny, ReturnNone, AfterCall
<1>3. CASE Respond(n) \/ RespondAndRaise(n)
  BY <1>3 DEF Respond, RespondAndRaise, AddAttempt
<1>4. CASE RecordFeedback(n) \/ MarkBlocked(n) \/ FailInvalidEndpoint(n) \/ RestoreBlock(n)
  BY <1>4 DEF RecordFeedback, MarkBlocked, FailInvalidEndpoint, RestoreBlock, AfterCall
<1>5. CASE ResumePassed(n) \/ ResumeInitial(n) \/ ResumeSameModel(n)
  BY <1>5 DEF ResumePassed, ResumeInitial, ResumeSameModel, Resuming,
              StartSearch, GiveUp, Finish, BeginCall
<1>6. CASE ResumeReplacement(n) \/ ResumeRebind(n)
  BY <1>6 DEF ResumeReplacement, ResumeRebind, Resuming, ContinueSearch, GiveUp,
              Finish, BeginCall
<1>7. CASE StopSearch(n) \/ SelectInitial(n) \/ SelectStandby(n) \/ Claim(n)
  BY <1>7 DEF StopSearch, SelectInitial, SelectStandby, Selecting, Replanning,
              GiveUp, Finish, BeginCall, Claim, ContinueSearch
<1>8. CASE SelectZeroCost(n) \/ StopZeroCost(n) \/ ClaimZeroCost(n) \/ ResumeZeroCost(n)
  BY <1>8 DEF SelectZeroCost, StopZeroCost, ClaimZeroCost, ResumeZeroCost,
              Resuming, Finish, BeginCall
<1> QED BY <1>1, <1>2, <1>3, <1>4, <1>5, <1>6, <1>7, <1>8 DEF Step, Call, Recover

LEMMA StagesStep ==
  TypeInv /\ SpentWhenAllStarted /\ StagesInOrder /\ [Next]_vars => StagesInOrder'
<1> SUFFICES ASSUME TypeInv, SpentWhenAllStarted, StagesInOrder, [Next]_vars
             PROVE  StagesInOrder'
  OBVIOUS
<1>0. Len(Stages) \in Nat /\ stage \in 1 .. Len(Stages) + 1
  BY StageAssumption DEF TypeInv, TypeOK
<1>1. CASE \E n \in Node : Step(n)
  <2>1. PICK n \in Node : Step(n)
    BY <1>1
  <2>2. ASSUME NEW i \in 1 .. Len(Stages), n \in Stages[i], i > stage PROVE FALSE
    <3>1. pc[n] = "queued"
      BY <2>2 DEF StagesInOrder
    <3>2. stage \in 1 .. Len(Stages) /\ n \in Stages[stage]
      BY <1>0, <2>1, <3>1, StageMove
    <3> QED BY <1>0, <2>2, <3>2, StageAssumption
  <2> QED BY <2>1, <2>2, StageMove DEF StagesInOrder
<1>2. CASE AdvanceStage
  <2>1. /\ stage \in 1 .. Len(Stages) /\ UNCHANGED pc
        /\ \A n \in Stages[stage] : pc[n] = "done"
    BY <1>0, <1>2 DEF AdvanceStage, RunOver, where
  <2>2. CASE calls_reserved >= Budget!TotalLimit
    <3>1. stage' = Len(Stages) + 1
      BY <1>2, <2>2 DEF AdvanceStage
    <3>2. \A i \in 1 .. Len(Stages) : \A n \in Stages[i] \cap Node :
            pc[n] = "done"
      BY <1>0, <2>1, <2>2 DEF StagesInOrder, SpentWhenAllStarted
    <3> QED BY <1>0, <2>1, <3>1, <3>2 DEF StagesInOrder
  <2>3. CASE ~(calls_reserved >= Budget!TotalLimit)
    <3>1. stage' = stage + 1
      BY <1>2, <2>3 DEF AdvanceStage
    <3> QED BY <1>0, <2>1, <3>1 DEF StagesInOrder
  <2> QED BY <2>2, <2>3
<1>3. CASE UNCHANGED <<stage, where>>
  BY <1>3 DEF StagesInOrder, where
<1> QED BY <1>1, <1>2, <1>3 DEF Next, Finished, vars

\* The stage loop stops early only when every node has had its own call, so a
\* run that is over has left no node out, for any staging of any graph.
THEOREM NoNodeSkippedSafe == Spec => []NoNodeSkipped
<1>1. Init => StagesInOrder
  BY StageAssumption DEF Init, StagesInOrder
<1>2. TypeInv /\ StagesInOrder => NoNodeSkipped
  <2> SUFFICES ASSUME TypeInv, StagesInOrder, RunOver, NEW n \in Node
               PROVE  pc[n] = "done"
    BY DEF NoNodeSkipped
  <2>1. PICK i \in 1 .. Len(Stages) : n \in Stages[i]
    BY StageAssumption
  <2>2. i < stage
    BY StageAssumption DEF RunOver, TypeInv, TypeOK
  <2> QED BY <2>1, <2>2 DEF StagesInOrder
<1> QED BY <1>1, <1>2, TypeInit, TypeStep, StagesStep, CapacityLastsForAll, PTL DEF Spec

(***************************************************************************)
(* The moves of a node's thread                                            *)
(***************************************************************************)
\* The steps of a call up to its answer, from the answer to the judgement of
\* it, and the steps of the search between two calls.
Before    == {"clear", "identity", "gate", "endpoint", "reserve", "network"}
After     == {"record", "mark", "restore", "resume"}
Searching == {"select", "claim", "zselect", "zclaim"}

\* A search looks only for recovery models, and claims only standby ones.
SearchShape ==
  \A n \in Node :
    /\ remaining[n] \subseteq Recovery
    /\ pc[n] \in {"claim", "zclaim"} => cur[n].endpoint \in Standby

(***************************************************************************)
(* Which node holds which standby model                                    *)
(***************************************************************************)
\* The models a node has called or has a call under way for.
Held(n) ==
  AttemptedModels(n) \cup
    (IF pc[n] \in Before \cup After THEN {cur[n].endpoint} ELSE {})

\* A standby model in a node's hands was claimed, and is in no other's.
HeldByOne ==
  \A n \in Node :
    /\ Held(n) \cap Standby \subseteq standby_claimed
    /\ \A o \in Node \ {n} : Held(n) \cap Held(o) \cap Standby = {}

(***************************************************************************)
(* What a call repairs                                                     *)
(***************************************************************************)
\* The call of each phase: its kind, and the planned model until a search.
CallOfPhase(n) ==
  /\ cur[n].kind = CASE phase[n] = "initial"               -> "initial"
                     [] phase[n] \in {"samemodel", "rebind"} -> "retry"
                     [] phase[n] \in {"recover", "zero"}     -> "replacement"
  /\ phase[n] \in {"initial", "samemodel"} => cur[n].endpoint = Selected[n]

\* A retry repairs the last answer, a truncated one of its own model that was
\* no retry: the initial call's, or a replacement's.
RepairsLast(n) ==
  /\ attempts[n] # <<>>
  /\ LastAttempt(n).model = cur[n].endpoint
  /\ LastAttempt(n).outcome = "truncated"
  /\ LastAttempt(n).kind = IF phase[n] = "rebind" THEN "replacement" ELSE "initial"

\* What is known of a node's attempts at each step of a call.
CallFits(n) ==
  /\ pc[n] = "queued" => attempts[n] = <<>>
  /\ pc[n] \in Before \cup After => CallOfPhase(n)
  /\ pc[n] \in Before =>
       /\ phase[n] = "initial" => attempts[n] = <<>>
       /\ phase[n] \in {"samemodel", "rebind"} => RepairsLast(n)
       /\ phase[n] \in {"recover", "zero"}
            => cur[n].endpoint \notin AttemptedModels(n)
  /\ pc[n] \in After =>
       /\ returned[n] =>
            /\ attempts[n] # <<>>
            /\ LastAttempt(n).model = cur[n].endpoint
            /\ LastAttempt(n).kind = cur[n].kind
       /\ phase[n] = "initial" /\ ~returned[n] => attempts[n] = <<>>

\* The part of SameModelOnlyToRepairTruncation about one node.
RepairsOnly(n) ==
  \A i, j \in 1 .. Len(attempts[n]) :
    i < j /\ attempts[n][i].model = attempts[n][j].model
      => /\ j = i + 1
         /\ attempts[n][i].outcome = "truncated"
         /\ attempts[n][i].kind # "retry" /\ attempts[n][j].kind = "retry"

(***************************************************************************)
(* What the answers decide                                                 *)
(***************************************************************************)
NonePassed(n) ==
  \A i \in 1 .. Len(attempts[n]) : attempts[n][i].outcome # "passed"

\* A passed answer is the last one, and only ResumePassed comes after it.
PassedIsLast(n) ==
  /\ \A i \in 1 .. Len(attempts[n]) :
       attempts[n][i].outcome = "passed" => i = Len(attempts[n])
  /\ \/ pc[n] \in Before \cup Searching \cup {"queued"}
     \/ pc[n] \in After /\ ~returned[n]
     => NonePassed(n)

\* A usable answer whose truncated text a retry of the same model replaced.
Replaced(n, i) ==
  /\ attempts[n][i].kind = "replacement"
  /\ attempts[n][i].outcome = "truncated"
  /\ i < Len(attempts[n])
  /\ attempts[n][i + 1].kind = "retry"
  /\ attempts[n][i + 1].model = attempts[n][i].model

\* The last answer has not been judged: execute_node is not back with it, or
\* the replacement's retry is under way, or it passed.
Unjudged(n) ==
  \/ pc[n] \in After /\ (returned[n] \/ phase[n] = "rebind")
  \/ pc[n] \in Before /\ phase[n] = "rebind"
  \/ pc[n] = "done" /\ result[n] # "failed"

\* Every usable answer is kept, was replaced, or has not been judged.
UsableKept(n) ==
  \A i \in 1 .. Len(attempts[n]) :
    attempts[n][i].usable =>
      best[n] \/ Replaced(n, i) \/ (i = Len(attempts[n]) /\ Unjudged(n))

ResultFits(n) ==
  /\ pc[n] # "done" => result[n] = "running"
  /\ pc[n] = "done" =>
       /\ (result[n] \in Succeeded) = (Category(n) = "passed")
       /\ result[n] = "failed" => ~best[n]

(***************************************************************************)
(* Claims under an open quality circuit                                    *)
(***************************************************************************)
\* While the circuit is open no node can reach the claim, so the one it may
\* have been at is the last.
LateClaimsFit ==
  \A n \in Node :
    late_claims[n] = 0 \/ (quality_circuit_open /\ pc[n] # "claim" /\ late_claims[n] = 1)

(***************************************************************************)
(* Every step is a move                                                    *)
(***************************************************************************)
\* No other thread moves, and what it has found stays as it is.
OthersStay(n) ==
  \A o \in Node \ {n} :
    /\ pc'[o] = pc[o] /\ phase'[o] = phase[o] /\ cur'[o] = cur[o]
    /\ returned'[o] = returned[o] /\ attempts'[o] = attempts[o]
    /\ best'[o] = best[o] /\ result'[o] = result[o]

\* The call goes on: nothing of it changes but its step.
SameCall(n) ==
  /\ cur'[n] = cur[n] /\ phase'[n] = phase[n]
  /\ best'[n] = best[n] /\ result'[n] = result[n]
  /\ UNCHANGED standby_claimed

GoesOn(n) ==
  /\ \/ pc[n] \in Before /\ pc'[n] \in Before
     \/ pc[n] \in After /\ pc'[n] \in After
  /\ SameCall(n) /\ attempts'[n] = attempts[n] /\ returned'[n] = returned[n]

IsSuppressed(n) ==
  /\ pc[n] \in Before /\ pc'[n] \in After
  /\ SameCall(n) /\ attempts'[n] = attempts[n] /\ ~returned'[n]

IsAnswered(n) ==
  /\ pc[n] \in Before /\ pc'[n] \in After
  /\ SameCall(n) /\ returned'[n]
  /\ \E a \in AttemptRecord :
       /\ a.model = cur[n].endpoint /\ a.kind = cur[n].kind
       /\ attempts'[n] = Append(attempts[n], a)

Starts(n) ==
  /\ pc[n] = "queued" /\ pc'[n] = "gate"
  /\ cur'[n] = [kind |-> "initial", endpoint |-> Selected[n]]
  /\ phase'[n] = "initial"
  /\ attempts'[n] = attempts[n] /\ returned'[n] = returned[n]
  /\ best'[n] = best[n] /\ result'[n] = result[n]
  /\ UNCHANGED standby_claimed

\* What every step between two calls leaves alone.
BetweenSame(n) == attempts'[n] = attempts[n] /\ returned'[n] = returned[n]

HasPassed(n) ==
  /\ pc[n] = "resume" /\ returned[n] /\ Category(n) = "passed"
  /\ pc'[n] = "done" /\ result'[n] \in Succeeded
  /\ best'[n] = best[n]
  /\ BetweenSame(n) /\ UNCHANGED standby_claimed

\* The node is back from its call with an answer that did not pass, or none.
IsBack(n) == pc[n] = "resume" /\ ~(returned[n] /\ Category(n) = "passed")

\* The best answer after a step: the last one is judged as the node is back.
BestJudged(n) ==
  \/ /\ IsBack(n)
     /\ best'[n] = (best[n] \/ ((returned[n] \/ phase[n] = "rebind")
                                  /\ LastAttempt(n).usable))
  \/ /\ pc[n] \in Searching
     /\ best'[n] = best[n]

Searches(n) ==
  /\ BestJudged(n)
  /\ pc'[n] \in Searching /\ result'[n] = result[n]
  /\ BetweenSame(n) /\ UNCHANGED standby_claimed

Ends(n) ==
  /\ BestJudged(n)
  /\ pc'[n] = "done"
  /\ result'[n] = IF best'[n] THEN "success_degraded" ELSE "failed"
  /\ BetweenSame(n) /\ UNCHANGED standby_claimed

RetriesInitial(n) ==
  /\ IsBack(n) /\ BestJudged(n)
  /\ phase[n] = "initial" /\ Category(n) = "truncated"
  /\ pc'[n] = "gate" /\ phase'[n] = "samemodel"
  /\ cur'[n] = [kind |-> "retry", endpoint |-> Selected[n]]
  /\ result'[n] = result[n]
  /\ BetweenSame(n) /\ UNCHANGED standby_claimed

RetriesReplacement(n) ==
  /\ IsBack(n) /\ returned[n]
  /\ phase[n] = "recover" /\ Category(n) = "truncated"
  /\ pc'[n] = "gate" /\ phase'[n] = "rebind"
  /\ cur'[n] = [kind |-> "retry", endpoint |-> cur[n].endpoint]
  /\ best'[n] = best[n] /\ result'[n] = result[n]
  /\ BetweenSame(n) /\ UNCHANGED standby_claimed

\* A recovery model not tried yet, or a standby model nobody had claimed.
Replaces(n) ==
  /\ pc[n] \in Searching /\ pc'[n] \in Before
  /\ phase'[n] \in {"recover", "zero"}
  /\ \E m \in Model :
       /\ cur'[n] = [kind |-> "replacement", endpoint |-> m]
       /\ \/ /\ m \notin Standby /\ m \notin AttemptedModels(n)
             /\ UNCHANGED standby_claimed
          \/ /\ m \in Standby \ standby_claimed
             /\ standby_claimed' = standby_claimed \cup {m}
  /\ best'[n] = best[n] /\ result'[n] = result[n]
  /\ BetweenSame(n)

Moves(n) ==
  \/ GoesOn(n) \/ IsSuppressed(n) \/ IsAnswered(n) \/ Starts(n) \/ HasPassed(n)
  \/ Searches(n) \/ Ends(n) \/ RetriesInitial(n) \/ RetriesReplacement(n)
  \/ Replaces(n)

\* The types the classification of the steps needs, of this state only.
NodeTypes ==
  /\ pc \in [Node -> PC] /\ phase \in [Node -> Phase]
  /\ cur \in [Node -> CallRecord \cup {NoCall}]
  /\ returned \in [Node -> BOOLEAN]
  /\ attempts \in [Node -> Seq(AttemptRecord)]
  /\ remaining \in [Node -> SUBSET Model]
  /\ best \in [Node -> BOOLEAN] /\ result \in [Node -> Status]

LEMMA NodeTypesHold == TypeInv => NodeTypes
BY DEF TypeInv, TypeOK, NodeTypes, CallRecord

\* A step of the call is one of the first four moves.
LEMMA CallMoves ==
  ASSUME TypeInv, NEW n \in Node, Call(n)
  PROVE  (GoesOn(n) \/ IsSuppressed(n) \/ IsAnswered(n) \/ Starts(n)) /\ OthersStay(n)
<1>0. NodeTypes
  BY NodeTypesHold
<1> USE <1>0 DEF NodeTypes, OthersStay, SameCall, GoTo, Before, After, search, claims
<1>1. CASE StartNode(n)
  BY <1>1 DEF StartNode, BeginCall, Starts
<1>2. CASE ClearBlock(n) \/ Reserve(n)
  BY <1>2 DEF ClearBlock, Reserve, GoesOn
<1>3. CASE CheckIdentity(n) \/ AccountGate(n)
  BY <1>3 DEF CheckIdentity, AccountGate, ReturnNone, AfterCall, GoesOn, IsSuppressed
<1>4. CASE CheckEndpoint(n) \/ Deny(n)
  BY <1>4 DEF CheckEndpoint, Deny, ReturnNone, AfterCall, GoesOn, IsSuppressed
<1>5. CASE Respond(n) \/ RespondAndRaise(n)
  <2>1. PICK a \in AttemptRecord :
          /\ a.model = cur[n].endpoint /\ a.kind = cur[n].kind
          /\ AddAttempt(n, a)
    BY <1>5, AnswerType
  <2>2. UNCHANGED <<phase, cur, best, result, standby_claimed>>
    BY <1>5 DEF Respond, RespondAndRaise
  <2>3. pc[n] = "network"
    BY <1>5 DEF Respond, RespondAndRaise
  <2>4. /\ attempts' = [attempts EXCEPT ![n] = Append(attempts[n], a)]
        /\ returned' = [returned EXCEPT ![n] = TRUE]
        /\ pc' = [pc EXCEPT ![n] = "record"]
    BY <2>1 DEF AddAttempt
  <2>5. IsAnswered(n)
    BY <2>1, <2>2, <2>3, <2>4 DEF IsAnswered
  <2>6. OthersStay(n)
    BY <2>2, <2>4
  <2> QED BY <2>5, <2>6
<1>6. CASE RecordFeedback(n) \/ MarkBlocked(n)
  BY <1>6 DEF RecordFeedback, MarkBlocked, AfterCall, GoesOn
<1>7. CASE FailInvalidEndpoint(n) \/ RestoreBlock(n)
  BY <1>7 DEF FailInvalidEndpoint, RestoreBlock, AfterCall, GoesOn
<1> QED BY <1>1, <1>2, <1>3, <1>4, <1>5, <1>6, <1>7 DEF Call

\* A step between two calls is one of the others.
LEMMA RecoverMoves ==
  ASSUME TypeInv, SearchShape, NEW n \in Node, Recover(n)
  PROVE  Moves(n) /\ OthersStay(n)
<1>0. NodeTypes
  BY NodeTypesHold
<1> USE <1>0 DEF NodeTypes, OthersStay, BetweenSame, GoTo, Searching, Moves, search, claims
<1>a. ASSUME NEW attempted \in BOOLEAN, KeepBest(n, attempted), IsBack(n),
             attempted = (returned[n] \/ phase[n] = "rebind")
      PROVE  /\ BestJudged(n)
             /\ \A o \in Node \ {n} : best'[o] = best[o]
  BY <1>a DEF KeepBest, BestJudged
<1>b. ASSUME Finish(n, Fallback(n)), BestJudged(n), BetweenSame(n), UNCHANGED standby_claimed
      PROVE  Ends(n)
  BY <1>b DEF Finish, Fallback, Ends
<1>c. ASSUME GoTo(n, "select") \/ GoTo(n, "zselect"), UNCHANGED result,
             BestJudged(n), BetweenSame(n), UNCHANGED standby_claimed
      PROVE  Searches(n)
  BY <1>c DEF Searches
<1>1. CASE ResumePassed(n)
  <2>1. StatusFor[phase[n]] \in Succeeded
    BY DEF StatusFor, Succeeded, Phase
  <2> QED BY <1>1, <2>1 DEF ResumePassed, Finish, HasPassed
<1>2. CASE ResumeInitial(n)
  <2>1. /\ IsBack(n) /\ phase[n] = "initial" /\ KeepBest(n, returned[n])
        /\ UNCHANGED <<returned, attempts, standby_claimed>>
    BY <1>2 DEF ResumeInitial, Resuming, IsBack
  <2>2. BestJudged(n) /\ \A o \in Node \ {n} : best'[o] = best[o]
    BY <2>1, <1>a
  <2>3. CASE GoTo(n, "zselect") /\ UNCHANGED <<phase, cur, remaining, result>>
    BY <2>1, <2>2, <2>3, <1>c
  <2>4. CASE GiveUp(n)
    BY <2>1, <2>2, <2>4, <1>b DEF GiveUp, Finish
  <2>5. CASE /\ Category(n) = "truncated"
             /\ BeginCall(n, "retry", Selected[n], "samemodel") /\ UNCHANGED result
    BY <2>1, <2>2, <2>5 DEF BeginCall, RetriesInitial
  <2>6. CASE StartSearch(n)
    BY <2>1, <2>2, <2>6, <1>c DEF StartSearch
  <2> QED BY <1>2, <2>3, <2>4, <2>5, <2>6 DEF ResumeInitial
<1>3. CASE ResumeSameModel(n)
  <2>1. /\ IsBack(n) /\ phase[n] = "samemodel" /\ KeepBest(n, returned[n])
        /\ UNCHANGED <<returned, attempts, standby_claimed>>
        /\ StartSearch(n) \/ GiveUp(n)
    BY <1>3 DEF ResumeSameModel, Resuming, IsBack
  <2>2. BestJudged(n) /\ \A o \in Node \ {n} : best'[o] = best[o]
    BY <2>1, <1>a
  <2>3. CASE StartSearch(n)
    BY <2>1, <2>2, <2>3, <1>c DEF StartSearch
  <2>4. CASE GiveUp(n)
    BY <2>1, <2>2, <2>4, <1>b DEF GiveUp, Finish
  <2> QED BY <2>1, <2>3, <2>4
<1>4. CASE ResumeReplacement(n)
  <2>1. /\ IsBack(n) /\ phase[n] = "recover"
        /\ UNCHANGED <<returned, attempts, standby_claimed>>
    BY <1>4 DEF ResumeReplacement, Resuming, IsBack
  <2>2. CASE returned[n] /\ Category(n) = "truncated"
    <3>1. BeginCall(n, "retry", cur[n].endpoint, "rebind") /\ UNCHANGED <<best, result>>
      BY <1>4, <2>2 DEF ResumeReplacement
    <3> QED BY <2>1, <2>2, <3>1 DEF BeginCall, RetriesReplacement
  <2>3. CASE ~(returned[n] /\ Category(n) = "truncated")
    <3>1. KeepBest(n, returned[n]) /\ (ContinueSearch(n) \/ GiveUp(n))
      BY <1>4, <2>3 DEF ResumeReplacement
    <3>2. BestJudged(n) /\ \A o \in Node \ {n} : best'[o] = best[o]
      BY <2>1, <3>1, <1>a
    <3>3. CASE ContinueSearch(n)
      BY <2>1, <3>2, <3>3, <1>c DEF ContinueSearch
    <3>4. CASE GiveUp(n)
      BY <2>1, <3>2, <3>4, <1>b DEF GiveUp, Finish
    <3> QED BY <3>1, <3>3, <3>4
  <2> QED BY <2>2, <2>3
<1>5. CASE ResumeRebind(n)
  <2>1. /\ IsBack(n) /\ phase[n] = "rebind" /\ KeepBest(n, TRUE)
        /\ UNCHANGED <<returned, attempts, standby_claimed>>
        /\ ContinueSearch(n) \/ GiveUp(n)
    BY <1>5 DEF ResumeRebind, Resuming, IsBack
  <2>2. BestJudged(n) /\ \A o \in Node \ {n} : best'[o] = best[o]
    BY <2>1, <1>a
  <2>3. CASE ContinueSearch(n)
    BY <2>1, <2>2, <2>3, <1>c DEF ContinueSearch
  <2>4. CASE GiveUp(n)
    BY <2>1, <2>2, <2>4, <1>b DEF GiveUp, Finish
  <2> QED BY <2>1, <2>3, <2>4
<1>6. CASE StopSearch(n)
  <2>1. Selecting(n) /\ GiveUp(n)
    BY <1>6 DEF StopSearch, Replanning
  <2>2. BestJudged(n)
    BY <2>1 DEF Selecting, BestJudged
  <2> QED BY <2>1, <2>2, <1>b DEF Selecting, GiveUp, Finish
<1>7. CASE SelectInitial(n)
  <2>1. PICK m \in RemainingInitial(n) : BeginCall(n, "replacement", m, "recover")
    BY <1>7 DEF SelectInitial
  <2>2. m \in Model /\ m \notin Standby /\ m \notin AttemptedModels(n)
    BY ModelAssumption DEF RemainingInitial, SearchShape
  <2>3. Replaces(n)
    BY <1>7, <2>1, <2>2 DEF SelectInitial, Replanning, Selecting, BeginCall,
                            Replaces, Before
  <2> QED BY <1>7, <2>1, <2>3 DEF SelectInitial, Replanning, Selecting, BeginCall
<1>8. CASE SelectStandby(n)
  <2>1. BestJudged(n)
    BY <1>8 DEF SelectStandby, Replanning, Selecting, BestJudged
  <2> QED BY <1>8, <2>1 DEF SelectStandby, Replanning, Selecting, Searches
<1>9. CASE Claim(n)
  <2>1. /\ pc[n] = "claim" /\ cur[n].endpoint \in Standby
        /\ UNCHANGED <<returned, attempts, best>>
    BY <1>9 DEF Claim, SearchShape
  <2>2. CASE ContinueSearch(n) /\ UNCHANGED claims
    <3>1. BestJudged(n)
      BY <2>1 DEF BestJudged
    <3> QED BY <2>1, <2>2, <3>1, <1>c DEF ContinueSearch
  <2>3. CASE /\ cur[n].endpoint \notin standby_claimed
             /\ AddClaim(n, cur[n].endpoint)
             /\ BeginCall(n, "replacement", cur[n].endpoint, "recover")
             /\ UNCHANGED result
    <3>1. Replaces(n)
      BY <2>1, <2>3, ModelAssumption DEF AddClaim, BeginCall, Replaces, Before
    <3> QED BY <2>1, <2>3, <3>1 DEF BeginCall
  <2> QED BY <1>9, <2>2, <2>3 DEF Claim
<1>10. CASE SelectZeroCost(n)
  <2>1. /\ pc[n] = "zselect"
        /\ UNCHANGED <<returned, attempts, best, result, standby_claimed>>
    BY <1>10 DEF SelectZeroCost
  <2>2. PICK m \in ZeroCostSpace(n) :
          IF m \in Standby
          THEN /\ cur' = [cur EXCEPT ![n] = [kind |-> "replacement", endpoint |-> m]]
               /\ GoTo(n, "zclaim")
               /\ UNCHANGED phase
          ELSE BeginCall(n, "replacement", m, "zero")
    BY <1>10 DEF SelectZeroCost
  <2>3. CASE m \in Standby
    BY <2>1, <2>2, <2>3 DEF Searches, BestJudged
  <2>4. CASE m \notin Standby
    <3>1. m \in Model /\ m \notin AttemptedModels(n)
      BY ModelAssumption DEF ZeroCostSpace
    <3>2. Replaces(n)
      BY <2>1, <2>2, <2>4, <3>1 DEF BeginCall, Replaces, Before
    <3> QED BY <2>1, <2>2, <2>4, <3>2 DEF BeginCall
  <2> QED BY <2>3, <2>4
<1>11. CASE StopZeroCost(n)
  <2>1. BestJudged(n)
    BY <1>11 DEF StopZeroCost, BestJudged
  <2> QED BY <1>11, <2>1, <1>b DEF StopZeroCost, Finish
<1>12. CASE ClaimZeroCost(n)
  <2>1. /\ pc[n] = "zclaim" /\ cur[n].endpoint \in Standby
        /\ UNCHANGED <<returned, attempts, best, result>>
    BY <1>12 DEF ClaimZeroCost, SearchShape
  <2>2. CASE GoTo(n, "zselect") /\ UNCHANGED <<phase, cur, standby_claimed>>
    BY <2>1, <2>2, <1>c DEF BestJudged
  <2>3. CASE /\ cur[n].endpoint \notin standby_claimed
             /\ standby_claimed' = standby_claimed \cup {cur[n].endpoint}
             /\ BeginCall(n, "replacement", cur[n].endpoint, "zero")
    <3>1. Replaces(n)
      BY <2>1, <2>3, ModelAssumption DEF BeginCall, Replaces, Before
    <3> QED BY <2>1, <2>3, <3>1 DEF BeginCall
  <2> QED BY <1>12, <2>2, <2>3 DEF ClaimZeroCost
<1>13. CASE ResumeZeroCost(n)
  <2>1. /\ IsBack(n) /\ phase[n] = "zero" /\ KeepBest(n, returned[n])
        /\ UNCHANGED <<returned, attempts, standby_claimed>>
    BY <1>13 DEF ResumeZeroCost, Resuming, IsBack
  <2>2. BestJudged(n) /\ \A o \in Node \ {n} : best'[o] = best[o]
    BY <2>1, <1>a
  <2>3. CASE Finish(n, Fallback(n))
    BY <2>1, <2>2, <2>3, <1>b DEF Finish
  <2>4. CASE GoTo(n, "zselect") /\ UNCHANGED <<phase, cur, result>>
    BY <2>1, <2>2, <2>4, <1>c
  <2> QED BY <1>13, <2>3, <2>4 DEF ResumeZeroCost
<1> QED BY <1>1, <1>2, <1>3, <1>4, <1>5, <1>6, <1>7, <1>8, <1>9, <1>10, <1>11,
           <1>12, <1>13 DEF Recover

LEMMA StepMoves ==
  ASSUME TypeInv, SearchShape, NEW n \in Node, Step(n)
  PROVE  Moves(n) /\ OthersStay(n)
BY CallMoves, RecoverMoves DEF Step, Moves

(***************************************************************************)
(* Standby models                                                          *)
(***************************************************************************)
LEMMA SearchShapeStep ==
  ASSUME TypeInv, SearchShape, [Next]_vars
  PROVE  SearchShape'
<1>0. NodeTypes
  BY NodeTypesHold
<1> DEFINE Fits(n) ==
      /\ remaining'[n] \subseteq Recovery
      /\ pc'[n] \in {"claim", "zclaim"} => cur'[n].endpoint \in Standby
<1>1. CASE \E n \in Node : Step(n)
  <2>1. PICK n \in Node : Step(n)
    BY <1>1
  <2>2. OthersStay(n)
    BY <2>1, StepMoves
  <2>3. \A o \in Node \ {n} : remaining'[o] = remaining[o]
    <3>1. CASE Call(n)
      BY <3>1 DEF Call, StartNode, ClearBlock, CheckIdentity, AccountGate,
                  CheckEndpoint, Reserve, Deny, Respond, RespondAndRaise,
                  RecordFeedback, MarkBlocked, FailInvalidEndpoint, RestoreBlock,
                  search
    <3>2. CASE ResumePassed(n) \/ ResumeInitial(n) \/ ResumeSameModel(n)
               \/ ResumeReplacement(n) \/ ResumeRebind(n)
      BY <1>0, <3>2 DEF ResumePassed, ResumeInitial, ResumeSameModel,
              ResumeReplacement, ResumeRebind, StartSearch, ContinueSearch,
              GiveUp, search, NodeTypes
    <3>3. CASE StopSearch(n) \/ SelectInitial(n) \/ SelectStandby(n) \/ Claim(n)
      BY <1>0, <3>3 DEF StopSearch, SelectInitial, SelectStandby, Claim,
              ContinueSearch, GiveUp, NodeTypes
    <3>4. CASE SelectZeroCost(n) \/ StopZeroCost(n) \/ ClaimZeroCost(n) \/ ResumeZeroCost(n)
      BY <3>4 DEF SelectZeroCost, StopZeroCost, ClaimZeroCost, ResumeZeroCost, search
    <3> QED BY <2>1, <3>1, <3>2, <3>3, <3>4 DEF Step, Recover
  <2>4. Fits(n)
    <3> USE <1>0 DEF NodeTypes, GoTo, SearchShape
    <3>1. CASE Call(n)
      <4>1. UNCHANGED remaining
        BY <3>1 DEF Call, StartNode, ClearBlock, CheckIdentity, AccountGate,
                    CheckEndpoint, Reserve, Deny, Respond, RespondAndRaise,
                    RecordFeedback, MarkBlocked, FailInvalidEndpoint,
                    RestoreBlock, search
      <4>2. pc'[n] \in Before \cup After
        BY <3>1, CallMoves DEF GoesOn, IsSuppressed, IsAnswered, Starts, Before
      <4> QED BY <4>1, <4>2 DEF Before, After
    <3>2. CASE ResumePassed(n) \/ ResumeInitial(n) \/ ResumeSameModel(n)
      BY <3>2 DEF ResumePassed, ResumeInitial, ResumeSameModel, StartSearch,
                  BeginCall, GiveUp, Finish, search
    <3>3. CASE ResumeReplacement(n) \/ ResumeRebind(n) \/ StopSearch(n)
      BY <3>3 DEF ResumeReplacement, ResumeRebind, StopSearch, ContinueSearch,
                  BeginCall, GiveUp, Finish
    <3>4. CASE SelectInitial(n) \/ SelectStandby(n)
      <4>1. RemainingInitial(n) \subseteq Recovery
        BY DEF RemainingInitial
      <4>2. Promotable(n) \subseteq Standby
        BY DEF Promotable
      <4> QED BY <3>4, <4>1, <4>2 DEF SelectInitial, SelectStandby, BeginCall
    <3>5. CASE Claim(n)
      BY <3>5 DEF Claim, ContinueSearch, BeginCall
    <3>6. CASE SelectZeroCost(n) \/ StopZeroCost(n)
      BY <3>6 DEF SelectZeroCost, StopZeroCost, BeginCall, Finish, search
    <3>7. CASE ClaimZeroCost(n) \/ ResumeZeroCost(n)
      BY <3>7 DEF ClaimZeroCost, ResumeZeroCost, BeginCall, Finish, search
    <3> QED BY <2>1, <3>1, <3>2, <3>3, <3>4, <3>5, <3>6, <3>7 DEF Step, Recover
  <2> QED BY <2>2, <2>3, <2>4 DEF SearchShape, OthersStay
<1>2. CASE UNCHANGED <<where, remaining>>
  BY <1>2 DEF SearchShape, where
<1> QED BY <1>1, <1>2 DEF Next, AdvanceStage, Finished, vars, search

\* A new answer adds its model to those the node has attempted.
LEMMA AttemptedAfterAnswer ==
  ASSUME NodeTypes, NEW n \in Node, NEW a \in AttemptRecord,
         attempts'[n] = Append(attempts[n], a)
  PROVE  /\ AttemptedModels(n)' = AttemptedModels(n) \cup {a.model}
         /\ Len(attempts'[n]) = Len(attempts[n]) + 1
         /\ LastAttempt(n)' = a
         /\ \A i \in 1 .. Len(attempts[n]) : attempts'[n][i] = attempts[n][i]
<1> DEFINE s == attempts[n]
           t == attempts'[n]
<1>1. s \in Seq(AttemptRecord) /\ t = Append(s, a)
  BY DEF NodeTypes
<1> HIDE DEF s, t
<1>2. /\ Len(t) = Len(s) + 1 /\ Len(s) \in Nat
      /\ \A i \in 1 .. Len(s) : t[i] = s[i]
      /\ t[Len(s) + 1] = a
  BY <1>1
<1>3. {t[i].model : i \in 1 .. Len(t)} = {s[i].model : i \in 1 .. Len(s)} \cup {a.model}
  <2>1. 1 .. Len(t) = (1 .. Len(s)) \cup {Len(s) + 1}
    BY <1>2
  <2> QED BY <1>2, <2>1
<1> QED BY <1>2, <1>3 DEF AttemptedModels, LastAttempt, s, t

LEMMA AttemptedSame ==
  ASSUME NEW n \in Node, attempts'[n] = attempts[n]
  PROVE  AttemptedModels(n)' = AttemptedModels(n) /\ LastAttempt(n)' = LastAttempt(n)
BY DEF AttemptedModels, LastAttempt

\* A move hands the node at most one model it did not hold, and that one is
\* no standby model or one that nobody had claimed.
LEMMA HeldAfterMove ==
  ASSUME TypeInv, NEW n \in Node, Moves(n)
  PROVE  /\ standby_claimed \subseteq standby_claimed'
         /\ \A m \in Held(n)' \ Held(n) :
              m \in Standby => m \notin standby_claimed /\ m \in standby_claimed'
<1>0. NodeTypes
  BY NodeTypesHold
<1> USE DEF Held, Before, After
<1>1. CASE IsAnswered(n)
  <2>1. PICK a \in AttemptRecord :
          a.model = cur[n].endpoint /\ attempts'[n] = Append(attempts[n], a)
    BY <1>1 DEF IsAnswered
  <2>2. AttemptedModels(n)' = AttemptedModels(n) \cup {cur[n].endpoint}
    BY <1>0, <2>1, AttemptedAfterAnswer
  <2> QED BY <1>1, <2>2 DEF IsAnswered, SameCall
<1>2. CASE GoesOn(n) \/ IsSuppressed(n)
  BY <1>2, AttemptedSame DEF GoesOn, IsSuppressed, SameCall
<1>3. CASE Starts(n) \/ RetriesInitial(n)
  <2>1. AttemptedModels(n)' = AttemptedModels(n)
    BY <1>3, AttemptedSame DEF Starts, RetriesInitial, BetweenSame
  <2>2. Selected[n] \notin Standby
    BY ModelAssumption
  <2> QED BY <1>3, <2>1, <2>2 DEF Starts, RetriesInitial
<1>4. CASE HasPassed(n) \/ Searches(n) \/ Ends(n)
  BY <1>4, AttemptedSame DEF HasPassed, Searches, Ends, BetweenSame, Searching
<1>5. CASE RetriesReplacement(n)
  BY <1>5, AttemptedSame DEF RetriesReplacement, IsBack, BetweenSame
<1>6. CASE Replaces(n)
  BY <1>6, AttemptedSame DEF Replaces, BetweenSame
<1> QED BY <1>1, <1>2, <1>3, <1>4, <1>5, <1>6 DEF Moves

LEMMA HeldByOneStep ==
  ASSUME TypeInv, SearchShape, HeldByOne, [Next]_vars
  PROVE  HeldByOne'
<1>1. CASE \E n \in Node : Step(n)
  <2>1. PICK n \in Node : Step(n)
    BY <1>1
  <2>2. Moves(n) /\ OthersStay(n)
    BY <2>1, StepMoves
  <2>3. \A o \in Node \ {n} : Held(o)' = Held(o)
    BY <2>2, AttemptedSame DEF OthersStay, Held
  <2> QED BY <2>2, <2>3, HeldAfterMove DEF HeldByOne
<1>2. CASE UNCHANGED <<where, attempts, standby_claimed>>
  <2>1. \A o \in Node : Held(o)' = Held(o)
    BY <1>2, AttemptedSame DEF Held, where
  <2> QED BY <1>2, <2>1 DEF HeldByOne
<1> QED BY <1>1, <1>2 DEF Next, AdvanceStage, Finished, vars, claims

StandbyInv == TypeInv /\ SearchShape /\ HeldByOne

LEMMA StandbyInit == Init => StandbyInv
<1>1. Init => SearchShape
  BY DEF Init, SearchShape
<1>2. ASSUME Init PROVE HeldByOne
  <2>1. \A n \in Node : AttemptedModels(n) = {}
    BY <1>2 DEF Init, AttemptedModels
  <2>2. \A n \in Node : Held(n) = {}
    BY <1>2, <2>1 DEF Init, Held, Before, After
  <2> QED BY <2>2 DEF HeldByOne
<1> QED BY <1>1, <1>2, TypeInit DEF StandbyInv

LEMMA StandbyStep == StandbyInv /\ [Next]_vars => StandbyInv'
BY TypeStep, SearchShapeStep, HeldByOneStep DEF StandbyInv

\* A standby model is a candidate of one node only, however the claims of
\* parallel searches interleave, for any number of nodes and models.
THEOREM StandbySafe == Spec => []StandbyUsedByOneNode
<1>1. StandbyInv => StandbyUsedByOneNode
  BY DEF StandbyInv, HeldByOne, Held, StandbyUsedByOneNode
<1> QED BY <1>1, StandbyInit, StandbyStep, PTL DEF Spec

(***************************************************************************)
(* When a model is called again                                            *)
(***************************************************************************)
LEMMA CallFitsAfterMove ==
  ASSUME StandbyInv, NEW n \in Node, Moves(n), CallFits(n)
  PROVE  CallFits(n)'
<1>0. NodeTypes
  BY NodeTypesHold DEF StandbyInv
<1>1. attempts[n] \in Seq(AttemptRecord) /\ returned[n] \in BOOLEAN
      /\ phase[n] \in Phase
  BY <1>0 DEF NodeTypes
<1>2. CASE GoesOn(n) \/ IsSuppressed(n)
  <2>1. /\ attempts'[n] = attempts[n] /\ cur'[n] = cur[n] /\ phase'[n] = phase[n]
        /\ LastAttempt(n)' = LastAttempt(n)
        /\ AttemptedModels(n)' = AttemptedModels(n)
    BY <1>2, AttemptedSame DEF GoesOn, IsSuppressed, SameCall
  <2>2. /\ CallOfPhase(n)' <=> CallOfPhase(n)
        /\ RepairsLast(n)' <=> RepairsLast(n)
    BY <2>1 DEF CallOfPhase, RepairsLast
  <2>3. CASE GoesOn(n)
    BY <2>1, <2>2, <2>3 DEF GoesOn, CallFits, Before, After
  <2>4. CASE IsSuppressed(n)
    BY <2>1, <2>2, <2>4 DEF IsSuppressed, CallFits, Before, After
  <2> QED BY <1>2, <2>3, <2>4
<1>3. CASE IsAnswered(n)
  <2>1. PICK a \in AttemptRecord :
          /\ a.model = cur[n].endpoint /\ a.kind = cur[n].kind
          /\ attempts'[n] = Append(attempts[n], a)
    BY <1>3 DEF IsAnswered
  <2>2. LastAttempt(n)' = a /\ attempts'[n] # <<>>
    BY <1>0, <1>1, <2>1, AttemptedAfterAnswer
  <2>3. CallOfPhase(n)'
    BY <1>3 DEF IsAnswered, SameCall, CallFits, CallOfPhase
  <2> QED BY <1>3, <2>1, <2>2, <2>3 DEF IsAnswered, SameCall, CallFits, Before, After
<1>4. CASE Starts(n)
  BY <1>4 DEF Starts, CallFits, CallOfPhase, Before, After
<1>5. CASE HasPassed(n) \/ Searches(n) \/ Ends(n)
  BY <1>5 DEF HasPassed, Searches, Ends, CallFits, Before, After, Searching
<1>6. CASE RetriesInitial(n)
  <2>1. /\ attempts[n] # <<>> /\ LastAttempt(n).outcome = "truncated"
    BY <1>6 DEF RetriesInitial, Category
  <2>2. /\ returned[n]
        /\ LastAttempt(n).model = Selected[n] /\ LastAttempt(n).kind = "initial"
    BY <1>1, <1>6, <2>1 DEF RetriesInitial, IsBack, CallFits, CallOfPhase, After
  <2>3. LastAttempt(n)' = LastAttempt(n)
    BY <1>6, AttemptedSame DEF RetriesInitial, BetweenSame
  <2> QED BY <1>6, <2>1, <2>2, <2>3
          DEF RetriesInitial, BetweenSame, CallFits, CallOfPhase, RepairsLast, Before, After
<1>7. CASE RetriesReplacement(n)
  <2>1. /\ attempts[n] # <<>> /\ LastAttempt(n).outcome = "truncated"
    BY <1>7 DEF RetriesReplacement, Category
  <2>2. /\ LastAttempt(n).model = cur[n].endpoint /\ LastAttempt(n).kind = "replacement"
    BY <1>7 DEF RetriesReplacement, IsBack, CallFits, CallOfPhase, After
  <2>3. LastAttempt(n)' = LastAttempt(n)
    BY <1>7, AttemptedSame DEF RetriesReplacement, BetweenSame
  <2> QED BY <1>7, <2>1, <2>2, <2>3
          DEF RetriesReplacement, BetweenSame, CallFits, CallOfPhase, RepairsLast, Before, After
<1>8. CASE Replaces(n)
  <2>1. PICK m \in Model :
          /\ cur'[n] = [kind |-> "replacement", endpoint |-> m]
          /\ \/ m \notin Standby /\ m \notin AttemptedModels(n)
             \/ m \in Standby \ standby_claimed
    BY <1>8 DEF Replaces
  <2>2. m \notin AttemptedModels(n)
    BY <2>1 DEF StandbyInv, HeldByOne, Held
  <2>3. AttemptedModels(n)' = AttemptedModels(n)
    BY <1>8, AttemptedSame DEF Replaces, BetweenSame
  <2> QED BY <1>8, <2>1, <2>2, <2>3 DEF Replaces, CallFits, CallOfPhase, Before, After
<1> QED BY <1>2, <1>3, <1>4, <1>5, <1>6, <1>7, <1>8 DEF Moves

LEMMA RepairsAfterMove ==
  ASSUME TypeInv, NEW n \in Node, Moves(n), CallFits(n), RepairsOnly(n)
  PROVE  RepairsOnly(n)'
<1>0. NodeTypes
  BY NodeTypesHold
<1>1. CASE IsAnswered(n)
  <2>1. PICK a \in AttemptRecord :
          /\ a.model = cur[n].endpoint /\ a.kind = cur[n].kind
          /\ attempts'[n] = Append(attempts[n], a)
    BY <1>1 DEF IsAnswered
  <2> DEFINE k == Len(attempts[n])
  <2>2. /\ k \in Nat /\ Len(attempts'[n]) = k + 1 /\ attempts'[n][k + 1] = a
        /\ \A i \in 1 .. k : attempts'[n][i] = attempts[n][i]
    BY <1>0, <2>1, AttemptedAfterAnswer DEF NodeTypes, LastAttempt
  <2>3. ASSUME NEW i \in 1 .. k, attempts[n][i].model = a.model
        PROVE  /\ i = k /\ a.kind = "retry"
               /\ attempts[n][i].outcome = "truncated" /\ attempts[n][i].kind # "retry"
    <3>1. a.model \in AttemptedModels(n) /\ attempts[n] # <<>>
      BY <2>2, <2>3 DEF AttemptedModels
    <3>2. phase[n] \in {"samemodel", "rebind"} /\ RepairsLast(n) /\ a.kind = "retry"
      BY <1>0, <1>1, <2>1, <3>1
      DEF IsAnswered, CallFits, CallOfPhase, NodeTypes, Phase, Before
    <3>3. k \in 1 .. k
      BY <2>2, <2>3
    <3>4. attempts[n][k].model = a.model /\ attempts[n][k].kind # "retry"
      BY <2>1, <3>2 DEF RepairsLast, LastAttempt
    <3>5. i = k
      <4>1. ~(i < k)
        BY <2>3, <3>3, <3>4 DEF RepairsOnly, k
      <4> QED BY <2>2, <4>1
    <3> QED BY <3>2, <3>4, <3>5 DEF RepairsLast, LastAttempt
  <2> HIDE DEF k
  <2>4. ASSUME NEW i \in 1 .. k + 1, NEW j \in 1 .. k + 1, i < j,
               attempts'[n][i].model = attempts'[n][j].model
        PROVE  /\ j = i + 1
               /\ attempts'[n][i].outcome = "truncated"
               /\ attempts'[n][i].kind # "retry" /\ attempts'[n][j].kind = "retry"
    <3>1. i \in 1 .. k
      BY <2>2, <2>4
    <3>2. CASE j = k + 1
      BY <2>2, <2>3, <2>4, <3>1, <3>2
    <3>3. CASE j \in 1 .. k
      BY <2>2, <2>4, <3>1, <3>3 DEF RepairsOnly, k
    <3> QED BY <2>2, <3>2, <3>3
  <2> QED BY <2>2, <2>4 DEF RepairsOnly
<1>2. CASE ~IsAnswered(n)
  <2>1. attempts'[n] = attempts[n]
    BY <1>2 DEF Moves, GoesOn, IsSuppressed, Starts, HasPassed, Searches, Ends,
                RetriesInitial, RetriesReplacement, Replaces, BetweenSame
  <2> QED BY <2>1 DEF RepairsOnly
<1> QED BY <1>1, <1>2

(***************************************************************************)
(* What a node reports                                                     *)
(***************************************************************************)
LEMMA PassedAfterMove ==
  ASSUME TypeInv, NEW n \in Node, Moves(n), PassedIsLast(n)
  PROVE  PassedIsLast(n)'
<1>0. NodeTypes
  BY NodeTypesHold
<1>1. attempts[n] \in Seq(AttemptRecord) /\ returned[n] \in BOOLEAN
  BY <1>0 DEF NodeTypes
<1>2. CASE IsAnswered(n)
  <2>1. PICK a \in AttemptRecord : attempts'[n] = Append(attempts[n], a)
    BY <1>2 DEF IsAnswered
  <2>2. /\ Len(attempts'[n]) = Len(attempts[n]) + 1
        /\ \A i \in 1 .. Len(attempts[n]) : attempts'[n][i] = attempts[n][i]
    BY <1>0, <2>1, AttemptedAfterAnswer
  <2>3. NonePassed(n)
    BY <1>2 DEF IsAnswered, PassedIsLast
  <2>4. \A i \in 1 .. Len(attempts'[n]) :
          attempts'[n][i].outcome = "passed" => i = Len(attempts'[n])
    BY <1>1, <2>2, <2>3 DEF NonePassed
  <2> QED BY <1>2, <2>4 DEF IsAnswered, PassedIsLast, Before, After, Searching
<1>3. CASE GoesOn(n) \/ IsSuppressed(n)
  BY <1>1, <1>3 DEF GoesOn, IsSuppressed, SameCall, PassedIsLast, NonePassed, Before,
                    After, Searching
<1>4. CASE HasPassed(n) \/ Ends(n)
  BY <1>4 DEF HasPassed, Ends, BetweenSame, PassedIsLast, NonePassed, Before, After,
              Searching
<1>5. ASSUME attempts'[n] = attempts[n], NonePassed(n)
      PROVE  PassedIsLast(n)'
  BY <1>5 DEF PassedIsLast, NonePassed
<1>6. CASE Starts(n) \/ Replaces(n)
  BY <1>5, <1>6 DEF Starts, Replaces, BetweenSame, PassedIsLast
<1>7. IsBack(n) => NonePassed(n)
  <2> SUFFICES ASSUME IsBack(n), returned[n], NEW i \in 1 .. Len(attempts[n]),
                      attempts[n][i].outcome = "passed"
               PROVE  FALSE
    BY DEF IsBack, PassedIsLast, NonePassed, After
  <2>1. i = Len(attempts[n]) /\ attempts[n] # <<>>
    BY <1>1 DEF PassedIsLast
  <2> QED BY <2>1 DEF IsBack, Category, LastAttempt
<1>8. CASE Searches(n)
  BY <1>5, <1>7, <1>8 DEF Searches, BestJudged, BetweenSame, PassedIsLast
<1>9. CASE RetriesInitial(n) \/ RetriesReplacement(n)
  BY <1>5, <1>7, <1>9 DEF RetriesInitial, RetriesReplacement, BetweenSame
<1> QED BY <1>2, <1>3, <1>4, <1>6, <1>8, <1>9 DEF Moves

\* Judging the last answer leaves no answer unjudged.
LEMMA KeptAfterJudgement ==
  ASSUME TypeInv, NEW n \in Node, UsableKept(n), BestJudged(n)
  PROVE  \A i \in 1 .. Len(attempts[n]) :
           attempts[n][i].usable => best'[n] \/ Replaced(n, i)
<1>0. best[n] \in BOOLEAN
  BY DEF TypeInv, TypeOK
<1>1. CASE pc[n] \in Searching
  BY <1>1 DEF UsableKept, BestJudged, Unjudged, IsBack, Searching, Before, After
<1>2. CASE IsBack(n)
  <2>1. Unjudged(n) => returned[n] \/ phase[n] = "rebind"
    BY <1>2 DEF Unjudged, IsBack, Before
  <2> QED BY <1>0, <1>2, <2>1 DEF UsableKept, BestJudged, IsBack, LastAttempt, Searching
<1> QED BY <1>1, <1>2 DEF BestJudged

LEMMA KeptAfterMove ==
  ASSUME TypeInv, NEW n \in Node, Moves(n), CallFits(n), UsableKept(n)
  PROVE  UsableKept(n)'
<1>0. NodeTypes
  BY NodeTypesHold
<1>1. attempts[n] \in Seq(AttemptRecord) /\ returned[n] \in BOOLEAN
      /\ best[n] \in BOOLEAN
  BY <1>0 DEF NodeTypes
<1>2. ASSUME attempts'[n] = attempts[n], NEW i \in 1 .. Len(attempts[n])
      PROVE  Replaced(n, i)' <=> Replaced(n, i)
  BY <1>2 DEF Replaced
<1>3. CASE IsAnswered(n)
  <2>1. PICK a \in AttemptRecord :
          /\ a.model = cur[n].endpoint /\ a.kind = cur[n].kind
          /\ attempts'[n] = Append(attempts[n], a)
    BY <1>3 DEF IsAnswered
  <2> DEFINE k == Len(attempts[n])
  <2>2. /\ k \in Nat /\ Len(attempts'[n]) = k + 1 /\ attempts'[n][k + 1] = a
        /\ \A i \in 1 .. k : attempts'[n][i] = attempts[n][i]
    BY <1>0, <1>1, <2>1, AttemptedAfterAnswer DEF LastAttempt
  <2>3. Unjudged(n)'
    BY <1>3 DEF IsAnswered, Unjudged
  <2>4. ASSUME NEW i \in 1 .. k, Replaced(n, i) PROVE Replaced(n, i)'
    <3>1. i < k /\ i + 1 \in 1 .. k
      BY <2>2, <2>4 DEF Replaced
    <3> QED BY <2>2, <2>4, <3>1 DEF Replaced
  <2>5. ASSUME NEW i \in 1 .. k, i = k, Unjudged(n) PROVE Replaced(n, i)'
    <3>1. phase[n] = "rebind" /\ pc[n] \in Before
      BY <1>3, <2>5 DEF IsAnswered, Unjudged, Before, After
    <3>2. RepairsLast(n) /\ cur[n].kind = "retry"
      BY <3>1 DEF CallFits, CallOfPhase
    <3> QED BY <2>1, <2>2, <2>5, <3>1, <3>2 DEF RepairsLast, LastAttempt, Replaced
  <2>6. best'[n] = best[n]
    BY <1>3 DEF IsAnswered, SameCall
  <2>7. ASSUME NEW i \in 1 .. k + 1, attempts'[n][i].usable
        PROVE  best'[n] \/ Replaced(n, i)' \/ i = k + 1
    BY <2>2, <2>4, <2>5, <2>6, <2>7 DEF UsableKept
  <2> QED BY <2>2, <2>3, <2>7 DEF UsableKept
<1>4. CASE GoesOn(n) \/ IsSuppressed(n)
  <2>1. /\ attempts'[n] = attempts[n] /\ best'[n] = best[n]
        /\ Unjudged(n) => Unjudged(n)'
    BY <1>4 DEF GoesOn, IsSuppressed, SameCall, Unjudged, Before, After
  <2> QED BY <1>2, <2>1 DEF UsableKept
<1>5. ASSUME attempts'[n] = attempts[n],
             \A i \in 1 .. Len(attempts[n]) :
               attempts[n][i].usable => best'[n] \/ Replaced(n, i)
      PROVE  UsableKept(n)'
  BY <1>2, <1>5 DEF UsableKept
<1>6. CASE Starts(n) \/ Replaces(n)
  <2>1. ~Unjudged(n) /\ attempts'[n] = attempts[n] /\ best'[n] = best[n]
    BY <1>6 DEF Starts, Replaces, BetweenSame, Unjudged, Before, After, Searching
  <2> QED BY <1>5, <2>1 DEF UsableKept
<1>7. CASE Searches(n) \/ Ends(n) \/ RetriesInitial(n)
  <2>1. BestJudged(n) /\ attempts'[n] = attempts[n]
    BY <1>7 DEF Searches, Ends, RetriesInitial, BetweenSame
  <2> QED BY <1>5, <2>1, KeptAfterJudgement
<1>8. CASE RetriesReplacement(n)
  <2>1. Unjudged(n)' /\ attempts'[n] = attempts[n] /\ best'[n] = best[n]
    BY <1>8 DEF RetriesReplacement, BetweenSame, Unjudged, Before
  <2> QED BY <1>2, <2>1 DEF UsableKept
<1>9. CASE HasPassed(n)
  <2>1. attempts'[n] = attempts[n] /\ best'[n] = best[n]
    BY <1>9 DEF HasPassed, BetweenSame
  <2>2. Unjudged(n)'
    BY <1>9 DEF HasPassed, Unjudged, Succeeded
  <2> QED BY <1>2, <2>1, <2>2 DEF UsableKept
<1> QED BY <1>3, <1>4, <1>6, <1>7, <1>8, <1>9 DEF Moves

LEMMA ResultAfterMove ==
  ASSUME TypeInv, NEW n \in Node, Moves(n), PassedIsLast(n), ResultFits(n)
  PROVE  ResultFits(n)'
<1>1. attempts[n] \in Seq(AttemptRecord)
  BY NodeTypesHold DEF NodeTypes
<1>2. CASE HasPassed(n)
  <2>1. Category(n)' = Category(n)
    BY <1>2 DEF HasPassed, BetweenSame, Category, LastAttempt
  <2> QED BY <1>2, <2>1 DEF HasPassed, ResultFits, Succeeded
<1>3. CASE Ends(n)
  <2>1. Category(n)' = Category(n)
    BY <1>3 DEF Ends, BetweenSame, Category, LastAttempt
  <2>2. result'[n] \notin Succeeded /\ (result'[n] = "failed" => ~best'[n])
    BY <1>3 DEF Ends, Succeeded
  <2>3. NonePassed(n) => Category(n) # "passed"
    BY <1>1 DEF NonePassed, Category, LastAttempt
  <2>4. Category(n) # "passed"
    BY <1>3, <2>3 DEF Ends, BestJudged, IsBack, PassedIsLast, After
  <2> QED BY <1>3, <2>1, <2>2, <2>4 DEF Ends, ResultFits
<1>4. CASE ~HasPassed(n) /\ ~Ends(n)
  <2>1. pc[n] # "done" /\ pc'[n] # "done" /\ result'[n] = result[n]
    BY <1>4 DEF Moves, GoesOn, IsSuppressed, IsAnswered, Starts, Searches,
                RetriesInitial, RetriesReplacement, Replaces, SameCall,
                BestJudged, IsBack, Before, After, Searching
  <2> QED BY <2>1 DEF ResultFits
<1> QED BY <1>2, <1>3, <1>4

(***************************************************************************)
(* The invariant of a node's recovery                                      *)
(***************************************************************************)
NodeFits(n) ==
  /\ CallFits(n) /\ RepairsOnly(n)
  /\ PassedIsLast(n) /\ UsableKept(n) /\ ResultFits(n)

RecoveryInv == StandbyInv /\ \A n \in Node : NodeFits(n)

\* What is known of a node depends on that node alone.
LEMMA NodeFitsAlone ==
  ASSUME NEW n \in Node, NodeFits(n),
         pc'[n] = pc[n], phase'[n] = phase[n], cur'[n] = cur[n],
         returned'[n] = returned[n], attempts'[n] = attempts[n],
         best'[n] = best[n], result'[n] = result[n]
  PROVE  NodeFits(n)'
<1>1. CallFits(n)'
  BY DEF NodeFits, CallFits, CallOfPhase, RepairsLast, LastAttempt, AttemptedModels
<1>2. RepairsOnly(n)'
  BY DEF NodeFits, RepairsOnly
<1>3. PassedIsLast(n)'
  BY DEF NodeFits, PassedIsLast, NonePassed
<1>4. UsableKept(n)'
  BY DEF NodeFits, UsableKept, Replaced, Unjudged
<1>5. ResultFits(n)'
  BY DEF NodeFits, ResultFits, Category, LastAttempt
<1> QED BY <1>1, <1>2, <1>3, <1>4, <1>5 DEF NodeFits

LEMMA RecoveryInit == Init => RecoveryInv
<1> SUFFICES ASSUME Init, NEW n \in Node PROVE NodeFits(n)
  BY StandbyInit DEF RecoveryInv
<1>1. /\ pc[n] = "queued" /\ attempts[n] = <<>> /\ result[n] = "running"
      /\ Len(attempts[n]) = 0
  BY DEF Init
<1>2. CallFits(n) /\ ResultFits(n)
  BY <1>1 DEF CallFits, ResultFits, Before, After
<1>3. RepairsOnly(n) /\ PassedIsLast(n) /\ UsableKept(n)
  BY <1>1 DEF RepairsOnly, PassedIsLast, NonePassed, UsableKept
<1> QED BY <1>2, <1>3 DEF NodeFits

LEMMA RecoveryStep == RecoveryInv /\ [Next]_vars => RecoveryInv'
<1> SUFFICES ASSUME RecoveryInv, [Next]_vars, NEW o \in Node PROVE NodeFits(o)'
  BY StandbyStep DEF RecoveryInv
<1>1. NodeFits(o) /\ StandbyInv /\ TypeInv /\ SearchShape
  BY DEF RecoveryInv, StandbyInv
<1>2. CASE \E n \in Node : Step(n)
  <2>1. PICK n \in Node : Step(n)
    BY <1>2
  <2>2. Moves(n) /\ OthersStay(n)
    BY <1>1, <2>1, StepMoves
  <2>3. CASE o = n
    BY <1>1, <2>2, <2>3, CallFitsAfterMove, RepairsAfterMove, PassedAfterMove,
       KeptAfterMove, ResultAfterMove DEF NodeFits
  <2>4. CASE o # n
    BY <1>1, <2>2, <2>4, NodeFitsAlone DEF OthersStay
  <2> QED BY <2>3, <2>4
<1>3. CASE UNCHANGED <<where, returned, attempts, search, result>>
  BY <1>1, <1>3, NodeFitsAlone DEF where, search
<1> QED BY <1>2, <1>3 DEF Next, AdvanceStage, Finished, vars

\* No path through the recovery search returns to a tried model, except to
\* repair its truncated answer, once and right away, in any graph.
THEOREM SameModelSafe == Spec => []SameModelOnlyToRepairTruncation
<1>1. RecoveryInv => SameModelOnlyToRepairTruncation
  BY DEF RecoveryInv, NodeFits, RepairsOnly, SameModelOnlyToRepairTruncation
<1> QED BY <1>1, RecoveryInit, RecoveryStep, PTL DEF Spec

\* What a node reports follows from its answers: success exactly when the last
\* one passed, failure only when no usable one was kept or replaced.
THEOREM OutcomeSafe == Spec => []OutcomeFollowsAnswers
<1>1. RecoveryInv => SuccessIsTheLastAnswer
  BY DEF RecoveryInv, NodeFits, PassedIsLast, ResultFits, SuccessIsTheLastAnswer
<1>2. ASSUME RecoveryInv, NEW n \in Node, result[n] = "failed",
             NEW i \in 1 .. Len(attempts[n]), attempts[n][i].usable
      PROVE  Replaced(n, i)
  <2>1. pc[n] = "done" /\ ~best[n]
    BY <1>2 DEF RecoveryInv, NodeFits, ResultFits
  <2> QED BY <1>2, <2>1 DEF RecoveryInv, NodeFits, UsableKept, Unjudged, Before, After
<1>3. RecoveryInv => UsableAnswerLostOnlyByRebind
  BY <1>2 DEF UsableAnswerLostOnlyByRebind, Replaced
<1>4. RecoveryInv => OutcomeFollowsAnswers
  BY <1>1, <1>3 DEF OutcomeFollowsAnswers
<1> QED BY <1>4, RecoveryInit, RecoveryStep, PTL DEF Spec

(***************************************************************************)
(* Claims under an open quality circuit                                    *)
(***************************************************************************)
\* Only a turn of the search that found the circuit closed leads to a claim,
\* only that claim counts, and the circuit never closes again.
LEMMA LateClaimsMove ==
  ASSUME TypeInv, NEW n \in Node, Step(n)
  PROVE  /\ quality_circuit_open => quality_circuit_open'
         /\ \A o \in Node \ {n} : late_claims'[o] = late_claims[o] /\ pc'[o] = pc[o]
         /\ \/ late_claims'[n] = late_claims[n]
               /\ (pc'[n] = "claim" => ~quality_circuit_open')
            \/ /\ pc[n] = "claim" /\ pc'[n] # "claim"
               /\ late_claims'[n] = late_claims[n] + IF quality_circuit_open THEN 1 ELSE 0
               /\ quality_circuit_open' = quality_circuit_open
<1>0. NodeTypes /\ late_claims \in [Node -> Nat] /\ quality_circuit_open \in BOOLEAN
  BY NodeTypesHold DEF TypeInv, TypeOK
<1> USE <1>0 DEF NodeTypes, GoTo, claims, memory
<1>1. CASE StartNode(n) \/ ClearBlock(n) \/ CheckIdentity(n) \/ AccountGate(n)
  BY <1>1 DEF StartNode, BeginCall, ClearBlock, CheckIdentity, AccountGate,
              ReturnNone, AfterCall
<1>2. CASE CheckEndpoint(n) \/ Reserve(n) \/ Deny(n)
  BY <1>2 DEF CheckEndpoint, Reserve, Deny, ReturnNone, AfterCall
<1>3. CASE Respond(n) \/ RespondAndRaise(n)
  BY <1>3 DEF Respond, RespondAndRaise, AddAttempt
<1>4. CASE RecordFeedback(n) \/ MarkBlocked(n) \/ FailInvalidEndpoint(n) \/ RestoreBlock(n)
  BY <1>4 DEF RecordFeedback, MarkBlocked, FailInvalidEndpoint, RestoreBlock, AfterCall
<1>5. CASE ResumePassed(n) \/ ResumeInitial(n) \/ ResumeSameModel(n)
  BY <1>5 DEF ResumePassed, ResumeInitial, ResumeSameModel, Resuming,
              StartSearch, GiveUp, Finish, BeginCall
<1>6. CASE ResumeReplacement(n) \/ ResumeRebind(n)
  BY <1>6 DEF ResumeReplacement, ResumeRebind, Resuming, ContinueSearch, GiveUp,
              Finish, BeginCall
<1>7. CASE StopSearch(n) \/ SelectInitial(n)
  BY <1>7 DEF StopSearch, SelectInitial, Selecting, Replanning, QualityOpen,
              GiveUp, Finish, BeginCall
<1>8. CASE SelectStandby(n)
  <2>1. ~QualityOpen(n)
    BY <1>8 DEF SelectStandby, Promotable
  <2> QED BY <1>8, <2>1 DEF SelectStandby, Selecting, Replanning, QualityOpen
<1>9. CASE Claim(n)
  BY <1>9 DEF Claim, ContinueSearch, AddClaim, Budget!Tick, BeginCall
<1>10. CASE SelectZeroCost(n) \/ StopZeroCost(n)
  BY <1>10 DEF SelectZeroCost, StopZeroCost, Finish, BeginCall
<1>11. CASE ClaimZeroCost(n) \/ ResumeZeroCost(n)
  BY <1>11 DEF ClaimZeroCost, ResumeZeroCost, Resuming, Finish, BeginCall
<1> QED BY <1>1, <1>2, <1>3, <1>4, <1>5, <1>6, <1>7, <1>8, <1>9, <1>10, <1>11
        DEF Step, Call, Recover

ClaimsInv == TypeInv /\ LateClaimsFit

LEMMA ClaimsStep == ClaimsInv /\ [Next]_vars => ClaimsInv'
<1> SUFFICES ASSUME ClaimsInv, [Next]_vars PROVE LateClaimsFit'
  BY TypeStep DEF ClaimsInv
<1>1. CASE \E n \in Node : Step(n)
  <2>1. PICK n \in Node : Step(n)
    BY <1>1
  <2>2. late_claims \in [Node -> Nat]
    BY DEF ClaimsInv, TypeInv, TypeOK
  <2> QED BY <2>1, <2>2, LateClaimsMove DEF ClaimsInv, LateClaimsFit
<1>2. CASE UNCHANGED <<where, claims, memory>>
  BY <1>2 DEF ClaimsInv, LateClaimsFit, where, claims, memory
<1> QED BY <1>1, <1>2 DEF Next, AdvanceStage, Finished, vars

\* Once the quality circuit is open a node promotes at most the one standby it
\* had chosen before, for any number of nodes, reasons and thresholds.
THEOREM LateClaimsSafe == Spec => []LateClaimsBounded
<1>1. Init => ClaimsInv
  BY TypeInit DEF Init, ClaimsInv, LateClaimsFit
<1>2. ClaimsInv => LateClaimsBounded
  BY DEF ClaimsInv, LateClaimsFit, LateClaimsBounded
<1> QED BY <1>1, <1>2, ClaimsStep, PTL DEF Spec
==============================================================================
