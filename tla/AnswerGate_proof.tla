-------------------------- MODULE AnswerGate_proof --------------------------
(* Whatever the task, the contract and the answer: what a passed attempt      *)
(* delivers was judged in the form in which it is delivered; whatever the     *)
(* task and the claim, what counts as a fact of the task is in its text; and  *)
(* whatever the ticket, the format the answer is held to is what it lists.    *)
EXTENDS AnswerGate, ClaimSupport, DeliveryContract, FiniteSetTheorems, TLAPS, WellFoundedInduction

Truncated == <<"truncated-output">>

Judged(a) == QualityViolations(a, FALSE) \cup EvidenceViolations(task, a)

\* What each layer may rely on, by the layer that is next.
Inv ==
  /\ node \in Nodes
  /\ pc # "call" /\ truncated => /\ status # "passed"
                                 /\ category = "OUTPUT_TRUNCATED"
                                 /\ Truncated \in gate_reasons
  /\ pc # "call" /\ ~truncated =>
       status = "passed" \/ category = "QUALITY_GATE_FAILED"
  /\ pc = "answered" => answer \in Answers
  /\ pc \in {"answered", "relabelled"} => /\ ~Unwritten(answer)
                                          /\ Unsupported \notin gate_reasons
                                          /\ status = "passed" => gate_reasons = {}
  /\ pc = "unrepaired" =>
       /\ status = "passed" => ~normalized /\ gate_reasons = {}
       /\ ~normalized => ~Unwritten(answer) /\ Unsupported \notin gate_reasons
       /\ normalized /\ ~truncated => gate_reasons = Judged(answer)
  /\ pc = "undecided" =>
       /\ status = "passed" => ~normalized
       /\ ~normalized => ~Unwritten(answer)
       /\ normalized /\ ~truncated /\ ~node.final => Judged(answer) # {Unsupported}
  /\ pc \in {"accepted", "done"} =>
       /\ status = "passed" =>
            /\ QualityViolations(answer, FALSE) = {}
            /\ EvidenceViolations(task, answer) \subseteq {r \in {Unsupported} : ~node.final}
            /\ ~normalized => EvidenceViolations(task, answer) = {}
       /\ normalized /\ ~truncated /\ ~node.final /\ Judged(answer) = {Unsupported}
            => status = "passed"
  /\ pc = "done" /\ status = "passed" /\ node.final => MissingObligations(task, answer) = {}

(***************************************************************************)
(* The reasons of the quality gate                                         *)
(***************************************************************************)
\* The quality gate knows nothing of evidence.
LEMMA QualityIsNotEvidence ==
  ASSUME NEW a, NEW cut
  PROVE  Unsupported \notin QualityViolations(a, cut)
<1>1. Unsupported \notin ContractViolations(a)
  BY DEF ContractViolations, Unsupported, Flag
<1>. QED BY <1>1 DEF QualityViolations, Unsupported, Flag

\* Being cut is one more reason, and the only difference it makes.
LEMMA CutIsOneReason ==
  ASSUME NEW a
  PROVE  QualityViolations(a, TRUE) = QualityViolations(a, FALSE) \cup {Truncated}
BY DEF QualityViolations, Flag, Truncated

\* Relabelling keeps what is written.
LEMMA RelabelledWritten ==
  ASSUME NEW a \in Answers, ~Unwritten(a)
  PROVE  ~Unwritten(DerivedRelabelled(a))
<1>. DEFINE d == DerivedRelabelled(a)
<1>1. PICK i \in DOMAIN a : ~IsBlank(a[i])
  BY DEF Unwritten, Range
<1>2. a[i] \in Line /\ i \in DOMAIN d
  <2>1. a \in Seq(Line)
    BY AnswersAssumption
  <2>. QED BY <2>1 DEF DerivedRelabelled, Relabelled
<1>3. d[i] = a[i] \/ d[i] = [a[i] EXCEPT !.label = "inference"]
  BY <1>1 DEF DerivedRelabelled, Relabelled
<1>4. d[i].claim = a[i].claim
  BY <1>2, <1>3 DEF Line
<1>. HIDE DEF d
<1>5. d[i] \in Range(d) /\ ~IsBlank(d[i])
  BY <1>1, <1>2, <1>4 DEF IsBlank, Range
<1>. QED BY <1>5 DEF Unwritten, d

LEMMA WrittenAnswers ==
  ASSUME NEW a \in Answers
  PROVE  ~Unwritten(a)
<1>1. PICK i \in DOMAIN a : a[i].claim # NoClaim
  BY AnswersAssumption
<1>2. a[i] \in Range(a)
  BY DEF Range
<1>. QED BY <1>1, <1>2 DEF Unwritten, IsBlank

(***************************************************************************)
(* The steps                                                               *)
(***************************************************************************)
LEMMA StepRespond == Inv /\ Respond => Inv'
<1>. SUFFICES ASSUME Inv, Respond PROVE Inv'
  OBVIOUS
<1>. PICK a \in Answers, cut \in BOOLEAN :
       /\ answer' = a /\ truncated' = cut
       /\ gate_reasons' = QualityViolations(a, cut)
       /\ status' = IF QualityViolations(a, cut) = {}
                    THEN "passed" ELSE "quality_gate_failed"
       /\ category' = CASE cut -> "OUTPUT_TRUNCATED"
                        [] ~cut /\ QualityViolations(a, cut) # {} -> "QUALITY_GATE_FAILED"
                        [] OTHER -> "none"
  BY DEF Respond
<1>1. pc' = "answered" /\ UNCHANGED <<task, node>>
  BY DEF Respond
<1>2. ~Unwritten(a) /\ Unsupported \notin gate_reasons'
  BY WrittenAnswers, QualityIsNotEvidence
<1>3. CASE cut
  <2>1. Truncated \in gate_reasons' /\ status' # "passed" /\ category' = "OUTPUT_TRUNCATED"
    BY <1>3, CutIsOneReason
  <2>. QED BY <1>1, <1>2, <1>3, <2>1 DEF Inv
<1>4. CASE ~cut
  <2>1. status' = "passed" => gate_reasons' = {}
    OBVIOUS
  <2>2. status' = "passed" \/ category' = "QUALITY_GATE_FAILED"
    BY <1>4
  <2>. QED BY <1>1, <1>2, <1>4, <2>1, <2>2 DEF Inv
<1>. QED BY <1>3, <1>4

LEMMA StepRelabel == Inv /\ Relabel => Inv'
<1>. SUFFICES ASSUME Inv, Relabel PROVE Inv'
  OBVIOUS
<1>1. ~Unwritten(answer')
  BY RelabelledWritten, WrittenAnswers DEF Inv, Relabel
<1>. QED BY <1>1 DEF Inv, Relabel

\* When nothing applies the text is the one that came in.
LEMMA NothingApplied ==
  ASSUME NEW t, NEW n, NEW a, ~Applies(t, n, a)
  PROVE  Normalized(t, n, a) = a
BY DEF Applies

LEMMA StepNormalize == Inv /\ Normalize => Inv'
<1>. SUFFICES ASSUME Inv, Normalize PROVE Inv'
  OBVIOUS
<1>. DEFINE violations == QualityViolations(answer', FALSE)
                          \cup EvidenceViolations(task, answer')
            repairable == status = "passed" \/ category = "QUALITY_GATE_FAILED"
<1>1. violations = Judged(answer)'
  BY DEF Judged, Normalize
<1>2. ~normalized' => answer' = answer
  BY NothingApplied DEF Normalize
<1>3. /\ UNCHANGED <<task, node, truncated>> /\ pc = "relabelled"
      /\ ~Unwritten(answer) /\ Unsupported \notin gate_reasons
      /\ status = "passed" => gate_reasons = {}
  BY DEF Normalize, Inv
<1>4. repairable <=> ~truncated
  BY <1>3 DEF Inv
<1>5. CASE /\ ~normalized' \/ ~repairable
           /\ pc' = "unrepaired" /\ UNCHANGED <<status, category, gate_reasons>>
  BY <1>2, <1>3, <1>4, <1>5 DEF Inv
<1>6. CASE /\ normalized' /\ repairable /\ violations # {}
           /\ gate_reasons' = violations /\ Fail(violations) /\ pc' = "unrepaired"
  <2>1. ~truncated' /\ status' # "passed" /\ category' = "QUALITY_GATE_FAILED"
    BY <1>3, <1>4, <1>6 DEF Fail
  <2>. QED BY <1>1, <1>3, <1>6, <2>1 DEF Inv
<1>7. CASE /\ normalized' /\ repairable /\ violations = {} /\ Pass /\ pc' = "accepted"
  BY <1>1, <1>3, <1>4, <1>7 DEF Inv, Pass, Judged
<1>. QED BY <1>5, <1>6, <1>7 DEF Normalize

LEMMA StepDemote == Inv /\ Demote => Inv'
<1>. SUFFICES ASSUME Inv, Demote PROVE Inv'
  OBVIOUS
<1>1. UNCHANGED <<task, node, answer, truncated, normalized>> /\ pc = "unrepaired"
  BY DEF Demote
<1>2. CASE ~node.final /\ gate_reasons = {Unsupported} /\ Pass /\ pc' = "accepted"
  <2>1. normalized /\ ~truncated /\ Judged(answer) = {Unsupported}
    BY <1>1, <1>2 DEF Inv, Truncated, Unsupported
  <2>2. /\ QualityViolations(answer, FALSE) = {}
        /\ EvidenceViolations(task, answer) = {Unsupported}
    BY <2>1, QualityIsNotEvidence DEF Judged
  <2>. QED BY <1>1, <1>2, <2>1, <2>2 DEF Inv, Pass
<1>3. CASE /\ node.final \/ gate_reasons # {Unsupported}
           /\ pc' = "undecided" /\ UNCHANGED <<status, category, gate_reasons>>
  BY <1>1, <1>3 DEF Inv, Judged
<1>. QED BY <1>2, <1>3 DEF Demote

LEMMA StepJudge == Inv /\ Judge => Inv'
<1>. SUFFICES ASSUME Inv, Judge PROVE Inv'
  OBVIOUS
<1>. DEFINE violations == ContractViolations(answer) \cup EvidenceViolations(task, answer)
<1>1. /\ UNCHANGED <<task, node, answer, truncated, normalized>>
      /\ pc = "undecided" /\ pc' = "accepted"
      /\ gate_reasons' = gate_reasons \cup violations /\ Fail(violations)
  BY DEF Judge
<1>2. truncated => /\ status' # "passed" /\ category' = "OUTPUT_TRUNCATED"
                   /\ Truncated \in gate_reasons'
  BY <1>1 DEF Inv, Fail
<1>3. ~truncated => status' = "passed" \/ category' = "QUALITY_GATE_FAILED"
  BY <1>1 DEF Inv, Fail
<1>4. ASSUME status' = "passed"
      PROVE  /\ QualityViolations(answer, FALSE) = {}
             /\ EvidenceViolations(task, answer) = {}
  <2>1. status = "passed" /\ violations = {}
    BY <1>1, <1>4 DEF Fail
  <2>2. ~Unwritten(answer)
    BY <1>1, <2>1 DEF Inv
  <2>. QED BY <2>1, <2>2 DEF QualityViolations, Flag
<1>5. normalized /\ ~truncated /\ ~node.final => Judged(answer) # {Unsupported}
  BY <1>1 DEF Inv
<1>. QED BY <1>1, <1>2, <1>3, <1>4, <1>5 DEF Inv, Judged

LEMMA StepFinalGate == Inv /\ FinalGate => Inv'
<1>. SUFFICES ASSUME Inv, FinalGate PROVE Inv'
  OBVIOUS
<1>. DEFINE missing == IF node.final /\ ~Unwritten(answer)
                       THEN MissingObligations(task, answer) ELSE {}
<1>1. /\ UNCHANGED <<task, node, answer, truncated, normalized>>
      /\ pc = "accepted" /\ pc' = "done"
      /\ gate_reasons' = gate_reasons \cup missing /\ Fail(missing)
  BY DEF FinalGate
<1>2. /\ truncated => /\ status' # "passed" /\ category' = "OUTPUT_TRUNCATED"
                      /\ Truncated \in gate_reasons'
      /\ ~truncated => status' = "passed" \/ category' = "QUALITY_GATE_FAILED"
  BY <1>1 DEF Inv, Fail
<1>3. status' = "passed" => status = "passed" /\ missing = {}
  BY <1>1 DEF Fail
<1>4. status = "passed" => ~Unwritten(answer)
  BY <1>1 DEF Inv, QualityViolations, Flag
<1>5. ~node.final => UNCHANGED status
  BY <1>1 DEF Fail
<1>. QED BY <1>1, <1>2, <1>3, <1>4, <1>5 DEF Inv, Judged

THEOREM Invariance == Spec => []Inv
<1>1. Init => Inv
  BY DEF Init, Inv
<1>2. Inv /\ [Next]_vars => Inv'
  <2>1. Inv /\ UNCHANGED vars => Inv'
    <3>. SUFFICES ASSUME Inv, UNCHANGED vars PROVE Inv'
      OBVIOUS
    <3>1. UNCHANGED <<pc, task, node, truncated, answer, normalized, status,
                      category, gate_reasons>>
      BY DEF vars
    <3>2. Judged(answer)' = Judged(answer)
      BY <3>1 DEF Judged, QualityViolations, EvidenceViolations, ContractViolations
    <3>3. /\ QualityViolations(answer, FALSE)' = QualityViolations(answer, FALSE)
          /\ EvidenceViolations(task, answer)' = EvidenceViolations(task, answer)
          /\ MissingObligations(task, answer)' = MissingObligations(task, answer)
      BY <3>1
    <3>. QED BY <3>1, <3>2, <3>3 DEF Inv
  <2>. QED BY <2>1, StepRespond, StepRelabel, StepNormalize, StepDemote, StepJudge,
              StepFinalGate DEF Next
<1>. QED BY <1>1, <1>2, PTL DEF Spec

(***************************************************************************)
(* The properties                                                          *)
(***************************************************************************)
\* PassedIsDeliverable: a passed attempt's text meets the contract, the
\* evidence rules and the obligations its node is held to.
THEOREM PassedSafe == Spec => []PassedIsDeliverable
<1>1. Inv => PassedIsDeliverable
  BY DEF Inv, PassedIsDeliverable, Over
<1>. QED BY <1>1, Invariance, PTL

(***************************************************************************)
(* Cutting a text                                                          *)
(***************************************************************************)
UnitOver(U, V) ==
  [terms : SUBSET U, quantities : SUBSET V, aside : [terms : SUBSET U, quantities : SUBSET V]]
TextOver(U, V) == Seq([unit : UnitOver(U, V), sep : Separator])
Named(u) == u.terms \cup u.aside.terms
Outside(u) == u.terms \cup u.quantities
FragmentCuts == {"stop", "bar", "comma", "and"}
SentenceCuts == {"stop", "bar"}

LEMMA LeastOf ==
  ASSUME NEW T \in SUBSET Nat, T # {}
  PROVE  \E x \in T : \A y \in T : x <= y
<1>1. \E x \in T : \A y \in T : ~ (<<y, x>> \in OpToRel(<, Nat))
  BY NatLessThanWellFounded, WFMin
<1>2. PICK x \in T : \A y \in T : ~ (<<y, x>> \in OpToRel(<, Nat))
  BY <1>1
<1>3. \A y \in T : ~(y < x)
  BY <1>2 DEF OpToRel
<1>. QED BY <1>3

\* A stretch of a text that no separator cuts lies in one piece of it.
LEMMA SpanAround ==
  ASSUME NEW S, NEW t \in Seq(S), NEW cuts, NEW a \in 1 .. Len(t), NEW b \in a .. Len(t),
         \A i \in a .. b - 1 : t[i].sep \notin cuts
  PROVE  \E s \in Spans(t, cuts) : s[1] <= a /\ b <= s[2]
<1>. DEFINE L == {k \in 1 .. a : \A i \in k .. a - 1 : t[i].sep \notin cuts}
            R == {k \in b .. Len(t) : k = Len(t) \/ t[k].sep \in cuts}
<1>0. Len(t) \in Nat /\ a \in Nat /\ b \in Nat /\ b \in 1 .. Len(t)
  OBVIOUS
<1>1. a \in L /\ L \subseteq Nat
  BY <1>0
<1>2. PICK l \in L : \A y \in L : l <= y
  <2>. HIDE DEF L
  <2>. QED BY <1>1, LeastOf
<1>3. l = 1 \/ t[l - 1].sep \in cuts
  <2>. SUFFICES ASSUME l # 1, t[l - 1].sep \notin cuts PROVE FALSE
    OBVIOUS
  <2>1. l - 1 \in 1 .. a
    BY <1>0, <1>2
  <2>2. \A i \in l - 1 .. a - 1 : t[i].sep \notin cuts
    <3>. TAKE i \in l - 1 .. a - 1
    <3>1. CASE i = l - 1
      BY <3>1
    <3>2. CASE i # l - 1
      <4>1. i \in l .. a - 1
        BY <1>0, <1>2, <3>2
      <4>. QED BY <4>1, <1>2
    <3>. QED BY <3>1, <3>2
  <2>3. l - 1 \in L
    BY <2>1, <2>2
  <2>4. l <= l - 1
    <3>. HIDE DEF L
    <3>. QED BY <1>2, <2>3
  <2>5. l \in 1 .. a
    BY <1>2
  <2>. QED BY <2>4, <2>5, <1>0
<1>4. Len(t) \in R /\ R \subseteq Nat
  BY <1>0
<1>5. PICK r \in R : \A y \in R : r <= y
  <2>. HIDE DEF R
  <2>. QED BY <1>4, LeastOf
<1>6. \A i \in b .. r - 1 : t[i].sep \notin cuts
  <2>. SUFFICES ASSUME NEW i \in b .. r - 1, t[i].sep \in cuts PROVE FALSE
    OBVIOUS
  <2>1. i \in R /\ i < r
    BY <1>0, <1>5
  <2>. QED BY <2>1, <1>0, <1>5
<1>7. \A i \in l .. r - 1 : t[i].sep \notin cuts
  <2>. TAKE i \in l .. r - 1
  <2>0. l \in Nat /\ r \in Nat /\ i \in Nat
    BY <1>0, <1>2, <1>5
  <2>1. i \in l .. a - 1 \/ i \in a .. b - 1 \/ i \in b .. r - 1
    BY <2>0, <1>0
  <2>. QED BY <2>1, <1>2, <1>6
<1>8. <<l, r>> \in Spans(t, cuts)
  BY <1>0, <1>2, <1>3, <1>5, <1>7 DEF Spans
<1>. QED BY <1>8, <1>0, <1>2, <1>5

\* What a piece consists of.
LEMMA PieceIs ==
  ASSUME NEW S, NEW t \in Seq(S), NEW a \in 1 .. Len(t), NEW b \in a .. Len(t)
  PROVE  /\ Piece(t, <<a, b>>) \in Seq(S)
         /\ Len(Piece(t, <<a, b>>)) = b - a + 1
         /\ DOMAIN Piece(t, <<a, b>>) = 1 .. b - a + 1
         /\ \A i \in 1 .. b - a + 1 : Piece(t, <<a, b>>)[i] = t[a + i - 1]
BY DEF Piece

LEMMA SaidInIt ==
  ASSUME NEW t
  PROVE  /\ \A x : x \in Terms(t) <=> \E i \in DOMAIN t : x \in Named(t[i].unit)
         /\ \A x : x \in Quantities(t) <=> \E i \in DOMAIN t : x \in Figures(t[i].unit)
         /\ \A x : x \in Spoken(t) <=> \E i \in DOMAIN t : x \in t[i].unit.terms
         /\ \A x : x \in Normal(t) <=> \E i \in DOMAIN t : x \in Outside(t[i].unit)
         /\ Spoken(t) \subseteq Terms(t)
BY DEF Terms, Quantities, Spoken, Normal, Named, Outside

LEMMA PieceTerms ==
  ASSUME NEW S, NEW t \in Seq(S), NEW a \in 1 .. Len(t), NEW b \in a .. Len(t)
  PROVE  /\ \A x : x \in Terms(Piece(t, <<a, b>>)) <=> \E i \in a .. b : x \in Named(t[i].unit)
         /\ \A x : x \in Quantities(Piece(t, <<a, b>>))
                     <=> \E i \in a .. b : x \in Figures(t[i].unit)
         /\ \A x : x \in Spoken(Piece(t, <<a, b>>)) <=> \E i \in a .. b : x \in t[i].unit.terms
         /\ \A x : x \in Normal(Piece(t, <<a, b>>)) <=> \E i \in a .. b : x \in Outside(t[i].unit)
<1>. DEFINE p == Piece(t, <<a, b>>)
<1>1. /\ DOMAIN p = 1 .. b - a + 1
      /\ \A i \in 1 .. b - a + 1 : p[i] = t[a + i - 1]
  BY DEF Piece
<1>. HIDE DEF p
<1>2. \A i \in DOMAIN p : a + i - 1 \in a .. b /\ p[i] = t[a + i - 1]
  <2>1. \A i \in 1 .. b - a + 1 : a + i - 1 \in a .. b
    OBVIOUS
  <2>. QED BY <1>1, <2>1
<1>3. \A j \in a .. b : j - a + 1 \in DOMAIN p /\ p[j - a + 1] = t[j]
  <2>. TAKE j \in a .. b
  <2>1. j - a + 1 \in 1 .. b - a + 1 /\ j = a + (j - a + 1) - 1
    OBVIOUS
  <2>. QED BY <1>1, <2>1
<1>4. \A x : x \in Terms(p) <=> \E i \in a .. b : x \in Named(t[i].unit)
  <2>1. \A x : x \in Terms(p) <=> \E i \in DOMAIN p : x \in Named(p[i].unit)
    BY SaidInIt
  <2>. QED BY <2>1, <1>2, <1>3, Zenon
<1>5. \A x : x \in Quantities(p) <=> \E i \in a .. b : x \in Figures(t[i].unit)
  <2>1. \A x : x \in Quantities(p) <=> \E i \in DOMAIN p : x \in Figures(p[i].unit)
    BY SaidInIt
  <2>. QED BY <2>1, <1>2, <1>3, Zenon
<1>6. \A x : x \in Spoken(p) <=> \E i \in a .. b : x \in t[i].unit.terms
  <2>1. \A x : x \in Spoken(p) <=> \E i \in DOMAIN p : x \in p[i].unit.terms
    BY SaidInIt
  <2>. QED BY <2>1, <1>2, <1>3, Zenon
<1>7. \A x : x \in Normal(p) <=> \E i \in a .. b : x \in Outside(t[i].unit)
  <2>1. \A x : x \in Normal(p) <=> \E i \in DOMAIN p : x \in Outside(p[i].unit)
    BY SaidInIt
  <2>. QED BY <2>1, <1>2, <1>3, Zenon
<1>. QED BY <1>4, <1>5, <1>6, <1>7 DEF p

\* The span of a piece is a pair of places.
LEMMA SpanIs ==
  ASSUME NEW S, NEW t \in Seq(S), NEW cuts, NEW s \in Spans(t, cuts)
  PROVE  /\ s = <<s[1], s[2]>> /\ s[1] \in 1 .. Len(t) /\ s[2] \in s[1] .. Len(t)
         /\ s[1] = 1 \/ t[s[1] - 1].sep \in cuts
         /\ s[2] = Len(t) \/ t[s[2]].sep \in cuts
         /\ \A i \in s[1] .. s[2] - 1 : t[i].sep \notin cuts
BY DEF Spans

\* A longer piece says no less.
LEMMA LongerSaysMore ==
  ASSUME NEW S, NEW t \in Seq(S), NEW cuts, NEW s \in Spans(t, cuts),
         NEW more, NEW r \in Spans(t, more), r[1] <= s[1], s[2] <= r[2]
  PROVE  /\ Terms(Piece(t, s)) \subseteq Terms(Piece(t, r))
         /\ Quantities(Piece(t, s)) \subseteq Quantities(Piece(t, r))
         /\ Spoken(Piece(t, s)) \subseteq Spoken(Piece(t, r))
<1>1. /\ s = <<s[1], s[2]>> /\ s[1] \in 1 .. Len(t) /\ s[2] \in s[1] .. Len(t)
      /\ r = <<r[1], r[2]>> /\ r[1] \in 1 .. Len(t) /\ r[2] \in r[1] .. Len(t)
  BY SpanIs
<1>2. s[1] .. s[2] \subseteq r[1] .. r[2]
  BY <1>1
<1>3. Terms(Piece(t, s)) \subseteq Terms(Piece(t, r))
  <2>. SUFFICES ASSUME NEW x \in Terms(Piece(t, s)) PROVE x \in Terms(Piece(t, r))
    OBVIOUS
  <2>1. PICK i \in s[1] .. s[2] : x \in Named(t[i].unit)
    BY <1>1, PieceTerms
  <2>. QED BY <2>1, <1>1, <1>2, PieceTerms
<1>4. Quantities(Piece(t, s)) \subseteq Quantities(Piece(t, r))
  <2>. SUFFICES ASSUME NEW x \in Quantities(Piece(t, s)) PROVE x \in Quantities(Piece(t, r))
    OBVIOUS
  <2>1. PICK i \in s[1] .. s[2] : x \in Figures(t[i].unit)
    BY <1>1, PieceTerms
  <2>. QED BY <2>1, <1>1, <1>2, PieceTerms
<1>5. Spoken(Piece(t, s)) \subseteq Spoken(Piece(t, r))
  <2>. SUFFICES ASSUME NEW x \in Spoken(Piece(t, s)) PROVE x \in Spoken(Piece(t, r))
    OBVIOUS
  <2>1. PICK i \in s[1] .. s[2] : x \in t[i].unit.terms
    BY <1>1, PieceTerms
  <2>. QED BY <2>1, <1>1, <1>2, PieceTerms
<1>. QED BY <1>3, <1>4, <1>5

(***************************************************************************)
(* A supported piece                                                       *)
(***************************************************************************)
\* The places of what is compared of a piece are those it names outside brackets.
LEMMA SkeletonKeepsPlaces ==
  ASSUME NEW t
  PROVE  Skeleton(t) \cap Place = Spoken(t) \cap Place
BY TextAssumption DEF Skeleton

\* A piece lies in one clause, and the contexts of what it mentions are its own
\* words and those of that clause.
LEMMA ContextsOfMention ==
  ASSUME NEW S, NEW t \in Seq(S), NEW s \in Spans(t, PhraseCuts), NEW q
  PROVE  \E r \in Spans(t, ClauseCuts) :
           /\ r[1] <= s[1] /\ s[2] <= r[2]
           /\ Contexts(t, [at |-> s, quantity |-> q])
                = {Skeleton(Piece(t, s)), Skeleton(Piece(t, r))} \ {{}}
<1>. DEFINE m == [at |-> s, quantity |-> q]
            r == CHOOSE r \in Spans(t, ClauseCuts) : r[1] <= m.at[1] /\ m.at[2] <= r[2]
<1>1. /\ s[1] \in 1 .. Len(t) /\ s[2] \in s[1] .. Len(t)
      /\ \A i \in s[1] .. s[2] - 1 : t[i].sep \notin ClauseCuts
  BY SpanIs DEF PhraseCuts
<1>2. \E r1 \in Spans(t, ClauseCuts) : r1[1] <= s[1] /\ s[2] <= r1[2]
  BY <1>1, SpanAround
<1>3. r \in Spans(t, ClauseCuts) /\ r[1] <= s[1] /\ s[2] <= r[2]
  BY <1>2
<1>4. Contexts(t, m) = {Skeleton(Piece(t, s)), Skeleton(Piece(t, r))} \ {{}}
  BY DEF Contexts
<1>. QED BY <1>3, <1>4

\* Nothing in a context is outside the clause.
LEMMA ContextInClause ==
  ASSUME NEW S, NEW t \in Seq(S), NEW s \in Spans(t, PhraseCuts), NEW q,
         NEW g \in Contexts(t, [at |-> s, quantity |-> q])
  PROVE  \E p \in Pieces(t, ClauseCuts) :
           /\ Quantities(Piece(t, s)) \subseteq Quantities(p)
           /\ g \subseteq Terms(p)
<1>1. PICK r \in Spans(t, ClauseCuts) :
        /\ r[1] <= s[1] /\ s[2] <= r[2]
        /\ Contexts(t, [at |-> s, quantity |-> q])
             = {Skeleton(Piece(t, s)), Skeleton(Piece(t, r))} \ {{}}
  BY ContextsOfMention
<1>2. /\ Spoken(Piece(t, s)) \subseteq Spoken(Piece(t, r))
      /\ Quantities(Piece(t, s)) \subseteq Quantities(Piece(t, r))
  BY <1>1, LongerSaysMore
<1>3. g \subseteq Terms(Piece(t, r))
  BY <1>1, <1>2, SaidInIt DEF Skeleton
<1>. QED BY <1>2, <1>3 DEF Pieces

\* In a piece that is cut no further a clause is a phrase; so a bound quantity
\* has a mention in the told whose clause names the places of the claim's.
LEMMA BoundAtItsPlaces ==
  ASSUME NEW S, NEW t \in Seq(S), NEW told \in Seq(S),
         \A i \in 1 .. Len(t) - 1 : t[i].sep \notin FragmentCuts,
         QuantityBindingsSupported(t, told),
         NEW c \in Pieces(t, ClauseCuts), NEW q \in Quantities(c)
  PROVE  \E p \in Pieces(told, ClauseCuts) : q \in Quantities(p) /\ Skeleton(c) \cap Place \subseteq Anchors(p)
<1>1. PICK s \in Spans(t, ClauseCuts) : c = Piece(t, s)
  BY DEF Pieces
<1>2. s \in Spans(t, PhraseCuts)
  <2>1. /\ s = <<s[1], s[2]>> /\ s[1] \in 1 .. Len(t) /\ s[2] \in s[1] .. Len(t)
        /\ s[1] = 1 \/ t[s[1] - 1].sep \in ClauseCuts
        /\ s[2] = Len(t) \/ t[s[2]].sep \in ClauseCuts
        /\ \A i \in s[1] .. s[2] - 1 : t[i].sep \notin ClauseCuts
    BY SpanIs
  <2>2. ClauseCuts \subseteq PhraseCuts
    BY DEF PhraseCuts
  <2>3. \A i \in s[1] .. s[2] - 1 : t[i].sep \notin PhraseCuts
    <3>. TAKE i \in s[1] .. s[2] - 1
    <3>1. i \in 1 .. Len(t) - 1
      BY <2>1
    <3>. QED BY <3>1, <2>1 DEF PhraseCuts, FragmentCuts
  <2>4. s \in (1 .. Len(t)) \X (1 .. Len(t)) /\ s[1] <= s[2]
    BY <2>1
  <2>. QED BY <2>1, <2>2, <2>3, <2>4 DEF Spans
<1>. DEFINE m == [at |-> s, quantity |-> q]
<1>3. m \in Mentions(t)
  BY <1>1, <1>2 DEF Mentions
<1>4. PICK n \in Mentions(told) :
        n.quantity = q /\ ContextsMatch(Contexts(t, m), Contexts(told, n))
  BY <1>3 DEF QuantityBindingsSupported
<1>5. PICK u \in Spans(told, PhraseCuts) :
        n = [at |-> u, quantity |-> q] /\ q \in Quantities(Piece(told, u))
  BY <1>4 DEF Mentions
<1>6. PICK d \in Contexts(t, m), g \in Contexts(told, n) : Reordered(d, g)
  BY <1>4 DEF ContextsMatch
<1>7. Skeleton(c) \subseteq d
  <2>1. PICK r \in Spans(t, ClauseCuts) :
          /\ r[1] <= s[1] /\ s[2] <= r[2]
          /\ Contexts(t, m) = {Skeleton(Piece(t, s)), Skeleton(Piece(t, r))} \ {{}}
    BY <1>2, ContextsOfMention
  <2>2. Spoken(Piece(t, s)) \subseteq Spoken(Piece(t, r))
    BY <1>2, <2>1, LongerSaysMore
  <2>3. d = Skeleton(Piece(t, s)) \/ d = Skeleton(Piece(t, r))
    BY <1>6, <2>1
  <2>. QED BY <1>1, <2>2, <2>3 DEF Skeleton
<1>8. Skeleton(c) \cap Place \subseteq g
  BY <1>6, <1>7 DEF Reordered
<1>9. PICK p \in Pieces(told, ClauseCuts) :
        Quantities(Piece(told, u)) \subseteq Quantities(p) /\ g \subseteq Terms(p)
  BY <1>5, <1>6, ContextInClause
<1>. QED BY <1>5, <1>8, <1>9 DEF Anchors

\* A piece without denial is matched with a row of the task that has all of its
\* quantities and places in one sentence.
LEMMA MatchedInOneSentence ==
  ASSUME NEW t, NEW told, FragmentSupported(t, told), Normal(t) # {},
         Polarity(t) = "positive", NEW q \in Quantities(t)
  PROVE  \E p \in Sentences(told) : q \in Quantities(p) /\ Anchors(t) \subseteq Anchors(p)
<1>. DEFINE rows == Holding(Compatible(t, SourceRows(told)), Quantities(t))
<1>2. ~PolarityMatch(t, Compatible(t, SourceRows(told)))
  BY DEF PolarityMatch, Denial
<1>3. NormalizedMatch(t, rows) \/ ReorderSupported(t, rows)
  BY <1>2 DEF FragmentSupported
<1>4. PICK r \in rows : TRUE
  BY <1>3 DEF NormalizedMatch, ReorderSupported
<1>5. /\ r \in SourceRows(told)
      /\ Quantities(t) \subseteq Quantities(r.context)
      /\ Anchors(t) \subseteq Anchors(r.context)
  BY <1>4 DEF Holding, Compatible
<1>6. r.context \in Sentences(told)
  BY <1>5 DEF SourceRows
<1>. QED BY <1>5, <1>6

(***************************************************************************)
(* "On site" and spelling                                                  *)
(***************************************************************************)
CanonicalText ==
  TextOver({Respelled(w) : w \in Word \cup Place \cup Denial \cup {Onsite}},
           {Respelled(q) : q \in Quantity})

LEMMA CanonicalIsText ==
  ASSUME NEW t \in Passage
  PROVE  Canonical(t) \in CanonicalText
<1>. DEFINE U == {Respelled(w) : w \in Word \cup Place \cup Denial \cup {Onsite}}
            V == {Respelled(q) : q \in Quantity}
            E == [unit : UnitOver(U, V), sep : Separator]
<1>1. /\ Len(t) \in Nat /\ DOMAIN t = 1 .. Len(t)
      /\ \A i \in 1 .. Len(t) : t[i] \in [unit : Unit, sep : Separator]
  <2>. DEFINE G == [unit : Unit, sep : Separator]
  <2>1. t \in Seq(G)
    BY DEF Passage
  <2>. HIDE DEF G
  <2>2. Len(t) \in Nat /\ DOMAIN t = 1 .. Len(t) /\ \A i \in 1 .. Len(t) : t[i] \in G
    BY <2>1
  <2>. QED BY <2>2 DEF G
<1>2. \A i \in DOMAIN t : Canonical(t)[i] \in E
  <2>. TAKE i \in DOMAIN t
  <2>. DEFINE u == t[i].unit
              new == [terms |-> {Respelled(w) : w \in u.terms},
                      quantities |-> {Respelled(q) : q \in u.quantities},
                      aside |-> [terms |-> {Respelled(w) : w \in u.aside.terms},
                                 quantities |-> {Respelled(q) : q \in u.aside.quantities}]]
  <2>1. u \in Unit /\ t[i].sep \in Separator
    BY <1>1
  <2>2. new \in UnitOver(U, V)
    <3>. HIDE DEF u
    <3>1. /\ u.terms \subseteq Word \cup Place \cup Denial \cup {Onsite}
          /\ u.aside.terms \subseteq Word \cup Place \cup Denial
          /\ u.quantities \subseteq Quantity /\ u.aside.quantities \subseteq Quantity
      BY <2>1 DEF Unit
    <3>. QED BY <3>1 DEF UnitOver
  <2>3. Canonical(t)[i] = [t[i] EXCEPT !.unit = new]
    BY DEF Canonical
  <2>. HIDE DEF new, u, U, V
  <2>4. Canonical(t)[i] = [unit |-> new, sep |-> t[i].sep]
    BY <1>1, <2>3
  <2>. QED BY <2>1, <2>2, <2>4
<1>. HIDE DEF E
<1>3. Canonical(t) \in [1 .. Len(t) -> E]
  BY <1>1, <1>2 DEF Canonical
<1>4. Canonical(t) \in Seq(E)
  BY <1>1, <1>3
<1>. QED BY <1>4 DEF CanonicalText, TextOver, E

SameButOnsite(t, r) ==
  /\ Len(t) = Len(r)
  /\ \A i \in 1 .. Len(t) :
       /\ t[i].sep = r[i].sep
       /\ Figures(t[i].unit) = Figures(r[i].unit)
       /\ \A w : w # Onsite => (w \in Named(t[i].unit) <=> w \in Named(r[i].unit))
       /\ \A w : w # Onsite => (w \in t[i].unit.terms <=> w \in r[i].unit.terms)
       /\ Outside(t[i].unit) # {} => Outside(r[i].unit) # {}

\* It is only taken from a unit that says something else.
LEMMA ResolvedSame ==
  ASSUME NEW U, NEW V, NEW t \in TextOver(U, V), NEW told
  PROVE  /\ OnsiteResolved(t, told) \in TextOver(U, V)
         /\ SameButOnsite(t, OnsiteResolved(t, told))
<1>. DEFINE E == [unit : UnitOver(U, V), sep : Separator]
            r == OnsiteResolved(t, told)
<1>0. t \in Seq(E)
  BY DEF TextOver
<1>1. Len(t) \in Nat /\ DOMAIN t = 1 .. Len(t) /\ \A i \in 1 .. Len(t) : t[i] \in E
  <2>. HIDE DEF E
  <2>. QED BY <1>0
<1>2. \A i \in DOMAIN t :
        \/ r[i] = t[i]
        \/ /\ OnsiteSources(t[i].unit, told) # {}
           /\ r[i] = [t[i] EXCEPT !.unit.terms = @ \ {Onsite}]
  BY DEF OnsiteResolved
<1>3. \A i \in DOMAIN t :
        /\ r[i] \in E
        /\ r[i].sep = t[i].sep
        /\ Figures(t[i].unit) = Figures(r[i].unit)
        /\ \A w : w # Onsite => (w \in Named(t[i].unit) <=> w \in Named(r[i].unit))
        /\ \A w : w # Onsite => (w \in t[i].unit.terms <=> w \in r[i].unit.terms)
        /\ Outside(t[i].unit) # {} => Outside(r[i].unit) # {}
  <2>. TAKE i \in DOMAIN t
  <2>1. CASE r[i] = t[i]
    BY <1>1, <2>1
  <2>2. CASE /\ OnsiteSources(t[i].unit, told) # {}
             /\ r[i] = [t[i] EXCEPT !.unit.terms = @ \ {Onsite}]
    <3>. DEFINE u == t[i].unit
                v == [terms |-> u.terms \ {Onsite}, quantities |-> u.quantities, aside |-> u.aside]
    <3>1. t[i] \in E /\ u \in UnitOver(U, V)
      BY <1>1
    <3>2. /\ u = [terms |-> u.terms, quantities |-> u.quantities, aside |-> u.aside]
          /\ u.terms \subseteq U
      <4>. HIDE DEF u
      <4>. QED BY <3>1 DEF UnitOver
    <3>3. r[i] = [unit |-> v, sep |-> t[i].sep]
      <4>1. t[i] = [unit |-> [terms |-> u.terms, quantities |-> u.quantities, aside |-> u.aside],
                    sep |-> t[i].sep]
        <5>1. t[i] = [unit |-> u, sep |-> t[i].sep]
          <6>. HIDE DEF u
          <6>1. t[i] = [unit |-> t[i].unit, sep |-> t[i].sep]
            BY <3>1
          <6>. QED BY <6>1 DEF u
        <5>. HIDE DEF u
        <5>. QED BY <3>2, <5>1
      <4>. HIDE DEF u
      <4>. QED BY <2>2, <4>1
    <3>4. v \in UnitOver(U, V)
      <4>. HIDE DEF u
      <4>. QED BY <3>1, <3>2 DEF UnitOver
    <3>5. \E w \in u.terms : w # Onsite
      <4>1. PICK s : Reordered((u.terms \cap Word) \ Marker, s)
        BY <2>2 DEF OnsiteSources
      <4>2. (u.terms \cap Word) \ Marker # {}
        BY <4>1 DEF Reordered
      <4>. QED BY <4>2, TextAssumption
    <3>. HIDE DEF u
    <3>6. v.terms = u.terms \ {Onsite} /\ v.quantities = u.quantities /\ v.aside = u.aside
      OBVIOUS
    <3>. HIDE DEF v
    <3>7. /\ Figures(u) = Figures(v)
          /\ \A w : w # Onsite => (w \in Named(u) <=> w \in Named(v))
          /\ \A w : w # Onsite => (w \in u.terms <=> w \in v.terms)
          /\ Outside(v) # {}
      BY <3>5, <3>6 DEF Figures, Named, Outside
    <3>. HIDE DEF r
    <3>8. r[i].unit = v /\ r[i].sep = t[i].sep /\ r[i] \in E
      BY <3>1, <3>3, <3>4
    <3>. QED BY <3>7, <3>8 DEF u
  <2>. QED BY <1>2, <2>1, <2>2
<1>4. r = [i \in DOMAIN t |-> r[i]]
  BY DEF OnsiteResolved
<1>. HIDE DEF r
<1>5. r \in [1 .. Len(t) -> E]
  <2>. HIDE DEF E
  <2>. QED BY <1>1, <1>3, <1>4
<1>6. r \in Seq(E) /\ Len(r) = Len(t)
  <2>. HIDE DEF E
  <2>. QED BY <1>1, <1>5
<1>7. SameButOnsite(t, r)
  BY <1>1, <1>3, <1>6 DEF SameButOnsite
<1>. QED BY <1>6, <1>7 DEF r, TextOver

LEMMA SameSpans ==
  ASSUME NEW S, NEW t \in Seq(S), NEW r \in Seq(S), SameButOnsite(t, r), NEW cuts,
         NEW s \in Spans(t, cuts)
  PROVE  /\ s \in Spans(r, cuts)
         /\ SameButOnsite(Piece(t, s), Piece(r, s))
<1>1. /\ s = <<s[1], s[2]>> /\ s[1] \in 1 .. Len(t) /\ s[2] \in s[1] .. Len(t)
      /\ s[1] = 1 \/ t[s[1] - 1].sep \in cuts
      /\ s[2] = Len(t) \/ t[s[2]].sep \in cuts
      /\ \A i \in s[1] .. s[2] - 1 : t[i].sep \notin cuts
  BY SpanIs
<1>0. Len(t) = Len(r) /\ Len(t) \in Nat
  BY DEF SameButOnsite
<1>2. /\ Len(t) = Len(r) /\ Len(t) \in Nat
      /\ \A i \in 1 .. Len(t) :
           /\ t[i].sep = r[i].sep
           /\ Figures(t[i].unit) = Figures(r[i].unit)
           /\ \A w : w # Onsite => (w \in Named(t[i].unit) <=> w \in Named(r[i].unit))
           /\ \A w : w # Onsite => (w \in t[i].unit.terms <=> w \in r[i].unit.terms)
           /\ Outside(t[i].unit) # {} => Outside(r[i].unit) # {}
  BY <1>0, Zenon DEF SameButOnsite
<1>3. s \in Spans(r, cuts)
  <2>1. s[1] # 1 => s[1] - 1 \in 1 .. Len(t)
    BY <1>1, <1>2
  <2>2. s[1] = 1 \/ r[s[1] - 1].sep \in cuts
    BY <1>1, <1>2, <2>1
  <2>3. s[2] \in 1 .. Len(t)
    BY <1>1, <1>2
  <2>4. s[2] = Len(r) \/ r[s[2]].sep \in cuts
    BY <1>1, <1>2, <2>3
  <2>5. s[1] .. s[2] - 1 \subseteq 1 .. Len(t)
    BY <1>1, <1>2
  <2>6. \A i \in s[1] .. s[2] - 1 : r[i].sep \notin cuts
    BY <1>1, <1>2, <2>5
  <2>7. s \in (1 .. Len(r)) \X (1 .. Len(r)) /\ s[1] <= s[2]
    BY <1>1, <1>2, <2>3
  <2>. QED BY <2>2, <2>4, <2>6, <2>7 DEF Spans
<1>. DEFINE n == s[2] - s[1] + 1
<1>4. /\ Len(Piece(t, s)) = n /\ \A i \in 1 .. n : Piece(t, s)[i] = t[s[1] + i - 1]
      /\ Len(Piece(r, s)) = n /\ \A i \in 1 .. n : Piece(r, s)[i] = r[s[1] + i - 1]
  <2>. DEFINE a == s[1]
              b == s[2]
  <2>1. a \in 1 .. Len(t) /\ b \in a .. Len(t) /\ Len(t) = Len(r) /\ s = <<a, b>>
    BY <1>1, <1>2
  <2>. HIDE DEF a, b
  <2>2. /\ Len(Piece(t, <<a, b>>)) = b - a + 1
        /\ \A i \in 1 .. b - a + 1 : Piece(t, <<a, b>>)[i] = t[a + i - 1]
    BY <2>1, PieceIs
  <2>3. /\ Len(Piece(r, <<a, b>>)) = b - a + 1
        /\ \A i \in 1 .. b - a + 1 : Piece(r, <<a, b>>)[i] = r[a + i - 1]
    <3>1. a \in 1 .. Len(r) /\ b \in a .. Len(r)
      BY <2>1
    <3>. QED BY <3>1, PieceIs
  <2>. QED BY <2>1, <2>2, <2>3 DEF a, b
<1>5. \A i \in 1 .. n : s[1] + i - 1 \in 1 .. Len(t)
  BY <1>1, <1>2
<1>. HIDE DEF n
<1>6. SameButOnsite(Piece(t, s), Piece(r, s))
  BY <1>2, <1>4, <1>5 DEF SameButOnsite
<1>. QED BY <1>3, <1>6

\* What an answer says of quantities, places and denial is not touched by it.
LEMMA SameSaid ==
  ASSUME NEW S, NEW t \in Seq(S), NEW r \in Seq(S), SameButOnsite(t, r)
  PROVE  /\ Quantities(t) = Quantities(r) /\ Anchors(t) = Anchors(r)
         /\ Polarity(t) = Polarity(r)
         /\ Skeleton(t) \cap Place = Skeleton(r) \cap Place
         /\ Normal(t) # {} => Normal(r) # {}
<1>0. DOMAIN t = 1 .. Len(t) /\ DOMAIN r = 1 .. Len(t)
  BY DEF SameButOnsite
<1>1. /\ DOMAIN t = 1 .. Len(t) /\ DOMAIN r = 1 .. Len(t)
      /\ \A i \in 1 .. Len(t) :
           /\ Figures(t[i].unit) = Figures(r[i].unit)
           /\ \A w : w # Onsite => (w \in Named(t[i].unit) <=> w \in Named(r[i].unit))
           /\ \A w : w # Onsite => (w \in t[i].unit.terms <=> w \in r[i].unit.terms)
           /\ Outside(t[i].unit) # {} => Outside(r[i].unit) # {}
  BY <1>0, Zenon DEF SameButOnsite
<1>2. \A q : q \in Quantities(t) <=> q \in Quantities(r)
  BY <1>1, SaidInIt
<1>3. \A w : w # Onsite => (w \in Terms(t) <=> w \in Terms(r))
  <2>1. \A w : w \in Terms(t) <=> \E i \in DOMAIN t : w \in Named(t[i].unit)
    BY SaidInIt
  <2>2. \A w : w \in Terms(r) <=> \E i \in DOMAIN r : w \in Named(r[i].unit)
    BY SaidInIt
  <2>. QED BY <1>1, <2>1, <2>2
<1>4. Anchors(t) = Anchors(r)
  BY <1>3, TextAssumption DEF Anchors
<1>5. /\ "unknown" \in Terms(t) <=> "unknown" \in Terms(r)
      /\ "absence" \in Terms(t) <=> "absence" \in Terms(r)
      /\ "negative" \in Terms(t) <=> "negative" \in Terms(r)
  BY <1>3 DEF Onsite
<1>6. Terms(t) \cap Denial = Terms(r) \cap Denial
  BY <1>5 DEF Denial
<1>7. Polarity(t) = Polarity(r)
  BY <1>5, <1>6 DEF Polarity
<1>8. \A w : w # Onsite => (w \in Spoken(t) <=> w \in Spoken(r))
  <2>1. \A w : w \in Spoken(t) <=> \E i \in DOMAIN t : w \in t[i].unit.terms
    BY SaidInIt
  <2>2. \A w : w \in Spoken(r) <=> \E i \in DOMAIN r : w \in r[i].unit.terms
    BY SaidInIt
  <2>. QED BY <1>1, <2>1, <2>2
<1>9. Skeleton(t) \cap Place = Skeleton(r) \cap Place
  BY <1>8, SkeletonKeepsPlaces, TextAssumption
<1>10. ASSUME Normal(t) # {} PROVE Normal(r) # {}
  <2>1. PICK x : x \in Normal(t)
    BY <1>10
  <2>2. PICK i \in DOMAIN t : x \in Outside(t[i].unit)
    BY <2>1, SaidInIt
  <2>3. PICK y : y \in Outside(r[i].unit)
    BY <1>1, <2>2
  <2>. QED BY <1>1, <2>2, <2>3, SaidInIt
<1>. QED BY <1>2, <1>4, <1>7, <1>9, <1>10

(***************************************************************************)
(* A claim that is supported                                               *)
(***************************************************************************)
LEMMA FragmentUncut ==
  ASSUME NEW S, NEW t \in Seq(S), NEW s \in Spans(t, FragmentCuts)
  PROVE  /\ Piece(t, s) \in Seq(S)
         /\ \A i \in 1 .. Len(Piece(t, s)) - 1 : Piece(t, s)[i].sep \notin FragmentCuts
<1>1. /\ s = <<s[1], s[2]>> /\ s[1] \in 1 .. Len(t) /\ s[2] \in s[1] .. Len(t)
      /\ \A i \in s[1] .. s[2] - 1 : t[i].sep \notin FragmentCuts
  BY SpanIs
<1>2. /\ Piece(t, s) \in Seq(S) /\ Len(Piece(t, s)) = s[2] - s[1] + 1
      /\ \A i \in 1 .. s[2] - s[1] + 1 : Piece(t, s)[i] = t[s[1] + i - 1]
  BY <1>1, PieceIs
<1>3. \A i \in 1 .. s[2] - s[1] : /\ i \in 1 .. s[2] - s[1] + 1
                                  /\ s[1] + i - 1 \in s[1] .. s[2] - 1
  BY <1>1
<1>4. Len(Piece(t, s)) - 1 = s[2] - s[1]
  BY <1>1, <1>2
<1>. QED BY <1>1, <1>2, <1>3, <1>4

\* The judgement on a piece without its "on site" is one on the piece.
LEMMA SupportedAsWritten ==
  ASSUME NEW U, NEW V, NEW t \in TextOver(U, V), NEW told \in TextOver(U, V),
         \A f \in Fragments(OnsiteResolved(t, told)) : FragmentSupported(f, told),
         NEW f \in Fragments(t), Normal(f) # {}
  PROVE  /\ \A c \in Pieces(f, ClauseCuts) : \A q \in Quantities(c) :
              \E p \in Pieces(told, ClauseCuts) :
                q \in Quantities(p) /\ Skeleton(c) \cap Place \subseteq Anchors(p)
         /\ Polarity(f) = "positive" =>
              \A q \in Quantities(f) :
                \E p \in Sentences(told) : q \in Quantities(p) /\ Anchors(f) \subseteq Anchors(p)
<1>. DEFINE E == [unit : UnitOver(U, V), sep : Separator]
            r == OnsiteResolved(t, told)
<1>1. t \in Seq(E) /\ told \in Seq(E) /\ r \in Seq(E) /\ SameButOnsite(t, r)
  BY ResolvedSame DEF TextOver
<1>. HIDE DEF E
<1>2. PICK s \in Spans(t, FragmentCuts) : f = Piece(t, s)
  BY DEF Fragments, Pieces, FragmentCuts
<1>. DEFINE g == Piece(r, s)
<1>3. s \in Spans(r, FragmentCuts) /\ SameButOnsite(f, g)
  BY <1>1, <1>2, SameSpans
<1>4. f \in Seq(E) /\ g \in Seq(E) /\ \A i \in 1 .. Len(g) - 1 : g[i].sep \notin FragmentCuts
  BY <1>1, <1>2, <1>3, FragmentUncut
<1>5. g \in Fragments(r)
  BY <1>3 DEF Fragments, Pieces, FragmentCuts
<1>6. FragmentSupported(g, told)
  BY <1>5
<1>7. /\ Quantities(f) = Quantities(g) /\ Anchors(f) = Anchors(g) /\ Polarity(f) = Polarity(g)
      /\ Normal(g) # {}
  BY <1>3, <1>4, SameSaid
<1>. HIDE DEF r, g
<1>8. ASSUME NEW c \in Pieces(f, ClauseCuts), NEW q \in Quantities(c)
      PROVE  \E p \in Pieces(told, ClauseCuts) :
               q \in Quantities(p) /\ Skeleton(c) \cap Place \subseteq Anchors(p)
  <2>1. PICK k \in Spans(f, ClauseCuts) : c = Piece(f, k)
    BY DEF Pieces
  <2>. DEFINE d == Piece(g, k)
  <2>2. k \in Spans(g, ClauseCuts) /\ SameButOnsite(c, d)
    BY <1>3, <1>4, <2>1, SameSpans
  <2>3. c \in Seq(E) /\ d \in Seq(E)
    BY <1>4, <2>1, <2>2, SpanIs, PieceIs
  <2>4. Quantities(c) = Quantities(d) /\ Skeleton(c) \cap Place = Skeleton(d) \cap Place
    BY <2>2, <2>3, SameSaid
  <2>5. d \in Pieces(g, ClauseCuts)
    BY <2>2 DEF Pieces
  <2>6. q \in Quantities(g)
    <3>1. PICK i \in DOMAIN d : q \in Figures(d[i].unit)
      BY <1>8, <2>4, SaidInIt
    <3>2. /\ k = <<k[1], k[2]>> /\ k[1] \in 1 .. Len(g) /\ k[2] \in k[1] .. Len(g)
      BY <1>4, <2>2, SpanIs
    <3>3. \E j \in k[1] .. k[2] : q \in Figures(g[j].unit)
      BY <1>4, <1>8, <2>4, <3>2, PieceTerms
    <3>4. k[1] .. k[2] \subseteq DOMAIN g
      BY <1>4, <3>2
    <3>. QED BY <3>3, <3>4, SaidInIt
  <2>7. QuantityBindingsSupported(g, told)
    BY <1>6, <1>7, <2>6 DEF FragmentSupported
  <2>8. q \in Quantities(d)
    BY <1>8, <2>4
  <2>. HIDE DEF d
  <2>9. \E p \in Pieces(told, ClauseCuts) :
          q \in Quantities(p) /\ Skeleton(d) \cap Place \subseteq Anchors(p)
    <3>1. g \in Seq(E) /\ told \in Seq(E)
      BY <1>1, <1>4
    <3>2. \A i \in 1 .. Len(g) - 1 : g[i].sep \notin FragmentCuts
      BY <1>4
    <3>3. \A x \in Pieces(g, ClauseCuts) : \A y \in Quantities(x) :
            \E p \in Pieces(told, ClauseCuts) :
              y \in Quantities(p) /\ Skeleton(x) \cap Place \subseteq Anchors(p)
      BY <3>1, <3>2, <2>7, BoundAtItsPlaces
    <3>. QED BY <3>3, <2>5, <2>8
  <2>. QED BY <2>4, <2>9
<1>9. ASSUME Polarity(f) = "positive", NEW q \in Quantities(f)
      PROVE  \E p \in Sentences(told) : q \in Quantities(p) /\ Anchors(f) \subseteq Anchors(p)
  BY <1>6, <1>7, <1>9, MatchedInOneSentence
<1>. QED BY <1>8, <1>9

(***************************************************************************)
(* A unit quoted word by word                                              *)
(***************************************************************************)
\* A text of one unit is its own only piece.
LEMMA OneUnit ==
  ASSUME NEW S, NEW t \in Seq(S), Len(t) = 1, NEW cuts
  PROVE  Spans(t, cuts) = {<<1, 1>>} /\ Piece(t, <<1, 1>>) = t
<1>1. <<1, 1>> \in Spans(t, cuts)
  BY DEF Spans
<1>2. ASSUME NEW s \in Spans(t, cuts) PROVE s = <<1, 1>>
  BY SpanIs, <1>2
<1>3. Piece(t, <<1, 1>>) = t
  BY DEF Piece
<1>. QED BY <1>1, <1>2, <1>3

\* Each quantity of the unit has the phrase of the quoted one to itself.
LEMMA QuotedIsBound ==
  ASSUME NEW S, NEW t \in Seq(S), NEW told \in Seq(S), Len(t) = 1,
         NEW i \in 1 .. Len(told), told[i].unit = t[1].unit,
         ~Bare(t), Quantities(t) # {}
  PROVE  QuantityBindingsSupported(t, told)
<1>1. Spans(t, PhraseCuts) = {<<1, 1>>} /\ Spans(t, ClauseCuts) = {<<1, 1>>}
      /\ Piece(t, <<1, 1>>) = t
  BY OneUnit
<1>2. Mentions(t) = {[at |-> <<1, 1>>, quantity |-> q] : q \in Quantities(t)}
  <2>1. {{[at |-> s, quantity |-> q] : q \in Quantities(Piece(t, s))} : s \in Spans(t, PhraseCuts)}
          = {{[at |-> <<1, 1>>, quantity |-> q] : q \in Quantities(t)}}
    BY <1>1
  <2>. QED BY <2>1 DEF Mentions
<1>3. PICK ph \in Spans(told, PhraseCuts) : ph[1] <= i /\ i <= ph[2]
  <2>1. i \in i .. Len(told) /\ \A j \in i .. i - 1 : told[j].sep \notin PhraseCuts
    OBVIOUS
  <2>. QED BY <2>1, SpanAround
<1>. DEFINE at(m) == [at |-> ph, quantity |-> m.quantity]
            f == [m \in Mentions(t) |-> at(m)]
<1>4. /\ \A w : w \in Spoken(t) <=> w \in t[1].unit.terms
      /\ \A q : q \in Quantities(t) <=> q \in Figures(t[1].unit)
  BY DEF Spoken, Quantities
<1>5. Spoken(t) \subseteq Spoken(Piece(told, ph)) /\ Quantities(t) \subseteq Quantities(Piece(told, ph))
  <2>1. /\ ph = <<ph[1], ph[2]>> /\ ph[1] \in 1 .. Len(told) /\ ph[2] \in ph[1] .. Len(told)
        /\ i \in ph[1] .. ph[2]
    BY <1>3, SpanIs
  <2>2. /\ \A w : w \in Spoken(Piece(told, ph)) <=> \E j \in ph[1] .. ph[2] : w \in told[j].unit.terms
        /\ \A w : w \in Quantities(Piece(told, ph))
                    <=> \E j \in ph[1] .. ph[2] : w \in Figures(told[j].unit)
    BY <2>1, PieceTerms
  <2>3. \A w : w \in Spoken(t) => w \in Spoken(Piece(told, ph))
    BY <1>4, <2>1, <2>2
  <2>4. \A w : w \in Quantities(t) => w \in Quantities(Piece(told, ph))
    BY <1>4, <2>1, <2>2
  <2>. QED BY <2>3, <2>4
<1>6. ASSUME NEW m \in Mentions(t)
      PROVE  /\ at(m) \in Mentions(told) /\ at(m).quantity = m.quantity
             /\ ContextsMatch(Contexts(t, m), Contexts(told, at(m)))
             /\ m = [at |-> <<1, 1>>, quantity |-> m.quantity]
  <2>1. PICK q \in Quantities(t) : m = [at |-> <<1, 1>>, quantity |-> q]
    BY <1>2, <1>6
  <2>2. m.quantity = q /\ at(m) = [at |-> ph, quantity |-> q]
    BY <2>1
  <2>3. q \in Quantities(Piece(told, ph))
    BY <1>5
  <2>4. at(m) \in Mentions(told)
    BY <1>3, <2>2, <2>3 DEF Mentions
  <2>5. PICK c \in Contexts(t, m) : Telling(c)
    BY <1>6 DEF Bare
  <2>6. c = Skeleton(t) /\ c # {}
    <3>1. \E r \in Spans(t, ClauseCuts) :
            Contexts(t, m) = {Skeleton(Piece(t, <<1, 1>>)), Skeleton(Piece(t, r))} \ {{}}
      BY <1>1, <2>1, ContextsOfMention
    <3>. QED BY <1>1, <2>5, <3>1
  <2>. DEFINE g == Skeleton(Piece(told, ph))
  <2>7. c \subseteq g
    BY <1>5, <2>6 DEF Skeleton
  <2>8. g \in Contexts(told, at(m))
    <3>1. \E r \in Spans(told, ClauseCuts) :
            Contexts(told, at(m)) = {g, Skeleton(Piece(told, r))} \ {{}}
      BY <1>3, <2>2, ContextsOfMention
    <3>. QED BY <2>6, <2>7, <3>1
  <2>9. Reordered(c, g)
    BY <2>6, <2>7 DEF Reordered
  <2>10. ContextsMatch(Contexts(t, m), Contexts(told, at(m)))
    BY <2>5, <2>8, <2>9 DEF ContextsMatch
  <2>. QED BY <2>1, <2>2, <2>4, <2>10
<1>7. Mentions(t) # {}
  BY <1>2
<1>8. f \in [Mentions(t) -> Mentions(told)]
  BY <1>6
<1>9. \A m, n \in Mentions(t) : f[m] = f[n] => m = n
  <2>. SUFFICES ASSUME NEW m \in Mentions(t), NEW n \in Mentions(t), f[m] = f[n] PROVE m = n
    OBVIOUS
  <2>1. at(m).quantity = at(n).quantity
    OBVIOUS
  <2>2. m.quantity = n.quantity
    BY <2>1, <1>6
  <2>. QED BY <2>2, <1>6
<1>10. \A m \in Mentions(t) :
         f[m] \in {n \in Mentions(told) : /\ n.quantity = m.quantity
                                          /\ ContextsMatch(Contexts(t, m), Contexts(told, n))}
  BY <1>6
<1>. HIDE DEF f
<1>. QED BY <1>7, <1>8, <1>9, <1>10 DEF QuantityBindingsSupported

\* Places of a piece and of the text it is cut from.
LEMMA Shifted ==
  ASSUME NEW c \in Int, NEW u \in Int, NEW v \in Int, NEW n \in Int, 1 <= u, v <= n
  PROVE  /\ \A h \in c + u - 1 .. c + v - 1 - 1 :
              /\ h - c + 1 \in u .. v - 1 /\ h - c + 1 \in 1 .. n
              /\ c + (h - c + 1) - 1 = h
         /\ \A h \in 1 .. (c + v - 1) - (c + u - 1) + 1 :
              /\ u + h - 1 \in 1 .. n
              /\ c + (u + h - 1) - 1 = (c + u - 1) + h - 1
OBVIOUS

\* The row of the quoted unit: its piece of the told within its sentence.
LEMMA QuotedRow ==
  ASSUME NEW S, NEW told \in Seq(S), NEW i \in 1 .. Len(told)
  PROVE  \E e \in Spans(told, FragmentCuts), r \in SourceRows(told) :
           /\ i \in e[1] .. e[2]
           /\ r.raw = Piece(told, e)
           /\ Outside(told[i].unit) \subseteq Normal(r.raw)
           /\ Named(told[i].unit) \subseteq Terms(r.context)
           /\ Figures(told[i].unit) \subseteq Quantities(r.context)
<1>1. PICK s \in Spans(told, SentenceCuts) : s[1] <= i /\ i <= s[2]
  <2>1. i \in i .. Len(told) /\ \A j \in i .. i - 1 : told[j].sep \notin SentenceCuts
    OBVIOUS
  <2>. QED BY <2>1, SpanAround
<1>2. PICK s1 \in 1 .. Len(told), s2 \in 1 .. Len(told) :
        /\ s = <<s1, s2>> /\ s2 \in s1 .. Len(told) /\ i \in s1 .. s2
        /\ s1 = 1 \/ told[s1 - 1].sep \in SentenceCuts
        /\ s2 = Len(told) \/ told[s2].sep \in SentenceCuts
  BY <1>1, SpanIs
<1>. DEFINE p == Piece(told, s)
            n == s2 - s1 + 1
            j == i - s1 + 1
<1>3. /\ p \in Seq(S) /\ Len(p) = n /\ DOMAIN p = 1 .. n
      /\ \A k \in 1 .. n : p[k] = told[s1 + k - 1]
  <2>1. p = Piece(told, <<s1, s2>>)
    BY <1>2
  <2>2. /\ Piece(told, <<s1, s2>>) \in Seq(S) /\ Len(Piece(told, <<s1, s2>>)) = s2 - s1 + 1
        /\ DOMAIN Piece(told, <<s1, s2>>) = 1 .. s2 - s1 + 1
        /\ \A h \in 1 .. s2 - s1 + 1 : Piece(told, <<s1, s2>>)[h] = told[s1 + h - 1]
    <3>1. s1 \in 1 .. Len(told) /\ s2 \in s1 .. Len(told) /\ told \in Seq(S)
      BY <1>2
    <3>. HIDE DEF p, n, j
    <3>2. /\ Piece(told, <<s1, s2>>) \in Seq(S)
          /\ Len(Piece(told, <<s1, s2>>)) = s2 - s1 + 1
      BY <3>1, PieceIs
    <3>3. DOMAIN Piece(told, <<s1, s2>>) = 1 .. s2 - s1 + 1
      BY <3>1, PieceIs
    <3>4. \A h \in 1 .. s2 - s1 + 1 : Piece(told, <<s1, s2>>)[h] = told[s1 + h - 1]
      BY <3>1, PieceIs
    <3>. QED BY <3>2, <3>3, <3>4
  <2>. HIDE DEF p
  <2>. QED BY <2>1, <2>2
<1>4. n \in Nat /\ j \in 1 .. n /\ p[j] = told[i]
  <2>1. n \in Nat /\ j \in 1 .. n /\ s1 + j - 1 = i
    BY <1>2
  <2>. QED BY <2>1, <1>3
<1>5. PICK k \in Spans(p, FragmentCuts) : k[1] <= j /\ j <= k[2]
  <2>. HIDE DEF j, p, n
  <2>1. j \in 1 .. Len(p) /\ j \in j .. Len(p) /\ \A h \in j .. j - 1 : p[h].sep \notin FragmentCuts
    BY <1>3, <1>4
  <2>. QED BY <1>3, <2>1, SpanAround
<1>6. PICK k1 \in 1 .. n, k2 \in 1 .. n :
        /\ k = <<k1, k2>> /\ k2 \in k1 .. n /\ k1 <= j /\ j <= k2
        /\ k1 = 1 \/ p[k1 - 1].sep \in FragmentCuts
        /\ k2 = n \/ p[k2].sep \in FragmentCuts
        /\ \A h \in k1 .. k2 - 1 : p[h].sep \notin FragmentCuts
  <2>. HIDE DEF j, p, n
  <2>1. /\ k = <<k[1], k[2]>> /\ k[1] \in 1 .. Len(p) /\ k[2] \in k[1] .. Len(p)
        /\ k[1] = 1 \/ p[k[1] - 1].sep \in FragmentCuts
        /\ k[2] = Len(p) \/ p[k[2]].sep \in FragmentCuts
        /\ \A h \in k[1] .. k[2] - 1 : p[h].sep \notin FragmentCuts
    BY <1>3, <1>5, SpanIs
  <2>. QED BY <1>3, <1>5, <2>1
<1>. DEFINE a == s1 + k1 - 1
            b == s1 + k2 - 1
            e == <<a, b>>
<1>7. a \in 1 .. Len(told) /\ b \in a .. Len(told) /\ i \in a .. b
  BY <1>2, <1>5, <1>6
<1>8. e \in Spans(told, FragmentCuts)
  <2>0. SentenceCuts \subseteq FragmentCuts
    BY DEF SentenceCuts, FragmentCuts
  <2>1. a = 1 \/ told[a - 1].sep \in FragmentCuts
    <3>1. CASE k1 = 1
      BY <1>2, <2>0, <3>1
    <3>2. CASE k1 # 1
      <4>1. k1 - 1 \in 1 .. n /\ s1 + (k1 - 1) - 1 = a - 1
        BY <1>2, <1>6, <3>2
      <4>. QED BY <1>3, <1>6, <3>2, <4>1
    <3>. QED BY <3>1, <3>2
  <2>2. b = Len(told) \/ told[b].sep \in FragmentCuts
    <3>1. CASE k2 = n
      <4>1. b = s2
        BY <1>2, <3>1
      <4>. QED BY <1>2, <2>0, <4>1
    <3>2. CASE k2 # n
      <4>1. k2 \in 1 .. n
        BY <1>6
      <4>. QED BY <1>3, <1>6, <3>2, <4>1
    <3>. QED BY <3>1, <3>2
  <2>3. \A h \in a .. b - 1 : told[h].sep \notin FragmentCuts
    <3>. TAKE h \in a .. b - 1
    <3>0. s1 \in Int /\ k1 \in Int /\ k2 \in Int /\ h \in Int /\ n \in Int
      BY <1>2, <1>4, <1>6
    <3>1. /\ h - s1 + 1 \in k1 .. k2 - 1 /\ h - s1 + 1 \in 1 .. n
          /\ s1 + (h - s1 + 1) - 1 = h
      <4>1. 1 <= k1 /\ k2 <= n
        BY <1>4, <1>6
      <4>. HIDE DEF n
      <4>. QED BY <3>0, <4>1, Shifted
    <3>. QED BY <1>3, <1>6, <3>1
  <2>4. e \in (1 .. Len(told)) \X (1 .. Len(told)) /\ e[1] = a /\ e[2] = b /\ a <= b
    BY <1>7
  <2>. HIDE DEF a, b, e
  <2>. QED BY <2>1, <2>2, <2>3, <2>4 DEF Spans
<1>9. Piece(p, k) = Piece(told, e)
  <2>1. /\ Piece(p, k) \in Seq(S) /\ Len(Piece(p, k)) = k2 - k1 + 1
        /\ \A h \in 1 .. k2 - k1 + 1 : Piece(p, k)[h] = p[k1 + h - 1]
    <3>. HIDE DEF p, n
    <3>1. k1 \in 1 .. Len(p) /\ k2 \in k1 .. Len(p) /\ Piece(p, k) = Piece(p, <<k1, k2>>)
      BY <1>3, <1>6
    <3>2. p \in Seq(S)
      BY <1>3
    <3>3. /\ Piece(p, <<k1, k2>>) \in Seq(S) /\ Len(Piece(p, <<k1, k2>>)) = k2 - k1 + 1
          /\ \A h \in 1 .. k2 - k1 + 1 : Piece(p, <<k1, k2>>)[h] = p[k1 + h - 1]
      BY <3>1, <3>2, PieceIs
    <3>. QED BY <3>1, <3>3
  <2>2. /\ Piece(told, e) \in Seq(S) /\ Len(Piece(told, e)) = b - a + 1
        /\ \A h \in 1 .. b - a + 1 : Piece(told, e)[h] = told[a + h - 1]
    BY <1>7, PieceIs
  <2>3. b - a + 1 = k2 - k1 + 1
    BY <1>2, <1>6
  <2>4. \A h \in 1 .. b - a + 1 : p[k1 + h - 1] = told[a + h - 1]
    <3>. TAKE h \in 1 .. b - a + 1
    <3>0. s1 \in Int /\ k1 \in Int /\ k2 \in Int /\ h \in Int /\ n \in Int
      BY <1>2, <1>4, <1>6
    <3>1. k1 + h - 1 \in 1 .. n /\ s1 + (k1 + h - 1) - 1 = a + h - 1
      <4>1. 1 <= k1 /\ k2 <= n
        BY <1>4, <1>6
      <4>. HIDE DEF n
      <4>. QED BY <3>0, <4>1, Shifted
    <3>. QED BY <1>3, <3>1
  <2>. DEFINE x == Piece(p, k)
              y == Piece(told, e)
              w == b - a + 1
  <2>5. /\ x \in Seq(S) /\ y \in Seq(S) /\ Len(x) = w /\ Len(y) = w
        /\ \A h \in 1 .. w : x[h] = y[h]
    BY <2>1, <2>2, <2>3, <2>4
  <2>. HIDE DEF x, y, w
  <2>6. DOMAIN x = 1 .. w /\ DOMAIN y = 1 .. w
    BY <2>5
  <2>7. x = [h \in 1 .. w |-> x[h]] /\ y = [h \in 1 .. w |-> y[h]]
    BY <2>5, <2>6
  <2>8. x = y
    BY <2>5, <2>7
  <2>. QED BY <2>8 DEF x, y
<1>. DEFINE r == [raw |-> Piece(told, e), context |-> p]
<1>10. r \in SourceRows(told)
  <2>1. p \in Sentences(told)
    BY <1>1 DEF Sentences, SentenceCuts, Pieces
  <2>2. Piece(told, e) \in Fragments(p)
    <3>1. Piece(p, k) \in Fragments(p)
      BY <1>5 DEF Fragments, Pieces, FragmentCuts
    <3>. QED BY <1>9, <3>1
  <2>. HIDE DEF p, e
  <2>. QED BY <2>1, <2>2 DEF SourceRows
<1>11. \A w : w \in Outside(told[i].unit) => w \in Normal(Piece(told, e))
  BY <1>7, PieceTerms
<1>12. /\ \A w : w \in Named(told[i].unit) => w \in Terms(p)
       /\ \A w : w \in Figures(told[i].unit) => w \in Quantities(p)
  BY <1>2, PieceTerms
<1>13. i \in e[1] .. e[2]
  BY <1>7
<1>. HIDE DEF e, p, a, b
<1>. QED BY <1>8, <1>10, <1>11, <1>12, <1>13

LEMMA QuotedIsSupported ==
  ASSUME NEW S, NEW t \in Seq(S), NEW told \in Seq(S), Len(t) = 1,
         NEW i \in 1 .. Len(told), told[i].unit = t[1].unit,
         ~Bare(t), ~Overshadowed(told, i)
  PROVE  FragmentSupported(t, told)
<1>. SUFFICES ASSUME Normal(t) # {} PROVE FragmentSupported(t, told)
  BY DEF FragmentSupported
<1>1. Quantities(t) # {} => QuantityBindingsSupported(t, told)
  BY QuotedIsBound
<1>2. PICK e \in Spans(told, FragmentCuts), r \in SourceRows(told) :
           /\ i \in e[1] .. e[2]
           /\ r.raw = Piece(told, e)
           /\ Outside(told[i].unit) \subseteq Normal(r.raw)
           /\ Named(told[i].unit) \subseteq Terms(r.context)
           /\ Figures(told[i].unit) \subseteq Quantities(r.context)
  BY QuotedRow
<1>3. /\ Terms(t) = Named(told[i].unit) /\ Quantities(t) = Figures(told[i].unit)
      /\ Normal(t) = Outside(told[i].unit)
  BY DEF Terms, Quantities, Normal, Spoken, Named, Outside
<1>4. Terms(<<told[i]>>) = Terms(t)
  BY <1>3 DEF Terms, Named
<1>5. Polarity(t) = Polarity(r.raw)
  <2>1. Polarity(Piece(told, e)) = Polarity(<<told[i]>>)
    BY <1>2 DEF Overshadowed, FragmentCuts
  <2>2. Polarity(<<told[i]>>) = Polarity(t)
    BY <1>4 DEF Polarity
  <2>. QED BY <1>2, <2>1, <2>2
<1>6. /\ Normal(r.raw) # {} /\ Normal(t) \subseteq Normal(r.raw)
      /\ Anchors(t) \subseteq Anchors(r.context)
      /\ Quantities(t) \subseteq Quantities(r.context)
  BY <1>2, <1>3 DEF Anchors
<1>7. r \in Holding(Compatible(t, SourceRows(told)), Quantities(t))
  BY <1>2, <1>5, <1>6 DEF Holding, Compatible
<1>8. NormalizedMatch(t, Holding(Compatible(t, SourceRows(told)), Quantities(t)))
  BY <1>6, <1>7 DEF NormalizedMatch
<1>. QED BY <1>1, <1>8 DEF FragmentSupported

(***************************************************************************)
(* The judgement                                                           *)
(***************************************************************************)
Resolved == OnsiteResolved(Canonical(claim), source)

\* What is not judged yet is all that may be without support.
ClaimInv ==
  /\ matter \in Matters /\ claim \in Claims
  /\ finding \in {"start", "compiled", "unchecked", "blocked", "open", "supported", "unsupported"}
  /\ finding \notin {"start", "compiled", "unchecked"} => source = Canonical(matter.text)
  /\ finding = "blocked" =>
       \E i \in DOMAIN Canonical(claim) : OnsiteBlocks(Canonical(claim)[i].unit, source)
  /\ finding \in {"open", "supported"} =>
       \A t \in Fragments(Resolved) : t \in rest \/ FragmentSupported(t, source)
  /\ finding = "open" => rest \subseteq Fragments(Resolved)
  /\ finding = "supported" => rest = {}
  /\ finding = "unsupported" => \E t \in Fragments(Resolved) : ~FragmentSupported(t, source)

ClaimSpec == ClaimInit /\ [][NextClaim]_claimVars

LEMMA ClaimInvariant == ClaimSpec => []ClaimInv
<1>1. ClaimInit => ClaimInv
  BY DEF ClaimInit, ClaimInv
<1>2. ClaimInv /\ [NextClaim]_claimVars => ClaimInv'
  <2>. SUFFICES ASSUME ClaimInv, [NextClaim]_claimVars PROVE ClaimInv'
    OBVIOUS
  <2>1. CASE Compile
    BY <2>1 DEF Compile, ClaimInv
  <2>2. CASE Canonicalize
    BY <2>2 DEF Canonicalize, ClaimInv, Resolved
  <2>3. CASE JudgeFragment
    <3>1. PICK t \in rest :
            IF FragmentSupported(t, source)
            THEN rest' = rest \ {t} /\ UNCHANGED finding
            ELSE rest' = {} /\ finding' = "unsupported"
      BY <2>3 DEF JudgeFragment
    <3>2. finding = "open" /\ UNCHANGED <<matter, claim, constraints, source>> /\ Resolved' = Resolved
      BY <2>3 DEF JudgeFragment, Resolved
    <3>3. t \in Fragments(Resolved)
      BY <3>2 DEF ClaimInv
    <3>. QED BY <3>1, <3>2, <3>3 DEF ClaimInv
  <2>4. CASE Support
    BY <2>4 DEF Support, ClaimInv, Resolved
  <2>5. CASE UNCHANGED claimVars
    BY <2>5 DEF claimVars, ClaimInv, Resolved
  <2>. QED BY <2>1, <2>2, <2>3, <2>4, <2>5 DEF NextClaim
<1>. QED BY <1>1, <1>2, PTL DEF ClaimSpec

\* The texts compared are canonical ones.
LEMMA TextsOfTheRun ==
  ASSUME ClaimInv, finding \in {"blocked", "supported", "unsupported"}
  PROVE  source \in CanonicalText /\ Canonical(claim) \in CanonicalText
<1>1. claim \in Passage /\ matter.text \in Passage
  BY TextAssumption DEF ClaimInv
<1>. QED BY <1>1, CanonicalIsText DEF ClaimInv

\* What is quoted passes, and the number of what passes stands in the task at
\* the places it is given (v5_task_constraints.py, fact_claim_supported): for
\* every told, claim, vocabulary and measure of likeness.
THEOREM QuotationsHoldSafe == ClaimSpec => []QuotationsHold
<1>1. ClaimInv => NumberAtItsPlace
  <2>. SUFFICES ASSUME ClaimInv, finding = "supported" PROVE NumberAtItsPlace
    BY DEF NumberAtItsPlace
  <2>1. source \in CanonicalText /\ Canonical(claim) \in CanonicalText
    BY TextsOfTheRun
  <2>2. \A f \in Fragments(OnsiteResolved(Canonical(claim), source)) : FragmentSupported(f, source)
    BY DEF ClaimInv, Resolved
  <2>3. \A f \in Fragments(Canonical(claim)) : Normal(f) # {} =>
          /\ \A c \in Pieces(f, ClauseCuts) : \A q \in Quantities(c) :
               \E p \in Pieces(source, ClauseCuts) :
                 q \in Quantities(p) /\ Skeleton(c) \cap Place \subseteq Anchors(p)
          /\ Polarity(f) = "positive" =>
               \A q \in Quantities(f) :
                 \E p \in Sentences(source) : q \in Quantities(p) /\ Anchors(f) \subseteq Anchors(p)
    BY <2>1, <2>2, SupportedAsWritten DEF CanonicalText
  <2>. QED BY <2>3 DEF NumberAtItsPlace, StatedAt, Sentences
<1>2. ClaimInv => QuotationAccepted
  <2>. SUFFICES ASSUME ClaimInv PROVE QuotationAccepted
    OBVIOUS
  <2>. DEFINE t == Canonical(claim)
              E == [unit : UnitOver({Respelled(w) : w \in Word \cup Place \cup Denial \cup {Onsite}},
                                    {Respelled(q) : q \in Quantity}), sep : Separator]
  <2>1. ASSUME finding = "unsupported", Len(claim) = 1, NEW i \in DOMAIN source,
               source[i].unit = t[1].unit, ~Bare(t), ~Overshadowed(source, i),
               OnsiteResolved(t, source) = t
        PROVE  FALSE
    <3>1. source \in Seq(E) /\ t \in Seq(E)
      BY <2>1, TextsOfTheRun DEF CanonicalText, TextOver
    <3>. HIDE DEF E
    <3>2. Len(t) = 1
      <4>1. claim \in Passage
        BY TextAssumption DEF ClaimInv
      <4>2. DOMAIN claim = 1 .. 1
        BY <4>1, <2>1 DEF Passage
      <4>3. DOMAIN t = 1 .. 1
        BY <4>2 DEF Canonical
      <4>. QED BY <3>1, <4>3
    <3>3. PICK f \in Fragments(t) : ~FragmentSupported(f, source)
      BY <2>1 DEF ClaimInv, Resolved
    <3>. HIDE DEF t
    <3>4. f = t
      BY <3>1, <3>2, <3>3, OneUnit DEF Fragments, Pieces
    <3>5. i \in 1 .. Len(source)
      BY <2>1, <3>1
    <3>. QED BY <2>1, <3>1, <3>2, <3>3, <3>4, <3>5, QuotedIsSupported
  <2>2. ASSUME finding = "blocked" PROVE \E p \in Sentences(source) : Anchors(p) # {}
    <3>1. PICK u : OnsiteBlocks(u, source)
      BY <2>2 DEF ClaimInv
    <3>2. PICK r \in OnsiteSources(u, source) : Anchors(r.context) # {}
      BY <3>1 DEF OnsiteBlocks
    <3>3. r.context \in Sentences(source)
      BY <3>2 DEF OnsiteSources, Holding, SourceRows
    <3>. QED BY <3>2, <3>3
  <2>. QED BY <2>1, <2>2 DEF QuotationAccepted
<1>. QED BY <1>1, <1>2, ClaimInvariant, PTL DEF QuotationsHold

(***************************************************************************)
(* Numbers and lists                                                       *)
(***************************************************************************)
\* The least of a set of places is one of them.
LEMMA MinOf ==
  ASSUME NEW T \in SUBSET Nat, T # {}
  PROVE  Min(T) \in T /\ \A y \in T : Min(T) <= y
<1>1. \E x \in T : \A y \in T : x <= y
  BY LeastOf
<1>. QED BY <1>1 DEF Min

\* The greatest of a finite set of integers is one of them.
LEMMA MaxOf ==
  ASSUME NEW N \in Nat, NEW T \in SUBSET (0 .. N), T # {}
  PROVE  Max(T) \in T /\ \A y \in T : Max(T) >= y
<1>. DEFINE U == {N - x : x \in T}
<1>1. U \in SUBSET Nat /\ U # {}
  <2>1. ASSUME NEW x \in T PROVE N - x \in Nat
    <3>1. x \in 0 .. N
      OBVIOUS
    <3>. QED BY <3>1
  <2>. QED BY <2>1
<1>2. PICK u \in U : \A y \in U : u <= y
  <2>. HIDE DEF U
  <2>. QED BY <1>1, LeastOf
<1>3. PICK x \in T : u = N - x
  BY <1>2
<1>4. \A y \in T : x >= y
  <2>. SUFFICES ASSUME NEW y \in T PROVE x >= y
    OBVIOUS
  <2>1. N - y \in U
    OBVIOUS
  <2>2. u <= N - y
    BY <1>2, <2>1
  <2>. QED BY <1>3, <2>2
<1>5. \E z \in T : \A y \in T : z >= y
  BY <1>4
<1>. QED BY <1>5 DEF Max

\* A function of finite domain has finitely many values.
LEMMA RangeIsFinite ==
  ASSUME NEW f, IsFiniteSet(DOMAIN f)
  PROVE  IsFiniteSet(Range(f))
<1>. DEFINE g == [x \in DOMAIN f |-> f[x]]
<1>1. g \in Surjection(DOMAIN f, Range(f))
  BY DEF Surjection, Range
<1>. QED BY <1>1, FS_Surjection DEF ExistsSurjection

(***************************************************************************)
(* Sorting                                                                 *)
(***************************************************************************)
\* R orders S strictly and totally.
Orders(R, S) ==
  /\ \A x \in S : <<x, x>> \notin R
  /\ \A x, y, z \in S : <<x, y>> \in R /\ <<y, z>> \in R => <<x, z>> \in R
  /\ \A x, y \in S : x = y \/ <<x, y>> \in R \/ <<y, x>> \in R

\* q has the members of S in that order.
InOrder(q, S, R) ==
  /\ Cardinality(S) \in Nat /\ DOMAIN q = 1 .. Cardinality(S)
  /\ Range(q) = S
  /\ \A i, j \in DOMAIN q : i < j => <<q[i], q[j]>> \in R

Below(R, S, x) == {y \in S : <<y, x>> \in R}

\* What stands before in an order has fewer members before it.
LEMMA BelowGrows ==
  ASSUME NEW S, IsFiniteSet(S), NEW R, Orders(R, S), NEW x \in S, NEW y \in S, <<x, y>> \in R
  PROVE  /\ Cardinality(Below(R, S, x)) \in Nat
         /\ Cardinality(Below(R, S, y)) \in Nat
         /\ Cardinality(Below(R, S, x)) < Cardinality(Below(R, S, y))
<1>. DEFINE A == Below(R, S, x)
            B == Below(R, S, y)
<1>1. A \subseteq B /\ B \subseteq S
  BY DEF Orders, Below
<1>2. x \in B /\ x \notin A
  BY DEF Orders, Below
<1>3. IsFiniteSet(A) /\ IsFiniteSet(B)
  BY <1>1, FS_Subset
<1>4. Cardinality(A) \in Nat /\ Cardinality(B) \in Nat
  BY <1>3, FS_CardinalityType
<1>5. Cardinality(A) <= Cardinality(B) /\ Cardinality(A) # Cardinality(B)
  BY <1>1, <1>2, <1>3, FS_Subset
<1>. QED BY <1>4, <1>5

\* What is sorted is a list: it is determined by its entries.
LEMMA SortedIsFunction ==
  ASSUME NEW S, NEW R
  PROVE  Sorted(S, R) = [n \in DOMAIN Sorted(S, R) |-> Sorted(S, R)[n]]
<1>. DEFINE F(n) == CHOOSE x \in S : Cardinality({y \in S : <<y, x>> \in R}) = n - 1
            q == [n \in 1 .. Cardinality(S) |-> F(n)]
<1>1. q = [n \in DOMAIN q |-> q[n]]
  <2>. HIDE DEF F
  <2>. QED OBVIOUS
<1>. QED BY <1>1 DEF Sorted

\* What is sorted has every member once, in the order.
LEMMA SortedIs ==
  ASSUME NEW S, IsFiniteSet(S), NEW R, Orders(R, S)
  PROVE  InOrder(Sorted(S, R), S, R)
<1>. DEFINE n == Cardinality(S)
            f == [x \in S |-> Cardinality(Below(R, S, x))]
            q == Sorted(S, R)
<1>1. n \in Nat
  BY FS_CardinalityType
<1>2. ASSUME NEW x \in S PROVE f[x] \in 0 .. n - 1
  <2>1. x \notin Below(R, S, x) /\ Below(R, S, x) \subseteq S
    BY DEF Orders, Below
  <2>2. IsFiniteSet(Below(R, S, x)) /\ Cardinality(Below(R, S, x)) \in Nat
    BY <2>1, FS_Subset, FS_CardinalityType
  <2>3. Cardinality(Below(R, S, x)) <= n /\ Cardinality(Below(R, S, x)) # n
    BY <2>1, FS_Subset
  <2>. QED BY <1>1, <2>2, <2>3
<1>3. ASSUME NEW x \in S, NEW y \in S, <<x, y>> \in R PROVE f[x] < f[y]
  BY <1>3, BelowGrows
<1>4. ASSUME NEW x \in S, NEW y \in S, f[x] = f[y] PROVE x = y
  <2>1. f[x] \in Int
    BY <1>2
  <2>2. <<x, y>> \notin R /\ <<y, x>> \notin R
    <3>. HIDE DEF f
    <3>. QED BY <1>3, <1>4, <2>1
  <2>. QED BY <2>2 DEF Orders
<1>5. f \in Injection(S, 0 .. n - 1)
  BY <1>2, <1>4 DEF Injection, IsInjective
<1>6. IsFiniteSet(0 .. n - 1) /\ Cardinality(0 .. n - 1) = n
  BY <1>1, FS_Interval
<1>7. f \in Surjection(S, 0 .. n - 1)
  <2>. HIDE DEF f, n
  <2>. QED BY <1>5, <1>6, FS_Injection DEF n
<1>8. \A i \in 0 .. n - 1 : \E x \in S : f[x] = i
  BY <1>7 DEF Surjection
<1>9. /\ DOMAIN q = 1 .. n
      /\ \A i \in 1 .. n : q[i] = CHOOSE x \in S : Cardinality(Below(R, S, x)) = i - 1
  BY DEF Sorted, Below
<1>. HIDE DEF q
<1>10. ASSUME NEW i \in 1 .. n PROVE q[i] \in S /\ f[q[i]] = i - 1
  <2>1. i - 1 \in 0 .. n - 1
    BY <1>1
  <2>2. \E x \in S : Cardinality(Below(R, S, x)) = i - 1
    BY <1>8, <2>1
  <2>3. q[i] \in S /\ Cardinality(Below(R, S, q[i])) = i - 1
    BY <1>9, <2>2
  <2>. QED BY <2>3
<1>. HIDE DEF f, n
<1>11. Range(q) = S
  <2>1. ASSUME NEW x \in S PROVE x \in Range(q)
    <3>1. f[x] \in 0 .. n - 1 /\ f[x] + 1 \in 1 .. n /\ (f[x] + 1) - 1 = f[x]
      BY <1>1, <1>2
    <3>2. q[f[x] + 1] \in S /\ f[q[f[x] + 1]] = f[x]
      BY <1>10, <3>1
    <3>3. q[f[x] + 1] = x
      BY <1>4, <3>2
    <3>. QED BY <1>9, <3>1, <3>3 DEF Range
  <2>. QED BY <1>9, <1>10, <2>1 DEF Range
<1>12. ASSUME NEW i \in 1 .. n, NEW j \in 1 .. n, i < j PROVE <<q[i], q[j]>> \in R
  <2>1. q[i] \in S /\ q[j] \in S /\ f[q[i]] = i - 1 /\ f[q[j]] = j - 1
    BY <1>10
  <2>2. q[i] # q[j]
    BY <1>1, <1>12, <2>1
  <2>3. <<q[j], q[i]>> \notin R
    <3>. SUFFICES ASSUME <<q[j], q[i]>> \in R PROVE FALSE
      OBVIOUS
    <3>1. f[q[j]] < f[q[i]]
      BY <1>3, <2>1
    <3>. QED BY <1>1, <1>12, <2>1, <3>1
  <2>. QED BY <2>1, <2>2, <2>3 DEF Orders
<1>. QED BY <1>1, <1>9, <1>11, <1>12 DEF InOrder, n, q


LexBefore(x, y) == x[1] < y[1] \/ (x[1] = y[1] /\ x[2] < y[2])

\* A list of S by the first, then by the second number.
Lexed(q, S) ==
  /\ Cardinality(S) \in Nat /\ DOMAIN q = 1 .. Cardinality(S) /\ Range(q) = S
  /\ \A i, j \in DOMAIN q : i < j => LexBefore(q[i], q[j])

\* Pairs are ordered by the first, then by the second number.
LEMMA LexicalOrders ==
  ASSUME NEW S, \A x \in S : x = <<x[1], x[2]>> /\ x[1] \in Nat /\ x[2] \in Nat,
         NEW R, \A x, y \in S : <<x, y>> \in R <=> LexBefore(x, y)
  PROVE  Orders(R, S)
<1>1. \A x \in S : <<x, x>> \notin R
  BY DEF LexBefore
<1>2. ASSUME NEW x \in S, NEW y \in S, NEW z \in S, <<x, y>> \in R, <<y, z>> \in R
      PROVE  <<x, z>> \in R
  <2>1. LexBefore(x, y) /\ LexBefore(y, z)
    BY <1>2
  <2>2. LexBefore(x, z)
    BY <2>1 DEF LexBefore
  <2>. QED BY <2>2
<1>3. ASSUME NEW x \in S, NEW y \in S PROVE x = y \/ <<x, y>> \in R \/ <<y, x>> \in R
  <2>1. x = y \/ LexBefore(x, y) \/ LexBefore(y, x)
    BY DEF LexBefore
  <2>. QED BY <2>1
<1>. QED BY <1>1, <1>2, <1>3 DEF Orders

\* Pairs of numbers are listed once each, the lesser ones first.
LEMMA LexicalIs ==
  ASSUME NEW S \in SUBSET (Nat \X Nat), IsFiniteSet(S)
  PROVE  Lexed(Lexical(S), S)
<1>. DEFINE R == {p \in S \X S : \/ p[1][1] < p[2][1]
                                 \/ p[1][1] = p[2][1] /\ p[1][2] < p[2][2]}
<1>1. \A x, y \in S : <<x, y>> \in R <=> LexBefore(x, y)
  BY DEF LexBefore
<1>2. \A x \in S : x = <<x[1], x[2]>> /\ x[1] \in Nat /\ x[2] \in Nat
  OBVIOUS
<1>. HIDE DEF R
<1>3. Orders(R, S)
  BY <1>1, <1>2, LexicalOrders
<1>4. InOrder(Sorted(S, R), S, R)
  BY <1>3, SortedIs
<1>5. Lexical(S) = Sorted(S, R)
  BY DEF Lexical, R
<1>6. InOrder(Lexical(S), S, R)
  BY <1>4, <1>5
<1>7. \A i \in DOMAIN Lexical(S) : Lexical(S)[i] \in S
  BY <1>6 DEF InOrder, Range
<1>. QED BY <1>1, <1>6, <1>7 DEF InOrder, Lexed

\* A list of the numbers of S from the least up.
Risen(q, S) ==
  /\ Cardinality(S) \in Nat /\ DOMAIN q = 1 .. Cardinality(S) /\ Range(q) = S
  /\ \A i, j \in DOMAIN q : i < j => q[i] < q[j]

\* Numbers are listed once each, the lesser ones first.
LEMMA AscendingIs ==
  ASSUME NEW S \in SUBSET Nat, IsFiniteSet(S)
  PROVE  Risen(Ascending(S), S)
<1>. DEFINE R == {p \in S \X S : p[1] < p[2]}
<1>1. \A x, y \in S : <<x, y>> \in R <=> x < y
  OBVIOUS
<1>2. Ascending(S) = Sorted(S, R)
  BY DEF Ascending
<1>. HIDE DEF R
<1>3. Orders(R, S)
  BY <1>1 DEF Orders
<1>4. InOrder(Ascending(S), S, R)
  BY <1>2, <1>3, SortedIs
<1>5. \A i \in DOMAIN Ascending(S) : Ascending(S)[i] \in S
  BY <1>4 DEF InOrder, Range
<1>. QED BY <1>1, <1>4, <1>5 DEF InOrder, Risen

\* There is one list of the members of a set in a strict order.
LEMMA OneOrder ==
  ASSUME NEW S, NEW R, Orders(R, S), NEW q, InOrder(q, S, R), NEW e, NEW N \in Nat,
         DOMAIN e = 1 .. N, Range(e) = S, \A i, j \in 1 .. N : i < j => <<e[i], e[j]>> \in R
  PROVE  N = Cardinality(S) /\ \A i \in 1 .. N : q[i] = e[i]
<1>1. ASSUME NEW i \in 1 .. N, NEW j \in 1 .. N, e[i] = e[j] PROVE i = j
  <2>1. e[i] \in S
    BY DEF Range
  <2>2. ~(i < j) /\ ~(j < i)
    BY <1>1, <2>1 DEF Orders
  <2>. QED BY <2>2
<1>2. N = Cardinality(S)
  <2>. DEFINE g == [i \in 1 .. N |-> e[i]]
  <2>1. \A x \in S : \E i \in 1 .. N : e[i] = x
    BY DEF Range
  <2>2. g \in Bijection(1 .. N, S)
    BY <1>1, <2>1 DEF Bijection, Injection, Surjection, IsInjective, Range
  <2>3. IsFiniteSet(1 .. N) /\ Cardinality(1 .. N) = N
    BY FS_Interval
  <2>4. ExistsBijection(1 .. N, S)
    BY <2>2 DEF ExistsBijection
  <2>. HIDE DEF g
  <2>. QED BY <2>3, <2>4, FS_Bijection
<1>. DEFINE T == {i \in 1 .. N : q[i] # e[i]}
<1>3. SUFFICES ASSUME T # {} PROVE FALSE
  BY <1>2
<1>4. PICK n \in T : \A m \in T : n <= m
  <2>1. T \in SUBSET Nat
    OBVIOUS
  <2>. HIDE DEF T
  <2>. QED BY <1>3, <2>1, LeastOf
<1>5. n \in 1 .. N /\ q[n] # e[n] /\ \A m \in 1 .. N : m < n => q[m] = e[m]
  BY <1>4
<1>6. \A i \in 1 .. N : q[i] \in S /\ e[i] \in S
  BY <1>2 DEF InOrder, Range
<1>7. PICK m \in 1 .. N : e[m] = q[n]
  BY <1>5, <1>6 DEF Range
<1>8. PICK k \in 1 .. N : q[k] = e[n]
  BY <1>2, <1>5, <1>6 DEF InOrder, Range
<1>9. \A i, j \in 1 .. N : i < j => <<q[i], q[j]>> \in R
  BY <1>2 DEF InOrder
<1>10. m > n
  <2>1. ~(m < n)
    <3>. SUFFICES ASSUME m < n PROVE FALSE
      OBVIOUS
    <3>1. q[m] = q[n] /\ <<q[m], q[n]>> \in R
      BY <1>5, <1>7, <1>9
    <3>. QED BY <1>6, <3>1 DEF Orders
  <2>2. m # n
    BY <1>5, <1>7
  <2>. QED BY <1>5, <2>1, <2>2
<1>11. k > n
  <2>1. ~(k < n)
    <3>. SUFFICES ASSUME k < n PROVE FALSE
      OBVIOUS
    <3>1. e[k] = e[n]
      BY <1>5, <1>8
    <3>. QED BY <1>1, <1>5, <3>1
  <2>2. k # n
    BY <1>5, <1>8
  <2>. QED BY <1>5, <2>1, <2>2
<1>12. <<e[n], e[m]>> \in R /\ <<q[n], q[k]>> \in R
  BY <1>5, <1>9, <1>10, <1>11
<1>13. <<e[n], q[n]>> \in R /\ <<q[n], e[n]>> \in R
  BY <1>7, <1>8, <1>12
<1>. QED BY <1>5, <1>6, <1>13 DEF Orders

(***************************************************************************)
(* What becomes of a line                                                  *)
(***************************************************************************)
DerivedLine(l) ==
  IF /\ l.label = "fact" /\ l.claim \notin Introducing
     /\ l.claim \in Derived /\ (l.claim \in Normative \/ l.claim \notin Supported)
  THEN [l EXCEPT !.label = "inference"] ELSE l
InferentialLine(l) ==
  IF /\ l.label = "fact" /\ l.claim \notin Introducing
     /\ l.claim \in Inferential /\ l.claim \notin Supported
  THEN [l EXCEPT !.label = "inference"] ELSE l

\* The lines that one line is relabelled and split into.
Made(l) ==
  [k \in DOMAIN Halves(DerivedLine(l)) |-> InferentialLine(Halves(DerivedLine(l))[k])]

\* Relabelling keeps the key and the claim, and takes the fact label only.
LEMMA RelabelledLine ==
  ASSUME NEW l \in Line
  PROVE  /\ DerivedLine(l) \in Line /\ InferentialLine(l) \in Line
         /\ DerivedLine(l).key = l.key /\ InferentialLine(l).key = l.key
         /\ DerivedLine(l).claim = l.claim /\ InferentialLine(l).claim = l.claim
         /\ DerivedLine(l) = l \/ (l.label = "fact" /\ DerivedLine(l).label = "inference")
         /\ InferentialLine(l) = l \/ (l.label = "fact" /\ InferentialLine(l).label = "inference")
BY DEF Line, Label, FactLabel, DerivedLine, InferentialLine

\* A mixed line makes two, any other line one.
LEMMA HalvesAre ==
  ASSUME NEW l \in Line
  PROVE  /\ \/ /\ l.label = "fact" /\ l.claim \in DOMAIN Parts
               /\ DOMAIN Halves(l) = 1 .. 2
               /\ Halves(l)[1].label = "fact" /\ Halves(l)[1].claim = Parts[l.claim][1]
               /\ Halves(l)[2].label = "conclusion" /\ Halves(l)[2].claim = Parts[l.claim][2]
            \/ /\ DOMAIN Halves(l) = 1 .. 1 /\ Halves(l)[1] = l
         /\ \A k \in DOMAIN Halves(l) : Halves(l)[k] \in Line /\ Halves(l)[k].key = l.key
<1>1. CASE l.label = "fact" /\ l.claim \in DOMAIN Parts
  <2>. DEFINE f == [l EXCEPT !.claim = Parts[l.claim][1]]
              c == [l EXCEPT !.label = "conclusion", !.claim = Parts[l.claim][2]]
  <2>1. Parts[l.claim][1] \in Claim /\ Parts[l.claim][2] \in Claim
    BY <1>1, ClaimAssumption
  <2>2. /\ f \in Line /\ f.key = l.key /\ f.label = "fact" /\ f.claim = Parts[l.claim][1]
        /\ c \in Line /\ c.key = l.key /\ c.label = "conclusion" /\ c.claim = Parts[l.claim][2]
    BY <1>1, <2>1 DEF Line, Label
  <2>3. Halves(l) = <<f, c>>
    BY <1>1 DEF Halves
  <2>. HIDE DEF f, c
  <2>. QED BY <1>1, <2>2, <2>3
<1>2. CASE ~(l.label = "fact" /\ l.claim \in DOMAIN Parts)
  <2>1. Halves(l) = <<l>>
    BY <1>2 DEF Halves
  <2>. QED BY <2>1
<1>. QED BY <1>1, <1>2

\* What a line is made into is one of its replacements, and a heading is kept.
LEMMA MadeIs ==
  ASSUME NEW l \in Line, IsHeading(l) => l.label = "none"
  PROVE  /\ 1 \in DOMAIN Made(l) /\ DOMAIN Made(l) \in SUBSET (1 .. 2)
         /\ \A k \in DOMAIN Made(l) : Made(l)[k] \in Line /\ Made(l)[k].key = l.key
         /\ IsHeading(l) => DOMAIN Made(l) = {1} /\ Made(l)[1] = l
         /\ {Body(Made(l)[k]) : k \in DOMAIN Made(l)} \in Replacements(l)
<1>. DEFINE d == DerivedLine(l)
            h == Halves(d)
<1>1. /\ d \in Line /\ d.key = l.key /\ d.claim = l.claim
      /\ d = l \/ (l.label = "fact" /\ d.label = "inference")
  BY RelabelledLine
<1>. HIDE DEF d
<1>2. /\ \/ /\ d.label = "fact" /\ d.claim \in DOMAIN Parts
            /\ DOMAIN h = 1 .. 2
            /\ h[1].label = "fact" /\ h[1].claim = Parts[d.claim][1]
            /\ h[2].label = "conclusion" /\ h[2].claim = Parts[d.claim][2]
         \/ /\ DOMAIN h = 1 .. 1 /\ h[1] = d
      /\ \A k \in DOMAIN h : h[k] \in Line /\ h[k].key = d.key
  BY <1>1, HalvesAre
<1>. HIDE DEF h
<1>3. Made(l) = [k \in DOMAIN h |-> InferentialLine(h[k])]
  BY DEF Made, h, d
<1>4. \A k \in DOMAIN h : /\ Made(l)[k] = InferentialLine(h[k])
                          /\ Made(l)[k] \in Line /\ Made(l)[k].key = l.key
                          /\ Made(l)[k].claim = h[k].claim
                          /\ \/ Made(l)[k] = h[k]
                             \/ h[k].label = "fact" /\ Made(l)[k].label = "inference"
  BY <1>1, <1>2, <1>3, RelabelledLine
<1>5. DOMAIN Made(l) = DOMAIN h
  BY <1>3
<1>6. CASE /\ d.label = "fact" /\ d.claim \in DOMAIN Parts
           /\ DOMAIN h = 1 .. 2
           /\ h[1].label = "fact" /\ h[1].claim = Parts[d.claim][1]
           /\ h[2].label = "conclusion" /\ h[2].claim = Parts[d.claim][2]
  <2>1. d = l /\ l.label = "fact"
    BY <1>1, <1>6
  <2>2. ~IsHeading(l)
    BY <2>1
  <2>3. 1 \in DOMAIN h /\ 2 \in DOMAIN h
    BY <1>6
  <2>4. /\ Body(Made(l)[1]) \in {<<label, Parts[l.claim][1]>> : label \in {"fact", "inference"}}
        /\ Body(Made(l)[2]) = <<"conclusion", Parts[l.claim][2]>>
    BY <1>4, <1>6, <2>1, <2>3 DEF Body
  <2>5. {Body(Made(l)[k]) : k \in DOMAIN Made(l)} = {Body(Made(l)[1]), Body(Made(l)[2])}
    <3>1. DOMAIN Made(l) = {1, 2}
      BY <1>5, <1>6
    <3>. QED BY <3>1
  <2>6. {Body(Made(l)[k]) : k \in DOMAIN Made(l)} \in Replacements(l)
    <3>1. PICK label \in {"fact", "inference"} : Body(Made(l)[1]) = <<label, Parts[l.claim][1]>>
      BY <2>4
    <3>2. {Body(Made(l)[k]) : k \in DOMAIN Made(l)}
            = {<<label, Parts[l.claim][1]>>, <<"conclusion", Parts[l.claim][2]>>}
      BY <2>4, <2>5, <3>1
    <3>3. l.claim \in {l.claim} \cap DOMAIN Parts
      BY <1>6, <2>1
    <3>4. {<<label, Parts[l.claim][1]>>, <<"conclusion", Parts[l.claim][2]>>}
            \in {{<<x, Parts[c][1]>>, <<"conclusion", Parts[c][2]>>} :
                   x \in {"fact", "inference"}, c \in {l.claim} \cap DOMAIN Parts}
      BY <3>3
    <3>. QED BY <2>1, <3>2, <3>4 DEF Replacements
  <2>. QED BY <1>4, <1>5, <1>6, <2>2, <2>3, <2>6
<1>7. CASE DOMAIN h = 1 .. 1 /\ h[1] = d
  <2>1. DOMAIN Made(l) = {1}
    BY <1>5, <1>7
  <2>2. \/ Body(Made(l)[1]) = Body(l)
        \/ l.label = "fact" /\ Body(Made(l)[1]) = <<"inference", l.claim>>
    BY <1>1, <1>4, <1>5, <1>7, <2>1 DEF Body
  <2>3. {Body(Made(l)[k]) : k \in DOMAIN Made(l)} = {Body(Made(l)[1])}
    BY <2>1
  <2>4. {Body(Made(l)[k]) : k \in DOMAIN Made(l)} \in Replacements(l)
    BY <2>2, <2>3 DEF Replacements
  <2>5. IsHeading(l) => Made(l)[1] = l
    BY <1>1, <1>4, <1>5, <1>7, <2>1
  <2>. QED BY <1>4, <1>5, <1>7, <2>1, <2>4, <2>5
<1>. QED BY <1>2, <1>6, <1>7

(***************************************************************************)
(* Where a line comes from                                                 *)
(***************************************************************************)
Unlabelled(a) == \A h \in Heads(a) : a[h].label = "none"

\* Line n of b stems from line o[n] of a: the order is kept and no heading is
\* lost, doubled or respelled.
Tracks(o, a, b) ==
  /\ a \in Seq(Line) /\ b \in Seq(Line)
  /\ o \in [DOMAIN b -> DOMAIN a]
  /\ \A m, n \in DOMAIN b : m < n => o[m] <= o[n]
  /\ \A n \in DOMAIN b : b[n].key = a[o[n]].key
  /\ \A m, n \in DOMAIN b : o[m] = o[n] /\ IsHeading(b[n]) => m = n
  /\ \A h \in Heads(a) : \E n \in DOMAIN b : o[n] = h

\* What a line says it says of the line it stems from.
Restates(o, a, b) ==
  \A n \in DOMAIN b : \E w \in Replacements(a[o[n]]) : Body(b[n]) \in w

\* What line j of a says is said by the lines of b that stem from it.
Said(o, a, b, j) ==
  \E w \in Replacements(a[j]) : \A body \in w : \E n \in DOMAIN b : o[n] = j /\ Body(b[n]) = body

\* A line without a claim is a blank one.
Proper(a) == \A i \in DOMAIN a : IsBlank(a[i]) => a[i] = BlankLine
WrittenLines(a) == {i \in DOMAIN a : ~IsBlank(a[i])}

\* What replaces a line is written where the line is.
LEMMA ReplacedWritten ==
  ASSUME NEW l \in Line, NEW m \in Line, NEW w \in Replacements(l), Body(m) \in w
  PROVE  /\ IsBlank(m) <=> IsBlank(l)
         /\ l = BlankLine /\ m.key = l.key => m = BlankLine
<1>1. CASE Body(m) = Body(l)
  BY <1>1 DEF Body, IsBlank, Line, BlankLine
<1>2. CASE l.label = "fact" /\ Body(m) = <<"inference", l.claim>>
  BY <1>2 DEF Body, IsBlank, BlankLine
<1>3. CASE l.label = "fact" /\ \E c \in {l.claim} \cap DOMAIN Parts :
             \/ Body(m) = <<"conclusion", Parts[c][2]>>
             \/ \E label \in {"fact", "inference"} : Body(m) = <<label, Parts[c][1]>>
  <2>1. m.claim \in Claim \ {NoClaim} /\ l.claim \in DOMAIN Parts
    BY <1>3, ClaimAssumption DEF Body
  <2>. QED BY <1>3, <2>1, ClaimAssumption DEF IsBlank, BlankLine
<1>. QED BY <1>1, <1>2, <1>3 DEF Replacements

LEMMA TracksWritten ==
  ASSUME NEW a, NEW b, NEW o, Tracks(o, a, b), Restates(o, a, b), Proper(a)
  PROVE  /\ Proper(b)
         /\ \A n \in DOMAIN b : n \in WrittenLines(b) <=> o[n] \in WrittenLines(a)
<1>1. /\ a \in Seq(Line) /\ b \in Seq(Line) /\ o \in [DOMAIN b -> DOMAIN a]
      /\ \A n \in DOMAIN b : b[n].key = a[o[n]].key
  BY DEF Tracks
<1>2. ASSUME NEW n \in DOMAIN b
      PROVE  /\ IsBlank(b[n]) <=> IsBlank(a[o[n]])
             /\ IsBlank(b[n]) => b[n] = BlankLine
  <2>1. PICK w \in Replacements(a[o[n]]) : Body(b[n]) \in w
    BY DEF Restates
  <2>2. o[n] \in DOMAIN a /\ a[o[n]] \in Line /\ b[n] \in Line /\ b[n].key = a[o[n]].key
    BY <1>1
  <2>3. /\ IsBlank(b[n]) <=> IsBlank(a[o[n]])
        /\ a[o[n]] = BlankLine => b[n] = BlankLine
    BY <2>1, <2>2, ReplacedWritten
  <2>. QED BY <2>2, <2>3 DEF Proper
<1>. QED BY <1>1, <1>2 DEF Proper, WrittenLines

\* Relabelling and splitting loses no line and changes no heading.
LEMMA PreparedIs ==
  ASSUME NEW a \in Seq(Line), Unlabelled(a), NEW b, b = Prepared(DerivedRelabelled(a))
  PROVE  /\ b \in Seq(Line)
         /\ \E o \in [DOMAIN b -> DOMAIN a] :
              Tracks(o, a, b) /\ Restates(o, a, b) /\ \A j \in DOMAIN a : Said(o, a, b, j)
<1>. DEFINE d == [i \in DOMAIN a |-> DerivedLine(a[i])]
            S == UNION {{<<i, k>> : k \in DOMAIN Made(a[i])} : i \in DOMAIN a}
            q == Lexical(S)
            N == Cardinality(S)
<1>1. DerivedRelabelled(a) = d
  BY DEF DerivedRelabelled, Relabelled, DerivedLine
<1>2. \A i \in DOMAIN a : a[i] \in Line /\ (IsHeading(a[i]) => a[i].label = "none")
  BY DEF Unlabelled, Heads
<1>3. \A i \in DOMAIN a : DOMAIN Halves(d[i]) = DOMAIN Made(a[i])
  BY DEF Made
<1>4. SplitMixed(d) = [n \in DOMAIN q |-> Halves(d[q[n][1]])[q[n][2]]]
  <2>1. DOMAIN d = DOMAIN a
    OBVIOUS
  <2>2. S = UNION {{<<i, k>> : k \in DOMAIN Halves(d[i])} : i \in DOMAIN d}
    <3>. HIDE DEF d
    <3>. QED BY <1>3, <2>1
  <2>. HIDE DEF d, S
  <2>. QED BY <2>2 DEF SplitMixed
<1>5. Len(a) \in Nat /\ DOMAIN a = 1 .. Len(a)
  OBVIOUS
<1>6. S \in SUBSET (Nat \X Nat) /\ IsFiniteSet(S)
  <2>1. ASSUME NEW i \in DOMAIN a, NEW k \in DOMAIN Made(a[i])
        PROVE  <<i, k>> \in (1 .. Len(a)) \X (1 .. 2)
    <3>1. DOMAIN Made(a[i]) \in SUBSET (1 .. 2)
      BY <1>2, MadeIs
    <3>. QED BY <1>5, <3>1
  <2>2. S \in SUBSET ((1 .. Len(a)) \X (1 .. 2))
    BY <2>1
  <2>3. IsFiniteSet(1 .. Len(a))
    BY <1>5, FS_Interval
  <2>4. IsFiniteSet(1 .. 2)
    <3>1. \A m, n \in Int : IsFiniteSet(m .. n)
      BY FS_Interval
    <3>2. 1 \in Int /\ 2 \in Int
      OBVIOUS
    <3>. QED BY <3>1, <3>2, Zenon
  <2>5. IsFiniteSet((1 .. Len(a)) \X (1 .. 2))
    BY <2>3, <2>4, FS_Product
  <2>. HIDE DEF S
  <2>. QED BY <2>2, <2>5, <1>5, FS_Subset
<1>7. Lexed(q, S)
  <2>. HIDE DEF S
  <2>. QED BY <1>6, LexicalIs
<1>8. N \in Nat /\ DOMAIN q = 1 .. N /\ Range(q) = S
  BY <1>7 DEF Lexed
<1>9. \A i, j \in 1 .. N : i < j => LexBefore(q[i], q[j])
  BY <1>7, <1>8 DEF Lexed
<1>. HIDE DEF q, N
<1>10. \A n \in 1 .. N : /\ q[n] = <<q[n][1], q[n][2]>>
                         /\ q[n][1] \in DOMAIN a /\ q[n][2] \in DOMAIN Made(a[q[n][1]])
  <2>. TAKE n \in 1 .. N
  <2>1. q[n] \in S
    BY <1>8 DEF Range
  <2>. QED BY <2>1
<1>11. \A i \in DOMAIN a : \A k \in DOMAIN Made(a[i]) : \E n \in 1 .. N : q[n] = <<i, k>>
  <2>. TAKE i \in DOMAIN a
  <2>. TAKE k \in DOMAIN Made(a[i])
  <2>1. <<i, k>> \in S
    OBVIOUS
  <2>. HIDE DEF S
  <2>. QED BY <1>8, <2>1 DEF Range
<1>12. b = [n \in 1 .. N |-> Made(a[q[n][1]])[q[n][2]]]
  <2>1. b = InferentialRelabelled(SplitMixed(d))
    BY <1>1 DEF Prepared
  <2>2. \A x : InferentialRelabelled(x) = [i \in DOMAIN x |-> InferentialLine(x[i])]
    BY DEF InferentialRelabelled, Relabelled, InferentialLine
  <2>3. b = [n \in 1 .. N |-> InferentialLine(Halves(d[q[n][1]])[q[n][2]])]
    <3>. HIDE DEF d
    <3>. QED BY <1>4, <1>8, <2>1, <2>2
  <2>4. \A n \in 1 .. N : InferentialLine(Halves(d[q[n][1]])[q[n][2]])
                            = Made(a[q[n][1]])[q[n][2]]
    BY <1>10 DEF Made
  <2>. HIDE DEF d
  <2>. QED BY <2>3, <2>4
<1>. HIDE DEF S, d
<1>13. \A n \in 1 .. N : b[n] \in Line /\ b[n].key = a[q[n][1]].key
  <2>. TAKE n \in 1 .. N
  <2>1. q[n][1] \in DOMAIN a /\ q[n][2] \in DOMAIN Made(a[q[n][1]])
    BY <1>10
  <2>2. b[n] = Made(a[q[n][1]])[q[n][2]]
    BY <1>12
  <2>3. \A i \in DOMAIN a : \A k \in DOMAIN Made(a[i]) :
          Made(a[i])[k] \in Line /\ Made(a[i])[k].key = a[i].key
    <3>. TAKE i \in DOMAIN a
    <3>. QED BY <1>2, MadeIs
  <2>. QED BY <2>1, <2>2, <2>3
<1>14. b \in Seq(Line) /\ DOMAIN b = 1 .. N
  BY <1>8, <1>12, <1>13
<1>. DEFINE o == [n \in DOMAIN b |-> q[n][1]]
<1>15. o \in [DOMAIN b -> DOMAIN a] /\ \A n \in DOMAIN b : o[n] = q[n][1]
  BY <1>10, <1>14
<1>. HIDE DEF o
<1>16. Tracks(o, a, b)
  <2>1. \A m, n \in DOMAIN b : m < n => o[m] <= o[n]
    <3>. TAKE m, n \in DOMAIN b
    <3>. HAVE m < n
    <3>1. LexBefore(q[m], q[n])
      BY <1>9, <1>14
    <3>2. q[m][1] \in Nat /\ q[n][1] \in Nat
      BY <1>5, <1>10, <1>14
    <3>. QED BY <1>15, <3>1, <3>2 DEF LexBefore
  <2>2. ASSUME NEW m \in DOMAIN b, NEW n \in DOMAIN b, o[m] = o[n], IsHeading(b[n]) PROVE m = n
    <3>1. IsHeading(a[o[n]])
      BY <1>13, <1>14, <1>15, <2>2 DEF IsHeading
    <3>2. DOMAIN Made(a[o[n]]) = {1}
      BY <1>2, <1>15, <3>1, MadeIs
    <3>3. q[m] = <<o[n], 1>> /\ q[n] = <<o[n], 1>>
      BY <1>10, <1>14, <1>15, <2>2, <3>2
    <3>4. ~LexBefore(q[m], q[n]) /\ ~LexBefore(q[n], q[m])
      <4>1. o[n] \in Nat
        BY <1>5, <1>15
      <4>. QED BY <3>3, <4>1 DEF LexBefore
    <3>5. ~(m < n) /\ ~(n < m)
      BY <1>9, <1>14, <3>4
    <3>. QED BY <1>14, <3>5
  <2>3. \A h \in Heads(a) : \E n \in DOMAIN b : o[n] = h
    <3>. TAKE h \in Heads(a)
    <3>1. h \in DOMAIN a /\ 1 \in DOMAIN Made(a[h])
      BY <1>2, MadeIs DEF Heads
    <3>2. PICK n \in 1 .. N : q[n] = <<h, 1>>
      BY <1>11, <3>1
    <3>. QED BY <1>14, <1>15, <3>2
  <2>. QED BY <1>13, <1>14, <1>15, <2>1, <2>2, <2>3 DEF Tracks
<1>17. Restates(o, a, b)
  <2>. SUFFICES ASSUME NEW n \in DOMAIN b
                PROVE  \E w \in Replacements(a[o[n]]) : Body(b[n]) \in w
    BY DEF Restates
  <2>1. /\ o[n] \in DOMAIN a /\ q[n][2] \in DOMAIN Made(a[o[n]])
        /\ b[n] = Made(a[o[n]])[q[n][2]]
    BY <1>10, <1>12, <1>14, <1>15
  <2>2. {Body(Made(a[o[n]])[k]) : k \in DOMAIN Made(a[o[n]])} \in Replacements(a[o[n]])
    BY <1>2, <2>1, MadeIs
  <2>. QED BY <2>1, <2>2
<1>18. ASSUME NEW j \in DOMAIN a PROVE Said(o, a, b, j)
  <2>1. {Body(Made(a[j])[k]) : k \in DOMAIN Made(a[j])} \in Replacements(a[j])
    BY <1>2, MadeIs
  <2>2. ASSUME NEW k \in DOMAIN Made(a[j])
        PROVE  \E n \in DOMAIN b : o[n] = j /\ Body(b[n]) = Body(Made(a[j])[k])
    <3>1. PICK n \in 1 .. N : q[n] = <<j, k>>
      BY <1>11
    <3>2. o[n] = j /\ b[n] = Made(a[j])[k]
      BY <1>12, <1>14, <1>15, <3>1
    <3>. QED BY <1>14, <3>2
  <2>. QED BY <2>1, <2>2 DEF Said
<1>. QED BY <1>14, <1>15, <1>16, <1>17, <1>18

(***************************************************************************)
(* Headings and the lines under them                                       *)
(***************************************************************************)
\* The heading over a line is the last one up to it.
LEMMA HeadOver ==
  ASSUME NEW a \in Seq(Line), NEW i \in DOMAIN a, {h \in Heads(a) : h <= i} # {}
  PROVE  /\ HeadOf(a, i) \in Heads(a) /\ HeadOf(a, i) <= i
         /\ \A h \in Heads(a) : h <= i => h <= HeadOf(a, i)
<1>. DEFINE T == {h \in Heads(a) : h <= i}
<1>1. Len(a) \in Nat /\ DOMAIN a = 1 .. Len(a) /\ Heads(a) \subseteq DOMAIN a
  BY DEF Heads
<1>2. T \in SUBSET (0 .. Len(a)) /\ \A h \in T : h \in Nat
  BY <1>1
<1>3. HeadOf(a, i) = Max(T)
  BY DEF HeadOf
<1>4. \A h \in Heads(a) : h <= i => h \in T
  OBVIOUS
<1>5. \A h \in T : h \in Heads(a) /\ h <= i
  OBVIOUS
<1>6. T # {}
  OBVIOUS
<1>. HIDE DEF T
<1>7. Max(T) \in T /\ \A y \in T : Max(T) >= y
  BY <1>1, <1>2, <1>6, MaxOf
<1>8. \A y \in T : y <= Max(T)
  BY <1>2, <1>7
<1>. QED BY <1>3, <1>4, <1>5, <1>7, <1>8

\* And a heading with none between it and the line is over it.
LEMMA HeadIs ==
  ASSUME NEW a \in Seq(Line), NEW i \in DOMAIN a, NEW h \in Heads(a), h <= i,
         \A g \in Heads(a) : g <= i => g <= h
  PROVE  HeadOf(a, i) = h /\ HeadingOf(a, i) = a[h].key
<1>1. {g \in Heads(a) : g <= i} # {}
  OBVIOUS
<1>2. /\ HeadOf(a, i) \in Heads(a) /\ HeadOf(a, i) <= i
      /\ \A g \in Heads(a) : g <= i => g <= HeadOf(a, i)
  BY <1>1, HeadOver
<1>3. HeadOf(a, i) <= h /\ h <= HeadOf(a, i)
  BY <1>2
<1>4. \A g \in Heads(a) : g \in Nat
  BY DEF Heads
<1>5. HeadOf(a, i) = h
  BY <1>2, <1>3, <1>4
<1>. QED BY <1>1, <1>5 DEF HeadingOf

\* Lines that stem from others keep the heading they are under.
LEMMA TracksHeading ==
  ASSUME NEW a, NEW b, NEW o, Tracks(o, a, b), NEW n \in DOMAIN b
  PROVE  /\ HeadingOf(b, n) = HeadingOf(a, o[n])
         /\ o[n] \in Headed(a) =>
              n \in Headed(b) /\ HeadOf(b, n) \in Heads(b) /\ o[HeadOf(b, n)] = HeadOf(a, o[n])
<1>1. /\ a \in Seq(Line) /\ b \in Seq(Line) /\ o \in [DOMAIN b -> DOMAIN a]
      /\ \A k, m \in DOMAIN b : k < m => o[k] <= o[m]
      /\ \A m \in DOMAIN b : b[m].key = a[o[m]].key
      /\ \A k, m \in DOMAIN b : o[k] = o[m] /\ IsHeading(b[m]) => k = m
      /\ \A h \in Heads(a) : \E m \in DOMAIN b : o[m] = h
  BY DEF Tracks
<1>2. \A m \in DOMAIN b : m \in Nat /\ o[m] \in DOMAIN a /\ o[m] \in Nat
  BY <1>1
<1>3. \A m \in DOMAIN b : m \in Heads(b) <=> o[m] \in Heads(a)
  BY <1>1, <1>2 DEF Heads, IsHeading
<1>4. Heads(b) \subseteq DOMAIN b /\ Heads(a) \subseteq DOMAIN a
  BY DEF Heads
<1>5. ASSUME NEW h \in Heads(a), h <= o[n]
      PROVE  \E m \in Heads(b) : m <= n /\ o[m] = h
  <2>1. PICK m \in DOMAIN b : o[m] = h
    BY <1>1
  <2>2. m \in Heads(b) /\ IsHeading(b[m])
    BY <1>3, <2>1 DEF Heads
  <2>3. m <= n
    <3>. SUFFICES ASSUME n < m PROVE FALSE
      BY <1>2
    <3>1. o[n] <= o[m]
      BY <1>1
    <3>2. o[n] = o[m]
      BY <1>2, <1>5, <2>1, <3>1
    <3>3. n = m
      BY <1>1, <2>2, <3>2
    <3>. QED BY <1>2, <3>3
  <2>. QED BY <2>1, <2>2, <2>3
<1>6. ASSUME NEW g \in Heads(b), NEW m \in DOMAIN b, g <= m
      PROVE  o[g] \in Heads(a) /\ o[g] <= o[m]
  <2>1. g \in DOMAIN b
    BY <1>4
  <2>2. g = m \/ g < m
    BY <1>2, <1>6, <2>1
  <2>. QED BY <1>1, <1>2, <1>3, <2>1, <2>2
<1>7. CASE {g \in Heads(b) : g <= n} = {}
  <2>1. {h \in Heads(a) : h <= o[n]} = {}
    BY <1>5, <1>7
  <2>2. o[n] \notin Headed(a)
    BY <2>1 DEF Headed
  <2>. QED BY <1>7, <2>1, <2>2 DEF HeadingOf
<1>8. CASE {g \in Heads(b) : g <= n} # {}
  <2>. DEFINE g == HeadOf(b, n)
  <2>1. g \in Heads(b) /\ g <= n /\ \A m \in Heads(b) : m <= n => m <= g
    BY <1>1, <1>8, HeadOver
  <2>2. HeadingOf(b, n) = b[g].key /\ n \in Headed(b)
    BY <1>8, <2>1 DEF HeadingOf, Headed
  <2>. HIDE DEF g
  <2>3. g \in DOMAIN b /\ o[g] \in Heads(a) /\ o[g] <= o[n]
    BY <1>4, <1>6, <2>1
  <2>4. ASSUME NEW h \in Heads(a), h <= o[n] PROVE h <= o[g]
    <3>1. PICK m \in Heads(b) : m <= n /\ o[m] = h
      BY <1>5, <2>4
    <3>. QED BY <1>6, <2>1, <2>3, <3>1
  <2>5. HeadingOf(a, o[n]) = a[o[g]].key /\ HeadOf(a, o[n]) = o[g]
    BY <1>1, <1>2, <2>3, <2>4, HeadIs
  <2>. QED BY <1>1, <2>1, <2>2, <2>3, <2>5 DEF g
<1>. QED BY <1>7, <1>8

\* Stemming from is transitive.
LEMMA TracksOnward ==
  ASSUME NEW a, NEW b, NEW c, NEW o, NEW q, Tracks(o, a, b), Tracks(q, b, c)
  PROVE  Tracks([n \in DOMAIN c |-> o[q[n]]], a, c)
<1>. DEFINE r == [n \in DOMAIN c |-> o[q[n]]]
<1>1. /\ a \in Seq(Line) /\ b \in Seq(Line) /\ o \in [DOMAIN b -> DOMAIN a]
      /\ \A k, m \in DOMAIN b : k < m => o[k] <= o[m]
      /\ \A m \in DOMAIN b : b[m].key = a[o[m]].key
      /\ \A k, m \in DOMAIN b : o[k] = o[m] /\ IsHeading(b[m]) => k = m
      /\ \A h \in Heads(a) : \E m \in DOMAIN b : o[m] = h
  BY DEF Tracks
<1>2. /\ c \in Seq(Line) /\ q \in [DOMAIN c -> DOMAIN b]
      /\ \A k, m \in DOMAIN c : k < m => q[k] <= q[m]
      /\ \A m \in DOMAIN c : c[m].key = b[q[m]].key
      /\ \A k, m \in DOMAIN c : q[k] = q[m] /\ IsHeading(c[m]) => k = m
      /\ \A h \in Heads(b) : \E m \in DOMAIN c : q[m] = h
  BY DEF Tracks
<1>3. \A n \in DOMAIN c : q[n] \in DOMAIN b /\ r[n] = o[q[n]]
  BY <1>2
<1>4. r \in [DOMAIN c -> DOMAIN a]
  BY <1>1, <1>2
<1>. HIDE DEF r
<1>5. \A m \in DOMAIN b : m \in Nat /\ o[m] \in Nat
  BY <1>1
<1>6. ASSUME NEW m \in DOMAIN c, NEW n \in DOMAIN c, m < n PROVE r[m] <= r[n]
  <2>1. q[m] <= q[n] /\ q[m] \in DOMAIN b /\ q[n] \in DOMAIN b
    BY <1>2, <1>6
  <2>2. q[m] = q[n] \/ q[m] < q[n]
    BY <1>5, <2>1
  <2>. QED BY <1>1, <1>3, <1>5, <2>1, <2>2
<1>7. \A n \in DOMAIN c : c[n].key = a[r[n]].key
  BY <1>1, <1>2, <1>3
<1>8. ASSUME NEW m \in DOMAIN c, NEW n \in DOMAIN c, r[m] = r[n], IsHeading(c[n]) PROVE m = n
  <2>1. IsHeading(b[q[n]])
    BY <1>2, <1>8 DEF IsHeading
  <2>2. q[m] = q[n]
    BY <1>1, <1>3, <1>8, <2>1
  <2>. QED BY <1>2, <1>8, <2>2
<1>9. ASSUME NEW h \in Heads(a) PROVE \E n \in DOMAIN c : r[n] = h
  <2>1. PICK m \in DOMAIN b : o[m] = h
    BY <1>1
  <2>2. m \in Heads(b)
    BY <1>1, <2>1 DEF Heads, IsHeading
  <2>3. PICK n \in DOMAIN c : q[n] = m
    BY <1>2, <2>2
  <2>. QED BY <1>3, <2>1, <2>3
<1>10. Tracks(r, a, c)
  BY <1>1, <1>2, <1>4, <1>6, <1>7, <1>8, <1>9 DEF Tracks
<1>. QED BY <1>10 DEF r

(***************************************************************************)
(* Forbidden quantities                                                    *)
(***************************************************************************)
\* b is a without the lines that carry a forbidden quantity.
Sifted(q, t, a, b) ==
  /\ a \in Seq(Line) /\ b \in Seq(Line) /\ q \in [DOMAIN b -> DOMAIN a]
  /\ \A m, n \in DOMAIN b : m < n => q[m] < q[n]
  /\ \A n \in DOMAIN b : b[n] = a[q[n]] /\ ~BadQuantity(t, a[q[n]])
  /\ \A j \in DOMAIN a : ~BadQuantity(t, a[j]) => \E n \in DOMAIN b : q[n] = j

LEMMA FilteredIs ==
  ASSUME NEW t, NEW a \in Seq(Line), NEW b, b = QuantitiesFiltered(t, a)
  PROVE  \E q \in [DOMAIN b -> DOMAIN a] : Sifted(q, t, a, b)
<1>. DEFINE S == {i \in DOMAIN a : ~BadQuantity(t, a[i])}
            q == Ascending(S)
            N == Cardinality(S)
<1>1. b = [n \in DOMAIN q |-> a[q[n]]]
  BY DEF QuantitiesFiltered
<1>2. Len(a) \in Nat /\ DOMAIN a = 1 .. Len(a)
  OBVIOUS
<1>3. S \in SUBSET (1 .. Len(a))
  BY <1>2
<1>4. \A j : j \in S <=> j \in DOMAIN a /\ ~BadQuantity(t, a[j])
  OBVIOUS
<1>. HIDE DEF S
<1>5. S \in SUBSET Nat /\ IsFiniteSet(S)
  <2>1. IsFiniteSet(1 .. Len(a))
    BY <1>2, FS_Interval
  <2>2. IsFiniteSet(S)
    BY <1>3, <2>1, FS_Subset
  <2>3. S \in SUBSET Nat
    BY <1>2, <1>3
  <2>. QED BY <2>2, <2>3
<1>6. Risen(q, S)
  BY <1>5, AscendingIs
<1>7. /\ N \in Nat /\ DOMAIN q = 1 .. N /\ Range(q) = S
      /\ \A i, j \in 1 .. N : i < j => q[i] < q[j]
  BY <1>6 DEF Risen
<1>. HIDE DEF q, N
<1>8. \A n \in 1 .. N : q[n] \in S
  BY <1>7 DEF Range
<1>9. \A n \in 1 .. N : q[n] \in DOMAIN a /\ ~BadQuantity(t, a[q[n]])
  BY <1>4, <1>8
<1>10. DOMAIN b = 1 .. N /\ \A n \in 1 .. N : b[n] = a[q[n]]
  BY <1>1, <1>7
<1>11. b \in Seq(Line)
  <2>1. \A n \in 1 .. N : a[q[n]] \in Line
    BY <1>9
  <2>2. b = [n \in 1 .. N |-> a[q[n]]]
    BY <1>1, <1>7
  <2>. QED BY <1>7, <2>1, <2>2
<1>. DEFINE r == [n \in DOMAIN b |-> q[n]]
<1>12. r \in [DOMAIN b -> DOMAIN a] /\ \A n \in 1 .. N : r[n] = q[n]
  BY <1>9, <1>10
<1>13. ASSUME NEW j \in DOMAIN a, ~BadQuantity(t, a[j]) PROVE \E n \in DOMAIN b : r[n] = j
  <2>1. j \in Range(q)
    BY <1>4, <1>7, <1>13
  <2>2. PICK n \in 1 .. N : q[n] = j
    BY <1>7, <2>1 DEF Range
  <2>. QED BY <1>10, <1>12, <2>2
<1>. HIDE DEF r
<1>14. Sifted(r, t, a, b)
  BY <1>7, <1>9, <1>10, <1>11, <1>12, <1>13 DEF Sifted
<1>. QED BY <1>12, <1>14

\* If no heading carries one, all headings stay.
LEMMA SiftedTracks ==
  ASSUME NEW t, NEW a, NEW b, NEW q, Sifted(q, t, a, b),
         \A h \in Heads(a) : ~BadQuantity(t, a[h])
  PROVE  Tracks(q, a, b)
<1>1. /\ a \in Seq(Line) /\ b \in Seq(Line) /\ q \in [DOMAIN b -> DOMAIN a]
      /\ \A m, n \in DOMAIN b : m < n => q[m] < q[n]
      /\ \A n \in DOMAIN b : b[n] = a[q[n]]
      /\ \A j \in DOMAIN a : ~BadQuantity(t, a[j]) => \E n \in DOMAIN b : q[n] = j
  BY DEF Sifted
<1>2. \A n \in DOMAIN b : n \in Nat /\ q[n] \in Nat
  BY <1>1
<1>3. \A m, n \in DOMAIN b : m < n => q[m] <= q[n]
  BY <1>1, <1>2
<1>4. \A m, n \in DOMAIN b : q[m] = q[n] => m = n
  BY <1>1, <1>2
<1>5. \A h \in Heads(a) : \E n \in DOMAIN b : q[n] = h
  BY <1>1 DEF Heads
<1>. QED BY <1>1, <1>3, <1>4, <1>5 DEF Tracks

\* Repair never makes a quantity forbidden.
LEMMA BadWeakens ==
  ASSUME NEW t, NEW l \in Line, NEW m \in Line, NEW w \in Replacements(l), Body(m) \in w,
         BadQuantity(t, m)
  PROVE  BadQuantity(t, l)
<1>1. t.strict /\ m.claim \in Introducing
  BY DEF BadQuantity
<1>2. CASE Body(m) = Body(l)
  BY <1>2 DEF BadQuantity, Body
<1>3. CASE l.label = "fact" /\ Body(m) = <<"inference", l.claim>>
  BY <1>1, <1>3 DEF BadQuantity, Body, FactLabel
<1>4. CASE \E c \in {l.claim} \cap DOMAIN Parts :
             \/ Body(m) = <<"conclusion", Parts[c][2]>>
             \/ \E label \in {"fact", "inference"} : Body(m) = <<label, Parts[c][1]>>
  <2>1. m.claim \notin Introducing
    BY <1>4, ClaimAssumption DEF Body
  <2>. QED BY <1>1, <2>1
<1>. QED BY <1>2, <1>3, <1>4 DEF Replacements

(***************************************************************************)
(* The sections in the order of the contract                               *)
(***************************************************************************)
\* A placement gives each heading a required one of its own.
LEMMA PlacedOnce ==
  ASSUME NEW a \in Seq(Line), NEW p \in Placements(a)
  PROVE  /\ p \in [Heads(a) -> DOMAIN Required]
         /\ \A g, h \in Heads(a) : p[g] = p[h] => g = h
         /\ \A h \in Heads(a) : \/ Required[p[h]] = a[h].key
                                \/ <<a[h].key, Required[p[h]]>> \in OneEdit
<1>. DEFINE free(h) == DOMAIN Required \ {p[g] : g \in {f \in Heads(a) : f < h}}
<1>1. p \in [Heads(a) -> DOMAIN Required]
  BY DEF Placements
<1>2. ASSUME NEW h \in Heads(a)
      PROVE  /\ p[h] \in free(h)
             /\ \/ Required[p[h]] = a[h].key
                \/ <<a[h].key, Required[p[h]]>> \in OneEdit
  <2>1. \/ p[h] \in {r \in free(h) : Required[r] = a[h].key}
        \/ p[h] \in {r \in free(h) : <<a[h].key, Required[r]>> \in OneEdit}
    BY DEF Placements
  <2>. QED BY <2>1
<1>3. \A g, h \in Heads(a) : g < h => p[g] # p[h]
  BY <1>2
<1>4. \A h \in Heads(a) : h \in Nat
  BY DEF Heads
<1>5. ASSUME NEW g \in Heads(a), NEW h \in Heads(a), p[g] = p[h] PROVE g = h
  <2>1. ~(g < h) /\ ~(h < g)
    BY <1>3, <1>5
  <2>. QED BY <1>4, <2>1
<1>. QED BY <1>1, <1>2, <1>5

\* Headings that are the required ones take their own places.
LEMMA ExactPlaces ==
  ASSUME NEW a \in Seq(Line), NEW p \in Placements(a), Keys(a) = Range(Required),
         \A g, h \in Heads(a) : a[g].key = a[h].key => g = h,
         NEW h \in Heads(a)
  PROVE  Required[p[h]] = a[h].key
<1>. DEFINE T == {g \in Heads(a) : Required[p[g]] # a[g].key}
<1>1. SUFFICES ASSUME T # {} PROVE FALSE
  OBVIOUS
<1>2. PICK g \in T : \A f \in T : g <= f
  <2>1. T \in SUBSET Nat
    BY DEF Heads
  <2>. HIDE DEF T
  <2>. QED BY <1>1, <2>1, LeastOf
<1>3. g \in Heads(a) /\ g \in Nat /\ Required[p[g]] # a[g].key
  BY DEF Heads
<1>4. \A f \in Heads(a) : f < g => Required[p[f]] = a[f].key
  <2>. TAKE f \in Heads(a)
  <2>1. f \in Nat
    BY DEF Heads
  <2>. QED BY <1>2, <1>3, <2>1
<1>. DEFINE free == DOMAIN Required \ {p[f] : f \in {e \in Heads(a) : e < g}}
            exact == {r \in free : Required[r] = a[g].key}
<1>5. exact = {}
  <2>1. \/ p[g] \in exact
        \/ exact = {}
    BY <1>3 DEF Placements
  <2>. QED BY <1>3, <2>1
<1>6. PICK r \in DOMAIN Required : Required[r] = a[g].key
  <2>1. a[g].key \in Keys(a)
    BY <1>3 DEF Keys
  <2>. QED BY <2>1 DEF Range
<1>7. PICK f \in Heads(a) : f < g /\ p[f] = r
  BY <1>5, <1>6
<1>8. a[f].key = a[g].key
  BY <1>4, <1>6, <1>7
<1>9. f = g
  BY <1>3, <1>8
<1>. QED BY <1>3, <1>7, <1>9

\* Line n of c is line o[n] of a, and stands under the required heading that
\* its own one was given; blank lines come and go.
Resettled(o, p, a, c) ==
  /\ a \in Seq(Line) /\ c \in Seq(Line) /\ Proper(c) /\ o \in [WrittenLines(c) -> WrittenLines(a)]
  /\ \A i \in WrittenLines(a) : \E n \in WrittenLines(c) : o[n] = i
  /\ \A n \in WrittenLines(c) : /\ Body(c[n]) = Body(a[o[n]])
                                /\ IsHeading(c[n]) <=> IsHeading(a[o[n]])
                                /\ HeadingOf(a, o[n]) = a[HeadOf(a, o[n])].key
                                /\ HeadOf(a, o[n]) \in Heads(a)
                                /\ HeadingOf(c, n) = Required[p[HeadOf(a, o[n])]]

LEMMA ArrangedIs ==
  ASSUME NEW a \in Seq(Line), Proper(a), ~Preamble(a), NEW p \in [Heads(a) -> DOMAIN Required],
         \A g, h \in Heads(a) : p[g] = p[h] => g = h,
         NEW c, c = Arranged(a, p)
  PROVE  \E o \in [WrittenLines(c) -> WrittenLines(a)] : Resettled(o, p, a, c)
<1>. DEFINE ends == {i \in Headed(a) : ~IsBlank(a[i]) /\ (i = Len(a) \/ i + 1 \in Heads(a))}
            S == {<<p[HeadOf(a, i)], i>> : i \in Headed(a)}
                   \cup {<<p[HeadOf(a, i)], Len(a) + 1>> : i \in ends}
            q == Lexical(S)
            N == Cardinality(S)
            line(i) == CASE i \notin DOMAIN a -> BlankLine
                         [] i \in Heads(a) -> [a[i] EXCEPT !.key = Required[p[i]]]
                         [] OTHER -> a[i]
<1>1. c = [n \in DOMAIN q |-> line(q[n][2])]
  BY DEF Arranged
<1>2. /\ Len(a) \in Nat /\ DOMAIN a = 1 .. Len(a)
      /\ \A i \in DOMAIN a : i \in Nat /\ 1 <= i /\ a[i] \in Line
      /\ Headed(a) \subseteq DOMAIN a /\ ends \subseteq Headed(a) /\ Len(a) + 1 \notin DOMAIN a
  BY DEF Headed
<1>3. \A i \in Headed(a) : {h \in Heads(a) : h <= i} # {}
  BY DEF Headed
<1>4. \A i \in Headed(a) : /\ HeadOf(a, i) \in Heads(a) /\ HeadOf(a, i) <= i
                           /\ \A h \in Heads(a) : h <= i => h <= HeadOf(a, i)
  BY <1>2, <1>3, HeadOver
<1>5. \A h \in Heads(a) : /\ h \in DOMAIN a /\ h \in Nat /\ h \in Headed(a)
                          /\ p[h] \in DOMAIN Required /\ p[h] \in Nat
  BY <1>2, RequiredAssumption DEF Heads, Headed
<1>6. \A h \in Heads(a) : HeadOf(a, h) = h
  BY <1>4, <1>5, HeadIs
<1>7. S \in SUBSET (Nat \X (1 .. Len(a) + 1))
  <2>1. \A i \in Headed(a) : p[HeadOf(a, i)] \in Nat /\ i \in 1 .. Len(a) + 1
    BY <1>2, <1>4, <1>5
  <2>2. Len(a) + 1 \in 1 .. Len(a) + 1
    BY <1>2
  <2>. HIDE DEF ends
  <2>. QED BY <1>2, <2>1, <2>2
<1>8. IsFiniteSet(S)
  <2>. DEFINE f == [i \in Headed(a) |-> <<p[HeadOf(a, i)], i>>]
              e == [i \in ends |-> <<p[HeadOf(a, i)], Len(a) + 1>>]
  <2>1. S = Range(f) \cup Range(e)
    BY DEF Range
  <2>2. IsFiniteSet(DOMAIN f) /\ IsFiniteSet(DOMAIN e)
    <3>1. IsFiniteSet(DOMAIN a)
      BY <1>2, FS_Interval
    <3>2. Headed(a) \in SUBSET DOMAIN a /\ ends \in SUBSET DOMAIN a
      BY <1>2
    <3>. HIDE DEF ends
    <3>. QED BY <3>1, <3>2, FS_Subset
  <2>. HIDE DEF f, e, S
  <2>3. IsFiniteSet(Range(f)) /\ IsFiniteSet(Range(e))
    BY <2>2, RangeIsFinite
  <2>. QED BY <2>1, <2>3, FS_Union
<1>9. \A x \in S : \/ x[2] \in Headed(a) /\ x = <<p[HeadOf(a, x[2])], x[2]>>
                   \/ x[2] \notin DOMAIN a
  <2>. HIDE DEF ends
  <2>. QED BY <1>2
<1>10. \A i \in Headed(a) : <<p[HeadOf(a, i)], i>> \in S
  OBVIOUS
<1>. HIDE DEF S, ends
<1>11. Lexed(q, S)
  <2>1. S \in SUBSET (Nat \X Nat)
    BY <1>2, <1>7
  <2>. QED BY <1>8, <2>1, LexicalIs
<1>12. /\ N \in Nat /\ DOMAIN q = 1 .. N /\ Range(q) = S
       /\ \A i, j \in 1 .. N : i < j => LexBefore(q[i], q[j])
  BY <1>11 DEF Lexed
<1>. HIDE DEF q, N
<1>13. \A n \in 1 .. N : q[n] \in S
  BY <1>12 DEF Range
<1>14. \A x \in S : \E n \in 1 .. N : q[n] = x
  BY <1>12 DEF Range
<1>15. \A i \in DOMAIN a : /\ line(i) \in Line /\ Body(line(i)) = Body(a[i])
                           /\ IsHeading(line(i)) <=> IsHeading(a[i])
                           /\ i \in Heads(a) => line(i).key = Required[p[i]]
                           /\ i \notin Heads(a) => line(i) = a[i]
  <2>. TAKE i \in DOMAIN a
  <2>1. CASE i \notin Heads(a)
    BY <1>2, <2>1
  <2>2. CASE i \in Heads(a)
    <3>1. IsHeading(a[i])
      BY <2>2 DEF Heads
    <3>2. Required[p[i]] \in Heading /\ Required[p[i]] # NoHeading
      BY <1>5, <2>2, RequiredAssumption
    <3>3. line(i) = [a[i] EXCEPT !.key = Required[p[i]]]
      BY <2>2
    <3>4. /\ line(i) \in Line /\ line(i).key = Required[p[i]]
          /\ line(i).label = a[i].label /\ line(i).claim = a[i].claim
      BY <1>2, <3>2, <3>3 DEF Line
    <3>. HIDE DEF line
    <3>. QED BY <2>2, <3>1, <3>2, <3>4 DEF IsHeading, Body
  <2>. QED BY <2>1, <2>2
<1>16. \A i : i \notin DOMAIN a => line(i) = BlankLine
  <2>. TAKE i
  <2>. HAVE i \notin DOMAIN a
  <2>1. i \notin Heads(a)
    BY DEF Heads
  <2>. QED BY <2>1
<1>. HIDE DEF line
<1>17. BlankLine \in Line /\ IsBlank(BlankLine) /\ ~IsHeading(BlankLine)
  BY ClaimAssumption DEF BlankLine, Line, Label, IsBlank, IsHeading
<1>18. DOMAIN c = 1 .. N /\ \A n \in 1 .. N : c[n] = line(q[n][2])
  BY <1>1, <1>12
<1>19. c \in Seq(Line)
  <2>1. \A n \in 1 .. N : c[n] \in Line
    BY <1>15, <1>16, <1>17, <1>18
  <2>2. c = [n \in 1 .. N |-> c[n]]
    BY <1>1, <1>12
  <2>. QED BY <1>12, <2>1, <2>2
<1>20. \A i \in DOMAIN a : IsBlank(line(i)) <=> IsBlank(a[i])
  BY <1>15 DEF Body, IsBlank
<1>21. \A h \in Heads(a) : h \in WrittenLines(a)
  BY <1>5 DEF Proper, Heads, WrittenLines, IsHeading, BlankLine
<1>22. \A i \in WrittenLines(a) : i \in DOMAIN a /\ i \in Headed(a)
  BY DEF Preamble, WrittenLines
<1>23. Proper(c)
  <2>. SUFFICES ASSUME NEW n \in 1 .. N, IsBlank(c[n]) PROVE c[n] = BlankLine
    BY <1>18 DEF Proper
  <2>1. CASE q[n][2] \notin DOMAIN a
    BY <1>16, <1>18, <2>1
  <2>2. CASE q[n][2] \in DOMAIN a
    <3>1. IsBlank(a[q[n][2]])
      BY <1>18, <1>20, <2>2
    <3>2. q[n][2] \notin Heads(a)
      BY <1>21, <3>1 DEF WrittenLines
    <3>. QED BY <1>15, <1>18, <2>2, <3>1, <3>2 DEF Proper
  <2>. QED BY <2>1, <2>2
<1>24. ASSUME NEW n \in WrittenLines(c)
       PROVE  /\ n \in 1 .. N /\ q[n][2] \in WrittenLines(a) /\ q[n][2] \in Headed(a)
              /\ q[n] = <<p[HeadOf(a, q[n][2])], q[n][2]>> /\ c[n] = line(q[n][2])
  <2>1. n \in 1 .. N /\ ~IsBlank(c[n]) /\ c[n] = line(q[n][2])
    BY <1>18 DEF WrittenLines
  <2>2. q[n][2] \in DOMAIN a
    BY <1>16, <1>17, <2>1
  <2>3. q[n][2] \in WrittenLines(a)
    BY <1>20, <2>1, <2>2 DEF WrittenLines
  <2>. QED BY <1>9, <1>13, <1>22, <2>1, <2>2, <2>3
<1>25. \A n \in Heads(c) : n \in WrittenLines(c)
  BY <1>17, <1>23 DEF Proper, Heads, WrittenLines
<1>. DEFINE o == [n \in WrittenLines(c) |-> q[n][2]]
<1>26. \A n \in WrittenLines(c) : /\ o[n] \in WrittenLines(a) /\ o[n] \in Headed(a) /\ c[n] = line(o[n])
                                  /\ q[n] = <<p[HeadOf(a, o[n])], o[n]>> /\ n \in 1 .. N
  BY <1>24
<1>27. o \in [WrittenLines(c) -> WrittenLines(a)]
  BY <1>24
<1>. HIDE DEF o
<1>28. ASSUME NEW i \in WrittenLines(a)
       PROVE  \E n \in WrittenLines(c) : o[n] = i /\ q[n] = <<p[HeadOf(a, i)], i>>
  <2>1. PICK n \in 1 .. N : q[n] = <<p[HeadOf(a, i)], i>>
    BY <1>10, <1>14, <1>22
  <2>2. n \in WrittenLines(c)
    <3>1. n \in DOMAIN c /\ c[n] = line(i) /\ i \in DOMAIN a /\ ~IsBlank(a[i])
      BY <1>18, <2>1 DEF WrittenLines
    <3>. QED BY <1>20, <3>1 DEF WrittenLines
  <2>. QED BY <2>1, <2>2 DEF o
<1>29. ASSUME NEW n \in WrittenLines(c)
       PROVE  /\ HeadOf(a, o[n]) \in Heads(a)
              /\ HeadingOf(a, o[n]) = a[HeadOf(a, o[n])].key
              /\ HeadingOf(c, n) = Required[p[HeadOf(a, o[n])]]
  <2>1. n \in 1 .. N /\ o[n] \in Headed(a) /\ o[n] \in DOMAIN a /\ o[n] \in Nat /\ n \in DOMAIN c
    BY <1>2, <1>18, <1>26
  <2>. DEFINE h == HeadOf(a, o[n])
  <2>2. h \in Heads(a) /\ h <= o[n] /\ HeadingOf(a, o[n]) = a[h].key
    BY <1>3, <1>4, <2>1 DEF HeadingOf
  <2>3. q[n] = <<p[h], o[n]>>
    BY <1>26
  <2>. HIDE DEF h
  <2>4. h \in DOMAIN a /\ h \in Nat /\ p[h] \in Nat /\ HeadOf(a, h) = h /\ h \in WrittenLines(a)
    BY <1>5, <1>6, <1>21, <2>2
  <2>5. PICK m \in WrittenLines(c) : o[m] = h /\ q[m] = <<p[h], h>>
    BY <1>28, <2>4
  <2>6. m \in Heads(c) /\ c[m].key = Required[p[h]] /\ m \in 1 .. N
    <3>1. c[m] = line(h) /\ m \in DOMAIN c
      BY <1>18, <1>26, <2>5
    <3>. QED BY <1>15, <1>26, <2>2, <2>4, <3>1 DEF Heads
  <2>7. m <= n
    <3>1. ~LexBefore(q[n], q[m])
      BY <2>1, <2>2, <2>3, <2>4, <2>5 DEF LexBefore
    <3>2. ~(n < m)
      BY <1>12, <2>1, <2>6, <3>1
    <3>. QED BY <1>12, <2>1, <2>6, <3>2
  <2>8. ASSUME NEW g \in Heads(c), g <= n PROVE g <= m
    <3>1. g \in 1 .. N /\ IsHeading(c[g]) /\ g \in WrittenLines(c)
      BY <1>18, <1>25 DEF Heads
    <3>2. o[g] \in Heads(a)
      BY <1>15, <1>26, <3>1 DEF Heads, WrittenLines
    <3>3. q[g] = <<p[o[g]], o[g]>> /\ o[g] \in Nat /\ p[o[g]] \in Nat
      BY <1>5, <1>6, <1>26, <3>1, <3>2
    <3>4. SUFFICES ASSUME m < g PROVE FALSE
      BY <1>12, <2>6, <3>1
    <3>5. LexBefore(<<p[h], h>>, <<p[o[g]], o[g]>>)
      BY <1>12, <2>5, <2>6, <3>1, <3>3, <3>4
    <3>6. g = n \/ LexBefore(<<p[o[g]], o[g]>>, <<p[h], o[n]>>)
      <4>1. g = n \/ g < n
        BY <1>12, <2>1, <2>8, <3>1
      <4>2. g < n => LexBefore(q[g], q[n])
        BY <1>12, <2>1, <3>1
      <4>. QED BY <2>3, <3>3, <4>1, <4>2
    <3>7. p[o[g]] = p[h]
      <4>1. CASE g = n
        BY <2>3, <3>3, <4>1
      <4>2. CASE LexBefore(<<p[o[g]], o[g]>>, <<p[h], o[n]>>)
        BY <2>4, <3>3, <3>5, <4>2 DEF LexBefore
      <4>. QED BY <3>6, <4>1, <4>2
    <3>8. o[g] = h
      BY <2>2, <3>2, <3>7
    <3>. QED BY <2>4, <3>3, <3>5, <3>8 DEF LexBefore
  <2>9. HeadingOf(c, n) = c[m].key
    BY <1>19, <2>1, <2>6, <2>7, <2>8, HeadIs
  <2>10. HeadingOf(c, n) = Required[p[h]]
    BY <2>6, <2>9
  <2>. QED BY <2>2, <2>10 DEF h
<1>30. ASSUME NEW n \in WrittenLines(c)
       PROVE  Body(c[n]) = Body(a[o[n]]) /\ (IsHeading(c[n]) <=> IsHeading(a[o[n]]))
  <2>1. o[n] \in DOMAIN a /\ c[n] = line(o[n])
    BY <1>22, <1>26
  <2>. QED BY <1>15, <2>1
<1>31. \A i \in WrittenLines(a) : \E n \in WrittenLines(c) : o[n] = i
  BY <1>28
<1>32. Resettled(o, p, a, c)
  BY <1>19, <1>23, <1>27, <1>29, <1>30, <1>31 DEF Resettled
<1>. QED BY <1>27, <1>32

\* A heading stays what it is, or becomes the required one it is a character
\* away from where the user did not spell the contract out.
SameHeading(n, k, r) == k = r \/ (<<r, k>> \in OneEdit /\ k \in Range(Required) /\ ~n.explicit)

Moved(o, n, a, c) ==
  /\ a \in Seq(Line) /\ c \in Seq(Line) /\ Proper(c) /\ o \in [WrittenLines(c) -> WrittenLines(a)]
  /\ \A i \in WrittenLines(a) : \E m \in WrittenLines(c) : o[m] = i
  /\ \A m \in WrittenLines(c) : /\ Body(c[m]) = Body(a[o[m]])
                                /\ IsHeading(c[m]) <=> IsHeading(a[o[m]])
                                /\ SameHeading(n, HeadingOf(c, m), HeadingOf(a, o[m]))

\* The order of the contract loses no line and takes none out of its section.
LEMMA CanonicalizedIs ==
  ASSUME NEW n, NEW a \in Seq(Line), Proper(a), NEW c, c = Canonicalized(n, a)
  PROVE  \E o \in [WrittenLines(c) -> WrittenLines(a)] : Moved(o, n, a, c)
<1>. DEFINE distinct == \A g, h \in Heads(a) : a[g].key = a[h].key => g = h
            sound == /\ Heads(a) # {} /\ ~Preamble(a)
                     /\ Cardinality(Heads(a)) = Len(Required) /\ distinct
                     /\ \A h \in Heads(a) : ~EmptySection(a, h)
                     /\ Keys(a) = Range(Required) \/ ~n.explicit
            p == CHOOSE x \in Placements(a) : TRUE
            moves == sound /\ Placements(a) # {} /\ Misplaced(a, p)
<1>1. c = IF moves THEN Arranged(a, p) ELSE a
  BY DEF Canonicalized
<1>2. CASE ~moves
  <2>. DEFINE o == [m \in WrittenLines(c) |-> m]
  <2>1. c = a
    BY <1>1, <1>2
  <2>2. o \in [WrittenLines(c) -> WrittenLines(a)] /\ \A m \in WrittenLines(c) : o[m] = m
    BY <2>1
  <2>. HIDE DEF o
  <2>3. Moved(o, n, a, c)
    BY <2>1, <2>2 DEF Moved, SameHeading
  <2>. QED BY <2>2, <2>3
<1>3. CASE moves
  <2>1. p \in Placements(a) /\ c = Arranged(a, p)
    BY <1>1, <1>3
  <2>2. distinct /\ ~Preamble(a) /\ (Keys(a) = Range(Required) \/ ~n.explicit)
    BY <1>3
  <2>. HIDE DEF p, sound, moves
  <2>3. /\ p \in [Heads(a) -> DOMAIN Required]
        /\ \A g, h \in Heads(a) : p[g] = p[h] => g = h
        /\ \A h \in Heads(a) : \/ Required[p[h]] = a[h].key
                               \/ <<a[h].key, Required[p[h]]>> \in OneEdit
    BY <2>1, PlacedOnce
  <2>4. PICK o \in [WrittenLines(c) -> WrittenLines(a)] : Resettled(o, p, a, c)
    BY <2>1, <2>2, <2>3, ArrangedIs
  <2>5. ASSUME NEW h \in Heads(a) PROVE SameHeading(n, Required[p[h]], a[h].key)
    <3>1. CASE Keys(a) = Range(Required)
      <4>1. Required[p[h]] = a[h].key
        BY <2>1, <2>2, <3>1, ExactPlaces
      <4>. QED BY <4>1 DEF SameHeading
    <3>2. CASE ~n.explicit
      <4>1. Required[p[h]] \in Range(Required)
        BY <2>3 DEF Range
      <4>. QED BY <2>3, <3>2, <4>1 DEF SameHeading
    <3>. QED BY <2>2, <3>1, <3>2
  <2>6. Moved(o, n, a, c)
    <3>1. /\ c \in Seq(Line) /\ Proper(c) /\ \A i \in WrittenLines(a) : \E m \in WrittenLines(c) : o[m] = i
          /\ \A m \in WrittenLines(c) : /\ Body(c[m]) = Body(a[o[m]])
                                        /\ IsHeading(c[m]) <=> IsHeading(a[o[m]])
                                        /\ HeadingOf(a, o[m]) = a[HeadOf(a, o[m])].key
                                        /\ HeadOf(a, o[m]) \in Heads(a)
                                        /\ HeadingOf(c, m) = Required[p[HeadOf(a, o[m])]]
      BY <2>4 DEF Resettled
    <3>2. \A m \in WrittenLines(c) : SameHeading(n, HeadingOf(c, m), HeadingOf(a, o[m]))
      BY <2>5, <3>1
    <3>. QED BY <3>1, <3>2 DEF Moved
  <2>. QED BY <2>6
<1>. QED BY <1>2, <1>3

(***************************************************************************)
(* The repaired answer                                                     *)
(***************************************************************************)
\* What line j of a says is said by written lines of c that stem from it.
Kept(s, a, c, j) ==
  \E w \in Replacements(a[j]) : \A body \in w : \E n \in WrittenLines(c) : s[n] = j /\ Body(c[n]) = body

\* Line i of c stems from line s[i] of r: only bad lines are lost, and if no
\* heading is bad the others stay under their headings.
Repairs(s, t, n, r, c) ==
  /\ r \in Seq(Line) /\ c \in Seq(Line) /\ Proper(c) /\ s \in [WrittenLines(c) -> WrittenLines(r)]
  /\ \A i \in WrittenLines(c) : IsHeading(c[i]) <=> IsHeading(r[s[i]])
  /\ \A i \in WrittenLines(c) : \E w \in Replacements(r[s[i]]) : Body(c[i]) \in w
  /\ \A j \in WrittenLines(r) : BadQuantity(t, r[j]) \/ Kept(s, r, c, j)
  /\ (\A h \in Heads(r) : ~BadQuantity(t, r[h])) =>
       \A i \in WrittenLines(c) : SameHeading(n, HeadingOf(c, i), HeadingOf(r, s[i]))

Repaired(t, n, r) == Normalized(t, n, DerivedRelabelled(r))

LEMMA AnswersAre ==
  ASSUME NEW r \in Answers
  PROVE  r \in Seq(Line) /\ Unlabelled(r) /\ Proper(r)
<1>1. r \in Seq(Line)
  BY AnswersAssumption
<1>2. \A i \in DOMAIN r : r[i].key # NoHeading => r[i].label = "none"
  BY AnswersAssumption
<1>3. \A i \in DOMAIN r : r[i].claim = NoClaim => r[i] = BlankLine
  BY AnswersAssumption, Zenon
<1>. QED BY <1>1, <1>2, <1>3 DEF Unlabelled, Proper, Heads, IsHeading, IsBlank

LEMMA RepairedIs ==
  ASSUME NEW t, NEW n, NEW r \in Answers, NEW c, c = Repaired(t, n, r)
  PROVE  \E s \in [WrittenLines(c) -> WrittenLines(r)] : Repairs(s, t, n, r, c)
<1>1. r \in Seq(Line) /\ Unlabelled(r) /\ Proper(r)
  BY AnswersAre
<1>. DEFINE d == Prepared(DerivedRelabelled(r))
            f == QuantitiesFiltered(t, d)
<1>2. c = Canonicalized(n, f)
  BY DEF Repaired, Normalized
<1>3. PICK o \in [DOMAIN d -> DOMAIN r] :
        Tracks(o, r, d) /\ Restates(o, r, d) /\ \A j \in DOMAIN r : Said(o, r, d, j)
  BY <1>1, PreparedIs
<1>4. d \in Seq(Line)
  BY <1>3 DEF Tracks
<1>. HIDE DEF d
<1>5. PICK q \in [DOMAIN f -> DOMAIN d] : Sifted(q, t, d, f)
  BY <1>4, FilteredIs
<1>6. f \in Seq(Line)
  BY <1>5 DEF Sifted
<1>. HIDE DEF f
<1>7. /\ Proper(d)
      /\ \A i \in DOMAIN d : i \in WrittenLines(d) <=> o[i] \in WrittenLines(r)
  BY <1>1, <1>3, TracksWritten
<1>8. /\ \A i \in DOMAIN d : d[i].key = r[o[i]].key
      /\ \A i \in DOMAIN d : \E w \in Replacements(r[o[i]]) : Body(d[i]) \in w
  BY <1>3 DEF Tracks, Restates
<1>9. /\ \A i \in DOMAIN f : f[i] = d[q[i]]
      /\ \A j \in DOMAIN d : ~BadQuantity(t, d[j]) => \E i \in DOMAIN f : q[i] = j
  BY <1>5 DEF Sifted
<1>10. /\ Proper(f)
       /\ \A i \in DOMAIN f : i \in WrittenLines(f) <=> q[i] \in WrittenLines(d)
  BY <1>7, <1>9 DEF Proper, WrittenLines
<1>11. PICK m \in [WrittenLines(c) -> WrittenLines(f)] : Moved(m, n, f, c)
  BY <1>2, <1>6, <1>10, CanonicalizedIs
<1>12. /\ c \in Seq(Line) /\ Proper(c)
       /\ \A i \in WrittenLines(f) : \E k \in WrittenLines(c) : m[k] = i
       /\ \A i \in WrittenLines(c) : /\ Body(c[i]) = Body(f[m[i]])
                                     /\ IsHeading(c[i]) <=> IsHeading(f[m[i]])
                                     /\ SameHeading(n, HeadingOf(c, i), HeadingOf(f, m[i]))
  BY <1>11 DEF Moved
<1>. DEFINE s == [i \in WrittenLines(c) |-> o[q[m[i]]]]
<1>13. \A i \in WrittenLines(f) : i \in DOMAIN f
  BY DEF WrittenLines
<1>14. \A i \in WrittenLines(c) : /\ s[i] = o[q[m[i]]] /\ m[i] \in WrittenLines(f) /\ m[i] \in DOMAIN f
                                  /\ q[m[i]] \in DOMAIN d /\ q[m[i]] \in WrittenLines(d)
                                  /\ s[i] \in DOMAIN r /\ s[i] \in WrittenLines(r)
  <2>. TAKE i \in WrittenLines(c)
  <2>1. m[i] \in WrittenLines(f) /\ m[i] \in DOMAIN f
    BY <1>13
  <2>2. q[m[i]] \in DOMAIN d /\ q[m[i]] \in WrittenLines(d)
    BY <1>10, <2>1
  <2>. QED BY <1>7, <2>1, <2>2
<1>15. s \in [WrittenLines(c) -> WrittenLines(r)]
  BY <1>14
<1>. HIDE DEF s
<1>16. ASSUME NEW i \in WrittenLines(c)
       PROVE  /\ IsHeading(c[i]) <=> IsHeading(r[s[i]])
              /\ \E w \in Replacements(r[s[i]]) : Body(c[i]) \in w
  <2>1. f[m[i]] = d[q[m[i]]] /\ d[q[m[i]]].key = r[s[i]].key
    BY <1>8, <1>9, <1>14
  <2>2. IsHeading(c[i]) <=> IsHeading(r[s[i]])
    BY <1>12, <2>1 DEF IsHeading
  <2>3. \E w \in Replacements(r[s[i]]) : Body(d[q[m[i]]]) \in w
    BY <1>8, <1>14
  <2>. QED BY <1>12, <2>1, <2>2, <2>3
<1>17. ASSUME NEW j \in WrittenLines(r), ~BadQuantity(t, r[j]) PROVE Kept(s, r, c, j)
  <2>1. j \in DOMAIN r
    BY DEF WrittenLines
  <2>2. PICK w \in Replacements(r[j]) :
          \A body \in w : \E k \in DOMAIN d : o[k] = j /\ Body(d[k]) = body
    BY <1>3, <2>1 DEF Said
  <2>3. ASSUME NEW body \in w PROVE \E i \in WrittenLines(c) : s[i] = j /\ Body(c[i]) = body
    <3>1. PICK k \in DOMAIN d : o[k] = j /\ Body(d[k]) = body
      BY <2>2
    <3>2. ~BadQuantity(t, d[k])
      <4>1. d[k] \in Line /\ r[j] \in Line
        BY <1>1, <1>4, <2>1
      <4>. QED BY <1>17, <3>1, <4>1, BadWeakens
    <3>3. PICK g \in DOMAIN f : q[g] = k
      BY <1>9, <3>2
    <3>4. g \in WrittenLines(f)
      BY <1>7, <1>10, <3>1, <3>3
    <3>5. PICK i \in WrittenLines(c) : m[i] = g
      BY <1>12, <3>4
    <3>6. s[i] = j /\ Body(c[i]) = body
      BY <1>9, <1>12, <1>14, <3>1, <3>3, <3>5
    <3>. QED BY <3>6
  <2>. QED BY <2>3 DEF Kept
<1>18. ASSUME \A h \in Heads(r) : ~BadQuantity(t, r[h]), NEW i \in WrittenLines(c)
       PROVE  SameHeading(n, HeadingOf(c, i), HeadingOf(r, s[i]))
  <2>1. ASSUME NEW h \in Heads(d) PROVE ~BadQuantity(t, d[h])
    <3>1. h \in DOMAIN d /\ o[h] \in DOMAIN r /\ o[h] \in Heads(r)
      BY <1>8, <2>1 DEF Heads, IsHeading
    <3>2. d[h] \in Line /\ r[o[h]] \in Line
      BY <1>1, <1>4, <3>1
    <3>3. PICK w \in Replacements(r[o[h]]) : Body(d[h]) \in w
      BY <1>8, <3>1
    <3>. QED BY <1>18, <3>1, <3>2, <3>3, BadWeakens
  <2>2. Tracks(q, d, f)
    BY <1>5, <2>1, SiftedTracks
  <2>3. HeadingOf(f, m[i]) = HeadingOf(d, q[m[i]])
    BY <1>14, <2>2, TracksHeading
  <2>4. HeadingOf(d, q[m[i]]) = HeadingOf(r, s[i])
    BY <1>3, <1>14, TracksHeading
  <2>. QED BY <1>12, <2>3, <2>4
<1>19. Repairs(s, t, n, r, c)
  BY <1>1, <1>12, <1>15, <1>16, <1>17, <1>18 DEF Repairs
<1>. QED BY <1>15, <1>19

\* What the raw text says under a heading, the repaired one says there.
LEMMA RepairKeepsContent ==
  ASSUME Over, raw \in Answers, answer = Repaired(task, node, raw)
  PROVE  ContentKept
<1>1. PICK s \in [WrittenLines(answer) -> WrittenLines(raw)] : Repairs(s, task, node, raw, answer)
  BY RepairedIs
<1>2. /\ raw \in Seq(Line) /\ answer \in Seq(Line)
      /\ \A i \in WrittenLines(answer) : IsHeading(answer[i]) <=> IsHeading(raw[s[i]])
      /\ \A i \in WrittenLines(answer) : \E w \in Replacements(raw[s[i]]) : Body(answer[i]) \in w
      /\ \A j \in WrittenLines(raw) : BadQuantity(task, raw[j]) \/ Kept(s, raw, answer, j)
      /\ (\A h \in Heads(raw) : ~BadQuantity(task, raw[h])) =>
           \A i \in WrittenLines(answer) :
             SameHeading(node, HeadingOf(answer, i), HeadingOf(raw, s[i]))
  BY <1>1 DEF Repairs
<1>3. ASSUME NEW i \in WrittenLines(answer) PROVE Placed(answer, i, raw, s[i])
  <2>1. CASE \A h \in Heads(raw) : ~BadQuantity(task, raw[h])
    BY <1>2, <2>1 DEF Placed, SameSection, SameHeading
  <2>2. CASE \E h \in Heads(raw) : BadQuantity(task, raw[h])
    <3>1. PICK h \in Heads(raw) : BadQuantity(task, raw[h])
      BY <2>2
    <3>2. raw[h] \in Range(raw) /\ IsHeading(raw[h])
      BY DEF Heads, Range
    <3>. QED BY <3>1, <3>2 DEF Placed
  <2>. QED BY <2>1, <2>2
<1>4. \A i \in WrittenLines(answer) : i \in BodyLines(answer) <=> s[i] \in BodyLines(raw)
  BY <1>2 DEF BodyLines, Heads, WrittenLines
<1>5. ASSUME NEW i \in BodyLines(answer)
      PROVE  \E j \in BodyLines(raw) : /\ \E w \in Replacements(raw[j]) : Body(answer[i]) \in w
                                       /\ Placed(answer, i, raw, j)
  <2>1. i \in WrittenLines(answer) /\ s[i] \in BodyLines(raw)
    BY <1>4 DEF BodyLines, WrittenLines
  <2>. QED BY <1>2, <1>3, <2>1
<1>6. ASSUME NEW j \in BodyLines(raw), ~BadQuantity(task, raw[j])
      PROVE  \E w \in Replacements(raw[j]) : \A body \in w : \E i \in BodyLines(answer) :
               Body(answer[i]) = body /\ Placed(answer, i, raw, j)
  <2>1. j \in WrittenLines(raw)
    BY DEF BodyLines, WrittenLines
  <2>2. PICK w \in Replacements(raw[j]) :
          \A body \in w : \E i \in WrittenLines(answer) : s[i] = j /\ Body(answer[i]) = body
    BY <1>2, <1>6, <2>1 DEF Kept
  <2>3. ASSUME NEW body \in w
        PROVE  \E i \in BodyLines(answer) : Body(answer[i]) = body /\ Placed(answer, i, raw, j)
    <3>1. PICK i \in WrittenLines(answer) : s[i] = j /\ Body(answer[i]) = body
      BY <2>2
    <3>. QED BY <1>3, <1>4, <3>1
  <2>. QED BY <2>3
<1>. QED BY <1>5, <1>6 DEF ContentKept

(***************************************************************************)
(* An answer that meets its contract                                       *)
(***************************************************************************)
\* Each required heading stands once over some text, in the order required.
Meets(a) ==
  /\ \A k \in Range(Required) : \E h \in Heads(a) :
       a[h].key = k /\ ~EmptySection(a, h) /\ \A g \in Heads(a) : a[g].key = k => g = h
  /\ \A m, n \in DOMAIN Required : \A g, h \in Heads(a) :
       m < n /\ a[g].key = Required[m] /\ a[h].key = Required[n] => g < h

\* That is what the contract asks.
LEMMA ContractMet ==
  ASSUME NEW a \in Seq(Line)
  PROVE  ContractViolations(a) = {} <=> Meets(a)
<1>. DEFINE under(k) == {h \in Heads(a) : a[h].key = k}
            first(k) == Min(under(k))
            found    == {k \in Range(Required) : under(k) # {}}
            disorder == /\ found = Range(Required)
                        /\ \E m, n \in DOMAIN Required :
                             m < n /\ first(Required[m]) > first(Required[n])
<1>1. ContractViolations(a) =
        {<<"missing", k>> : k \in Range(Required) \ found}
        \cup {<<"duplicate", k>> : k \in {f \in found : under(f) # {first(f)}}}
        \cup {<<"empty", k>> : k \in {f \in found : EmptySection(a, first(f))}}
        \cup Flag(disorder, <<"order">>)
  BY DEF ContractViolations
<1>2. ContractViolations(a) = {} <=>
        /\ Range(Required) \ found = {}
        /\ {f \in found : under(f) # {first(f)}} = {}
        /\ {f \in found : EmptySection(a, first(f))} = {}
        /\ ~disorder
  <2>. HIDE DEF under, first, found, disorder
  <2>. QED BY <1>1 DEF Flag
<1>3. \A h \in Heads(a) : h \in Nat
  BY DEF Heads
<1>4. \A k : under(k) \in SUBSET Nat
  BY <1>3
<1>5. \A k : \A h : h \in under(k) <=> h \in Heads(a) /\ a[h].key = k
  OBVIOUS
<1>6. \A k : k \in found <=> k \in Range(Required) /\ under(k) # {}
  OBVIOUS
<1>. HIDE DEF under
<1>7. \A k : under(k) # {} => first(k) \in under(k) /\ \A h \in under(k) : first(k) <= h
  BY <1>4, MinOf
<1>8. disorder <=> /\ found = Range(Required)
                   /\ \E m, n \in DOMAIN Required :
                        m < n /\ first(Required[m]) > first(Required[n])
  OBVIOUS
<1>. HIDE DEF first, found, disorder
<1>9. \A m \in DOMAIN Required : Required[m] \in Range(Required) /\ m \in Nat
  BY RequiredAssumption DEF Range
<1>10. \A m, n \in DOMAIN Required : m < n => Required[m] # Required[n]
  <2>. TAKE m, n \in DOMAIN Required
  <2>. HAVE m < n
  <2>1. m # n
    BY <1>9
  <2>. QED BY <2>1, RequiredAssumption
<1>11. ASSUME Meets(a) PROVE ContractViolations(a) = {}
  <2>1. ASSUME NEW k \in Range(Required)
        PROVE  k \in found /\ under(k) = {first(k)} /\ ~EmptySection(a, first(k))
    <3>1. PICK h \in Heads(a) :
            a[h].key = k /\ ~EmptySection(a, h) /\ \A g \in Heads(a) : a[g].key = k => g = h
      BY <1>11 DEF Meets
    <3>2. under(k) = {h}
      BY <1>5, <3>1
    <3>3. first(k) = h
      BY <1>7, <3>2
    <3>. QED BY <1>6, <3>1, <3>2, <3>3
  <2>2. ASSUME NEW m \in DOMAIN Required, NEW n \in DOMAIN Required, m < n
        PROVE  ~(first(Required[m]) > first(Required[n]))
    <3>1. /\ first(Required[m]) \in under(Required[m])
          /\ first(Required[n]) \in under(Required[n])
      BY <1>6, <1>7, <1>9, <2>1
    <3>2. first(Required[m]) < first(Required[n])
      BY <1>5, <1>11, <2>2, <3>1 DEF Meets
    <3>. QED BY <1>3, <1>5, <3>1, <3>2
  <2>. QED BY <1>2, <1>6, <1>8, <2>1, <2>2
<1>12. ASSUME ContractViolations(a) = {} PROVE Meets(a)
  <2>1. \A k \in Range(Required) : /\ first(k) \in Heads(a) /\ a[first(k)].key = k
                                   /\ ~EmptySection(a, first(k))
                                   /\ \A g \in Heads(a) : a[g].key = k => g = first(k)
    <3>. TAKE k \in Range(Required)
    <3>1. k \in found /\ under(k) = {first(k)} /\ ~EmptySection(a, first(k))
      BY <1>2, <1>12
    <3>. QED BY <1>5, <3>1
  <2>2. found = Range(Required)
    BY <1>2, <1>6, <1>12
  <2>3. ASSUME NEW m \in DOMAIN Required, NEW n \in DOMAIN Required,
               NEW g \in Heads(a), NEW h \in Heads(a),
               m < n, a[g].key = Required[m], a[h].key = Required[n]
        PROVE  g < h
    <3>1. g = first(Required[m]) /\ h = first(Required[n])
      BY <1>9, <2>1, <2>3
    <3>2. ~(g > h)
      BY <1>2, <1>8, <1>12, <2>2, <2>3, <3>1
    <3>3. g # h
      BY <1>10, <2>3
    <3>. QED BY <1>3, <3>2, <3>3
  <2>. QED BY <2>1, <2>3 DEF Meets
<1>. QED BY <1>11, <1>12

\* Lines that stem from all lines of such an answer make another.
LEMMA TracksMeets ==
  ASSUME NEW a, NEW b, NEW o, Tracks(o, a, b), \A j \in DOMAIN a : \E n \in DOMAIN b : o[n] = j,
         \A n \in DOMAIN b : n \in WrittenLines(b) <=> o[n] \in WrittenLines(a), Meets(a)
  PROVE  Meets(b)
<1>1. /\ a \in Seq(Line) /\ b \in Seq(Line) /\ o \in [DOMAIN b -> DOMAIN a]
      /\ \A k, m \in DOMAIN b : k < m => o[k] <= o[m]
      /\ \A m \in DOMAIN b : b[m].key = a[o[m]].key
      /\ \A k, m \in DOMAIN b : o[k] = o[m] /\ IsHeading(b[m]) => k = m
  BY DEF Tracks
<1>2. /\ Len(a) \in Nat /\ DOMAIN a = 1 .. Len(a) /\ Len(b) \in Nat /\ DOMAIN b = 1 .. Len(b)
      /\ \A m \in DOMAIN b : m \in Nat /\ o[m] \in DOMAIN a /\ o[m] \in Nat
  BY <1>1
<1>3. \A m \in DOMAIN b : m \in Heads(b) <=> o[m] \in Heads(a)
  BY <1>1, <1>2 DEF Heads, IsHeading
<1>4. Heads(b) \subseteq DOMAIN b /\ Heads(a) \subseteq DOMAIN a
  BY DEF Heads
<1>5. ASSUME NEW k \in Range(Required)
      PROVE  \E h \in Heads(b) : b[h].key = k /\ ~EmptySection(b, h)
                                 /\ \A g \in Heads(b) : b[g].key = k => g = h
  <2>1. PICK i \in Heads(a) : a[i].key = k /\ ~EmptySection(a, i)
                              /\ \A g \in Heads(a) : a[g].key = k => g = i
    BY DEF Meets
  <2>2. PICK h \in DOMAIN b : o[h] = i
    BY <1>4
  <2>3. h \in Heads(b) /\ b[h].key = k /\ IsHeading(b[h])
    BY <1>1, <1>3, <2>1, <2>2 DEF Heads
  <2>4. \A g \in Heads(b) : b[g].key = k => g = h
    <3>. TAKE g \in Heads(b)
    <3>. HAVE b[g].key = k
    <3>1. g \in DOMAIN b /\ o[g] \in Heads(a) /\ a[o[g]].key = k
      BY <1>1, <1>3, <1>4
    <3>2. o[g] = i
      BY <2>1, <3>1
    <3>. QED BY <1>1, <2>2, <2>3, <3>1, <3>2
  <2>5. PICK j \in Headed(a) : HeadOf(a, j) = i /\ j # i /\ ~IsBlank(a[j])
    BY <2>1 DEF EmptySection
  <2>6. PICK l \in DOMAIN b : o[l] = j
    BY DEF Headed
  <2>7. l \in Headed(b) /\ HeadOf(b, l) \in Heads(b) /\ o[HeadOf(b, l)] = i
    BY <2>5, <2>6, TracksHeading
  <2>8. HeadOf(b, l) = h
    BY <1>1, <1>4, <2>2, <2>3, <2>7
  <2>9. ~IsBlank(b[l])
    BY <1>2, <2>5, <2>6 DEF WrittenLines
  <2>10. l # h
    BY <2>2, <2>5, <2>6
  <2>. QED BY <2>3, <2>4, <2>7, <2>8, <2>9, <2>10 DEF EmptySection
<1>6. ASSUME NEW m \in DOMAIN Required, NEW n \in DOMAIN Required,
             NEW g \in Heads(b), NEW h \in Heads(b),
             m < n, b[g].key = Required[m], b[h].key = Required[n]
      PROVE  g < h
  <2>1. /\ g \in DOMAIN b /\ h \in DOMAIN b /\ o[g] \in Heads(a) /\ o[h] \in Heads(a)
        /\ a[o[g]].key = Required[m] /\ a[o[h]].key = Required[n]
    BY <1>1, <1>3, <1>4, <1>6
  <2>2. o[g] < o[h]
    BY <1>6, <2>1 DEF Meets
  <2>3. g # h /\ ~(h < g)
    <3>1. ~(o[h] <= o[g]) /\ o[g] # o[h]
      BY <1>2, <2>1, <2>2
    <3>. QED BY <1>1, <2>1, <3>1
  <2>. QED BY <1>2, <2>1, <2>3
<1>. QED BY <1>5, <1>6 DEF Meets

\* There are N numbers up to N.
LEMMA UpToCount ==
  ASSUME NEW N \in Nat
  PROVE  IsFiniteSet(1 .. N) /\ Cardinality(1 .. N) = N
BY FS_Interval

\* A set of headings as many as the required ones, with one for each, has no
\* other.
LEMMA NoOtherHeading ==
  ASSUME NEW a \in Seq(Line), Meets(a), Cardinality(Heads(a)) = Len(Required)
  PROVE  Keys(a) = Range(Required)
<1>1. /\ Required \in Seq(Heading) /\ Len(Required) \in Nat
      /\ DOMAIN Required = 1 .. Len(Required)
  BY RequiredAssumption
<1>. DEFINE f == [r \in DOMAIN Required |-> CHOOSE h \in Heads(a) : a[h].key = Required[r]]
<1>2. \A r \in DOMAIN Required : \E h \in Heads(a) : a[h].key = Required[r]
  BY DEF Meets, Range
<1>3. \A r \in DOMAIN Required : f[r] \in Heads(a) /\ a[f[r]].key = Required[r]
  BY <1>2
<1>4. DOMAIN f = DOMAIN Required
  OBVIOUS
<1>. HIDE DEF f
<1>5. IsFiniteSet(Heads(a))
  <2>1. Heads(a) \in SUBSET (1 .. Len(a)) /\ Len(a) \in Nat
    BY DEF Heads
  <2>2. IsFiniteSet(1 .. Len(a))
    BY <2>1, FS_Interval
  <2>. QED BY <2>1, <2>2, FS_Subset
<1>6. Range(f) \in SUBSET Heads(a)
  BY <1>3, <1>4 DEF Range
<1>7. Cardinality(Range(f)) = Len(Required)
  <2>1. \A r, s \in DOMAIN Required : f[r] = f[s] => r = s
    BY <1>3, RequiredAssumption
  <2>. DEFINE g == [r \in 1 .. Len(Required) |-> f[r]]
  <2>2. g \in Bijection(1 .. Len(Required), Range(f))
    BY <1>1, <1>4, <2>1 DEF Bijection, Injection, Surjection, IsInjective, Range
  <2>3. IsFiniteSet(1 .. Len(Required)) /\ Cardinality(1 .. Len(Required)) = Len(Required)
    BY <1>1, UpToCount
  <2>4. ExistsBijection(1 .. Len(Required), Range(f))
    BY <2>2 DEF ExistsBijection
  <2>. HIDE DEF g
  <2>. QED BY <2>3, <2>4, FS_Bijection
<1>8. Range(f) = Heads(a)
  BY <1>5, <1>6, <1>7, FS_Subset
<1>9. Range(Required) \subseteq Keys(a)
  <2>1. ASSUME NEW k \in Range(Required) PROVE k \in Keys(a)
    <3>1. PICK h \in Heads(a) : a[h].key = k
      BY DEF Meets
    <3>. QED BY <3>1 DEF Keys
  <2>. QED BY <2>1
<1>10. Keys(a) \subseteq Range(Required)
  <2>1. ASSUME NEW h \in Heads(a) PROVE a[h].key \in Range(Required)
    <3>1. PICK r \in DOMAIN Required : f[r] = h
      BY <1>4, <1>8 DEF Range
    <3>. QED BY <1>3, <3>1 DEF Range
  <2>. QED BY <2>1 DEF Keys
<1>. QED BY <1>9, <1>10

\* An answer that meets its contract is in the order of the contract.
LEMMA CanonicalizedSame ==
  ASSUME NEW n, NEW a \in Seq(Line), Meets(a)
  PROVE  Canonicalized(n, a) = a
<1>. DEFINE distinct == \A g, h \in Heads(a) : a[g].key = a[h].key => g = h
            sound == /\ Heads(a) # {} /\ ~Preamble(a)
                     /\ Cardinality(Heads(a)) = Len(Required) /\ distinct
                     /\ \A h \in Heads(a) : ~EmptySection(a, h)
                     /\ Keys(a) = Range(Required) \/ ~n.explicit
            p == CHOOSE x \in Placements(a) : TRUE
<1>1. Canonicalized(n, a)
        = IF sound /\ Placements(a) # {} /\ Misplaced(a, p) THEN Arranged(a, p) ELSE a
  BY DEF Canonicalized
<1>2. SUFFICES ASSUME sound, Placements(a) # {} PROVE ~Misplaced(a, p)
  BY <1>1
<1>3. p \in Placements(a)
  BY <1>2
<1>4. distinct /\ Cardinality(Heads(a)) = Len(Required)
  BY <1>2
<1>. HIDE DEF p, sound
<1>5. Keys(a) = Range(Required)
  BY <1>4, NoOtherHeading
<1>6. \A h \in Heads(a) : Required[p[h]] = a[h].key
  BY <1>3, <1>4, <1>5, ExactPlaces
<1>7. p \in [Heads(a) -> DOMAIN Required]
  BY <1>3, PlacedOnce
<1>8. \A h \in Heads(a) : h \in Nat /\ p[h] \in DOMAIN Required
  BY <1>7 DEF Heads
<1>9. ASSUME NEW g \in Heads(a), NEW h \in Heads(a), g < h PROVE ~(p[h] < p[g])
  <2>. SUFFICES ASSUME p[h] < p[g] PROVE FALSE
    OBVIOUS
  <2>1. h < g
    BY <1>6, <1>8 DEF Meets
  <2>. QED BY <1>8, <1>9, <2>1
<1>. QED BY <1>6, <1>9 DEF Misplaced

(***************************************************************************)
(* An answer that needs no repair                                          *)
(***************************************************************************)
Faults(t, a) == QualityViolations(a, FALSE) \cup EvidenceViolations(t, a)

\* Every line is replaced by something.
LEMMA ReplacedBySome ==
  ASSUME NEW l, NEW w \in Replacements(l)
  PROVE  w # {}
<1>1. CASE w = {Body(l)} \/ w = {<<"inference", l.claim>>}
  BY <1>1
<1>2. CASE \E label \in {"fact", "inference"}, c \in {l.claim} \cap DOMAIN Parts :
             w = {<<label, Parts[c][1]>>, <<"conclusion", Parts[c][2]>>}
  BY <1>2
<1>. QED BY <1>1, <1>2 DEF Replacements

\* What the reasons that are not there say of the text.
LEMMA FaultlessIs ==
  ASSUME NEW t, NEW a \in Seq(Line)
  PROVE  Faults(t, a) = {} <=>
           /\ ~Unwritten(a) /\ Meets(a)
           /\ \A j \in DOMAIN a : /\ ~BadQuantity(t, a[j]) /\ ~UnsupportedFact(t, a[j])
                                  /\ a[j].claim \notin WrongSum
<1>1. ContractViolations(a) = {} <=> Meets(a)
  BY ContractMet
<1>2. QualityViolations(a, FALSE) = {} <=> ~Unwritten(a) /\ ContractViolations(a) = {}
  BY DEF QualityViolations, Flag
<1>3. \A l : l \in Range(a) <=> \E j \in DOMAIN a : a[j] = l
  BY DEF Range
<1>4. EvidenceViolations(t, a) = {} <=>
        \A l \in Range(a) : ~BadQuantity(t, l) /\ ~UnsupportedFact(t, l) /\ l.claim \notin WrongSum
  BY DEF EvidenceViolations, Flag
<1>. QED BY <1>1, <1>2, <1>3, <1>4 DEF Faults

\* The contract is still met when the repair is done.
LEMMA RepairedMeets ==
  ASSUME NEW t, NEW n, NEW r \in Answers, Faults(t, r) = {}
  PROVE  Meets(Repaired(t, n, r))
<1>1. r \in Seq(Line) /\ Unlabelled(r) /\ Proper(r)
  BY AnswersAre
<1>2. Meets(r) /\ \A j \in DOMAIN r : ~BadQuantity(t, r[j])
  BY <1>1, FaultlessIs
<1>. DEFINE d == Prepared(DerivedRelabelled(r))
            f == QuantitiesFiltered(t, d)
<1>3. Repaired(t, n, r) = Canonicalized(n, f)
  BY DEF Repaired, Normalized
<1>4. PICK o \in [DOMAIN d -> DOMAIN r] :
        Tracks(o, r, d) /\ Restates(o, r, d) /\ \A j \in DOMAIN r : Said(o, r, d, j)
  BY <1>1, PreparedIs
<1>5. d \in Seq(Line)
  BY <1>4 DEF Tracks
<1>. HIDE DEF d
<1>6. PICK q \in [DOMAIN f -> DOMAIN d] : Sifted(q, t, d, f)
  BY <1>5, FilteredIs
<1>7. f \in Seq(Line) /\ \A j \in DOMAIN d : ~BadQuantity(t, d[j]) => \E i \in DOMAIN f : q[i] = j
  BY <1>6 DEF Sifted
<1>. HIDE DEF f
<1>8. ASSUME NEW i \in DOMAIN d PROVE ~BadQuantity(t, d[i])
  <2>1. PICK w \in Replacements(r[o[i]]) : Body(d[i]) \in w
    BY <1>4 DEF Restates
  <2>2. d[i] \in Line /\ o[i] \in DOMAIN r /\ r[o[i]] \in Line
    BY <1>1, <1>5
  <2>. QED BY <1>2, <2>1, <2>2, BadWeakens
<1>9. ASSUME NEW j \in DOMAIN r PROVE \E i \in DOMAIN d : o[i] = j
  <2>1. PICK w \in Replacements(r[j]) :
          \A body \in w : \E i \in DOMAIN d : o[i] = j /\ Body(d[i]) = body
    BY <1>4 DEF Said
  <2>2. w # {}
    BY ReplacedBySome
  <2>. QED BY <2>1, <2>2
<1>10. Meets(d)
  <2>1. \A i \in DOMAIN d : i \in WrittenLines(d) <=> o[i] \in WrittenLines(r)
    BY <1>1, <1>4, TracksWritten
  <2>. QED BY <1>2, <1>4, <1>9, <2>1, TracksMeets
<1>11. Tracks(q, d, f)
  <2>1. \A h \in Heads(d) : ~BadQuantity(t, d[h])
    BY <1>8 DEF Heads
  <2>. QED BY <1>6, <2>1, SiftedTracks
<1>12. Meets(f)
  <2>1. \A j \in DOMAIN d : \E i \in DOMAIN f : q[i] = j
    BY <1>7, <1>8
  <2>2. \A i \in DOMAIN f : i \in WrittenLines(f) <=> q[i] \in WrittenLines(d)
    BY <1>6 DEF Sifted, WrittenLines
  <2>. QED BY <1>10, <1>11, <2>1, <2>2, TracksMeets
<1>13. Canonicalized(n, f) = f
  BY <1>7, <1>12, CanonicalizedSame
<1>. QED BY <1>3, <1>12, <1>13

\* No repaired line is worse than the one it stems from.
LEMMA ReplacedNoWorse ==
  ASSUME NEW t, NEW l \in Line, NEW m \in Line, NEW w \in Replacements(l), Body(m) \in w
  PROVE  /\ UnsupportedFact(t, m) => UnsupportedFact(t, l)
         /\ m.claim \in WrongSum => l.claim \in WrongSum
<1>1. CASE Body(m) = Body(l)
  BY <1>1 DEF UnsupportedFact, Body
<1>2. CASE Body(m) = <<"inference", l.claim>>
  BY <1>2 DEF UnsupportedFact, Body, FactLabel
<1>3. CASE l.label = "fact" /\ \E c \in {l.claim} \cap DOMAIN Parts :
             \/ Body(m) = <<"conclusion", Parts[c][2]>>
             \/ \E label \in {"fact", "inference"} : Body(m) = <<label, Parts[c][1]>>
  <2>1. m.claim \notin WrongSum /\ l.claim \in DOMAIN Parts
    BY <1>3, ClaimAssumption DEF Body
  <2>2. ASSUME UnsupportedFact(t, m) PROVE UnsupportedFact(t, l)
    <3>1. t.strict /\ m.label \in FactLabel /\ m.claim \notin Supported
      BY <2>2 DEF UnsupportedFact
    <3>2. m.claim = Parts[l.claim][1]
      BY <1>3, <3>1 DEF Body, FactLabel
    <3>3. l.claim \notin Supported
      BY <2>1, <3>1, <3>2, ClaimAssumption
    <3>. QED BY <1>3, <3>1, <3>3 DEF UnsupportedFact, FactLabel
  <2>. QED BY <2>1, <2>2
<1>. QED BY <1>1, <1>2, <1>3 DEF Replacements

\* The repair of an answer without a fault has none.
LEMMA FaultlessStays ==
  ASSUME NEW t, NEW n, NEW r \in Answers, Faults(t, r) = {}
  PROVE  Faults(t, Repaired(t, n, r)) = {}
<1>. DEFINE c == Repaired(t, n, r)
<1>1. r \in Seq(Line)
  BY AnswersAssumption
<1>2. \A j \in DOMAIN r : /\ ~BadQuantity(t, r[j]) /\ ~UnsupportedFact(t, r[j])
                          /\ r[j].claim \notin WrongSum
  BY <1>1, FaultlessIs
<1>3. Meets(c)
  BY RepairedMeets
<1>4. PICK s \in [WrittenLines(c) -> WrittenLines(r)] : Repairs(s, t, n, r, c)
  BY RepairedIs
<1>. HIDE DEF c
<1>5. /\ c \in Seq(Line) /\ Proper(c)
      /\ \A i \in WrittenLines(c) : \E w \in Replacements(r[s[i]]) : Body(c[i]) \in w
      /\ \A j \in WrittenLines(r) : BadQuantity(t, r[j]) \/ Kept(s, r, c, j)
      /\ \A i \in WrittenLines(c) : i \in DOMAIN c
      /\ \A j \in WrittenLines(r) : j \in DOMAIN r
  BY <1>4 DEF Repairs, WrittenLines
<1>6. ~Unwritten(c)
  <2>1. PICK j \in DOMAIN r : r[j].claim # NoClaim
    BY AnswersAssumption
  <2>2. j \in WrittenLines(r)
    BY <2>1 DEF WrittenLines, IsBlank
  <2>3. PICK w \in Replacements(r[j]) : \A body \in w : \E i \in WrittenLines(c) : s[i] = j
    BY <1>2, <1>5, <2>1, <2>2 DEF Kept
  <2>4. w # {}
    BY ReplacedBySome
  <2>5. PICK i \in WrittenLines(c) : TRUE
    BY <2>3, <2>4
  <2>6. c[i] \in Range(c) /\ ~IsBlank(c[i])
    BY <1>5 DEF Range, WrittenLines
  <2>. QED BY <2>6 DEF Unwritten
<1>7. ASSUME NEW i \in DOMAIN c
      PROVE  /\ ~BadQuantity(t, c[i]) /\ ~UnsupportedFact(t, c[i])
             /\ c[i].claim \notin WrongSum
  <2>1. CASE i \in WrittenLines(c)
    <3>1. c[i] \in Line /\ s[i] \in DOMAIN r /\ r[s[i]] \in Line
      BY <1>1, <1>5, <2>1
    <3>2. PICK w \in Replacements(r[s[i]]) : Body(c[i]) \in w
      BY <1>5, <2>1
    <3>3. ~BadQuantity(t, c[i])
      BY <1>2, <3>1, <3>2, BadWeakens
    <3>. QED BY <1>2, <3>1, <3>2, <3>3, ReplacedNoWorse
  <2>2. CASE i \notin WrittenLines(c)
    <3>1. c[i].claim = NoClaim /\ c[i].label = "none"
      BY <1>5, <2>2 DEF WrittenLines, Proper, IsBlank, BlankLine
    <3>2. c[i].claim \notin Introducing /\ c[i].label \notin FactLabel
      BY <3>1, ClaimAssumption DEF FactLabel
    <3>. QED BY <3>2, ClaimAssumption DEF BadQuantity, UnsupportedFact
  <2>. QED BY <2>1, <2>2
<1>8. Faults(t, c) = {}
  BY <1>3, <1>5, <1>6, <1>7, FaultlessIs
<1>. QED BY <1>8 DEF c

\* What a line announces by itself, and that it has a result, its replacements
\* announce, whatever becomes of its label.
Announces(o, said) == o \in Marks[said] \/ (o = "result" /\ said \in Introducing)

LEMMA ReplacedAnnounces ==
  ASSUME NEW l \in Line, NEW w \in Replacements(l), NEW o, o \notin DOMAIN Window,
         Announces(o, l.claim)
  PROVE  \E body \in w : Announces(o, body[2])
<1>1. CASE \E body \in w : body[2] = l.claim
  BY <1>1
<1>2. CASE \E label \in {"fact", "inference"}, c \in {l.claim} \cap DOMAIN Parts :
             w = {<<label, Parts[c][1]>>, <<"conclusion", Parts[c][2]>>}
  <2>1. PICK label \in {"fact", "inference"}, c \in {l.claim} \cap DOMAIN Parts :
          w = {<<label, Parts[c][1]>>, <<"conclusion", Parts[c][2]>>}
    BY <1>2
  <2>2. c = l.claim /\ c \in DOMAIN Parts /\ c \notin Introducing
    BY ClaimAssumption
  <2>3. o \in Marks[c] \ DOMAIN Window
    BY <2>2 DEF Announces
  <2>4. o \in Marks[Parts[c][1]] \cup Marks[Parts[c][2]]
    BY <2>2, <2>3, ClaimAssumption
  <2>5. <<label, Parts[c][1]>> \in w /\ <<"conclusion", Parts[c][2]>> \in w
    BY <2>1
  <2>. QED BY <2>4, <2>5 DEF Announces
<1>3. \/ \E body \in w : body[2] = l.claim
      \/ \E label \in {"fact", "inference"}, c \in {l.claim} \cap DOMAIN Parts :
           w = {<<label, Parts[c][1]>>, <<"conclusion", Parts[c][2]>>}
  <2>1. CASE w = {Body(l)}
    BY <2>1 DEF Body
  <2>2. CASE w = {<<"inference", l.claim>>}
    BY <2>2
  <2>. QED BY <2>1, <2>2 DEF Replacements
<1>. QED BY <1>1, <1>2, <1>3

\* What the repair of an answer can take from it: the label of its facts, and
\* if it cuts a line in two what stood close together.
Losable(r, c) ==
  {<<"obligation", "fact">> : l \in {m \in Range(r) : m.label = "fact"}}
  \cup IF ClaimsOf(c) = ClaimsOf(r) THEN {}
       ELSE {<<"obligation", o>> : o \in DOMAIN Window} \cup {<<"direction">>}

Present(o, a) == \E l \in Range(a) : Shows(o, l)

\* So the final expert misses nothing else that it did not miss before.
LEMMA LittleIsLost ==
  ASSUME NEW t, NEW n, NEW r \in Answers, Faults(t, r) = {}, NEW c, c = Repaired(t, n, r)
  PROVE  MissingObligations(t, c) \subseteq MissingObligations(t, r) \cup Losable(r, c)
<1>1. r \in Seq(Line) /\ Proper(r)
  BY AnswersAre
<1>2. \A j \in DOMAIN r : ~BadQuantity(t, r[j])
  BY <1>1, FaultlessIs
<1>3. PICK s \in [WrittenLines(c) -> WrittenLines(r)] : Repairs(s, t, n, r, c)
  BY RepairedIs
<1>4. \A j \in WrittenLines(r) : j \in DOMAIN r /\ Kept(s, r, c, j)
  BY <1>2, <1>3 DEF Repairs, WrittenLines
<1>. DEFINE shown(o, a) == IF o \in DOMAIN Window THEN Together(o, ClaimsOf(a)) ELSE Present(o, a)
            waived(o, a) == \/ o = "calculated" /\ ~t.derivation
                            \/ o = "fact" /\ t.experience /\ shown("experience", a)
            lacks(o, a) == o \in t.obligations /\ ~shown(o, a) /\ ~waived(o, a)
            misleads(a) == Range(ClaimsOf(a)) \cap Misdirected # {}
<1>5. \A a, x : x \in MissingObligations(t, a) <=>
        \/ \E o : lacks(o, a) /\ x = <<"obligation", o>>
        \/ misleads(a) /\ x = <<"direction">>
  BY DEF MissingObligations, Present, Flag
<1>6. ASSUME NEW o, o \notin DOMAIN Window, NEW l \in Range(r), Announces(o, l.claim)
      PROVE  Present(o, c)
  <2>1. PICK j \in DOMAIN r : r[j] = l
    BY DEF Range
  <2>2. j \in WrittenLines(r)
    BY <1>6, <2>1, ClaimAssumption DEF WrittenLines, IsBlank, Announces
  <2>3. PICK w \in Replacements(l) :
          \A body \in w : \E i \in WrittenLines(c) : s[i] = j /\ Body(c[i]) = body
    BY <1>4, <2>1, <2>2 DEF Kept
  <2>4. l \in Line
    BY <1>1, <2>1
  <2>5. PICK body \in w : Announces(o, body[2])
    BY <1>6, <2>4, ReplacedAnnounces
  <2>6. PICK i \in WrittenLines(c) : Body(c[i]) = body
    BY <2>3
  <2>7. c[i].claim = body[2] /\ c[i] \in Range(c)
    BY <2>6 DEF Body, Range, WrittenLines
  <2>. QED BY <2>5, <2>7 DEF Present, Shows, Announces
<1>7. ASSUME NEW l \in Range(r), l.label = "boldFact" PROVE Present("fact", c)
  <2>1. PICK j \in DOMAIN r : r[j] = l
    BY DEF Range
  <2>2. j \in WrittenLines(r)
    BY <1>1, <1>7, <2>1 DEF WrittenLines, Proper, BlankLine
  <2>3. Replacements(l) = {{Body(l)}}
    BY <1>7 DEF Replacements
  <2>4. PICK i \in WrittenLines(c) : Body(c[i]) = Body(l)
    BY <1>4, <2>1, <2>2, <2>3 DEF Kept
  <2>5. c[i].label = "boldFact" /\ c[i] \in Range(c)
    BY <1>7, <2>4 DEF Body, Range, WrittenLines
  <2>. QED BY <2>5 DEF Present, Shows, FactLabel
<1>8. ASSUME NEW o, o \notin DOMAIN Window, o # "fact", Present(o, r) PROVE Present(o, c)
  BY <1>6, <1>8 DEF Present, Shows, Announces
<1>9. {"fact", "experience"} \cap DOMAIN Window = {}
  BY ClaimAssumption
<1>10. ClaimsOf(c) = ClaimsOf(r) =>
         /\ \A o \in DOMAIN Window : shown(o, c) <=> shown(o, r)
         /\ misleads(c) <=> misleads(r)
  OBVIOUS
<1>11. ASSUME NEW o, lacks(o, c), ~lacks(o, r), <<"obligation", o>> \notin Losable(r, c)
       PROVE  FALSE
  <2>1. CASE o \in DOMAIN Window
    <3>1. ClaimsOf(c) = ClaimsOf(r)
      BY <1>11, <2>1 DEF Losable
    <3>2. o # "fact"
      BY <1>9, <2>1
    <3>. QED BY <1>10, <1>11, <2>1, <3>1, <3>2
  <2>2. CASE o \notin DOMAIN Window /\ o # "fact"
    BY <1>8, <1>11, <2>2
  <2>3. CASE o = "fact"
    <3>1. ~Present("fact", c) /\ (t.experience => ~Present("experience", c))
      BY <1>9, <1>11, <2>3
    <3>2. \/ Present("fact", r)
          \/ t.experience /\ Present("experience", r)
      BY <1>9, <1>11, <2>3
    <3>3. CASE Present("fact", r)
      <4>1. PICK l \in Range(r) : Shows("fact", l)
        BY <3>3 DEF Present
      <4>2. CASE "fact" \in Marks[l.claim]
        BY <1>6, <1>9, <3>1, <4>2 DEF Announces
      <4>3. CASE l.label = "boldFact"
        BY <1>7, <3>1, <4>3
      <4>4. CASE l.label = "fact"
        BY <1>11, <2>3, <4>4 DEF Losable
      <4>. QED BY <4>1, <4>2, <4>3, <4>4 DEF Shows, FactLabel
    <3>4. CASE t.experience /\ Present("experience", r)
      BY <1>8, <1>9, <3>1, <3>4
    <3>. QED BY <3>2, <3>3, <3>4
  <2>. QED BY <2>1, <2>2, <2>3
<1>12. ASSUME misleads(c), ~misleads(r) PROVE <<"direction">> \in Losable(r, c)
  BY <1>10, <1>12 DEF Losable
<1>. HIDE DEF shown, waived, lacks, misleads
<1>. QED BY <1>5, <1>11, <1>12

(***************************************************************************)
(* The text of an attempt, layer by layer                                  *)
(***************************************************************************)
\* The answer is the raw text as far as the layers have repaired it, and a raw
\* text without a fault passes all gates before the last.
TextInv ==
  /\ pc = "answered" => raw \in Answers /\ answer = raw
  /\ pc = "relabelled" => raw \in Answers /\ answer = DerivedRelabelled(raw)
  /\ pc \in {"unrepaired", "undecided", "accepted", "done"} =>
       raw \in Answers /\ answer = Repaired(task, node, raw)
  /\ pc \notin {"call", "done"} /\ ~truncated /\ Faults(task, raw) = {} =>
       status = "passed" /\ gate_reasons = {}
  /\ pc = "done" /\ ~truncated /\ Faults(task, raw) = {} =>
       /\ status # "passed" => gate_reasons # {}
       /\ gate_reasons # {} => node.final
       /\ gate_reasons \subseteq MissingObligations(task, answer)

LEMMA TextRespond == Respond => TextInv'
<1>. SUFFICES ASSUME Respond PROVE TextInv'
  OBVIOUS
<1>. PICK a \in Answers, cut \in BOOLEAN :
       /\ raw' = a /\ answer' = a /\ truncated' = cut
       /\ gate_reasons' = QualityViolations(a, cut)
       /\ status' = IF QualityViolations(a, cut) = {}
                    THEN "passed" ELSE "quality_gate_failed"
  BY DEF Respond
<1>1. pc' = "answered" /\ task' = task
  BY DEF Respond
<1>2. ~cut /\ Faults(task, a) = {} => QualityViolations(a, cut) = {}
  BY DEF Faults
<1>. QED BY <1>1, <1>2 DEF TextInv

LEMMA TextRelabel == TextInv /\ Relabel => TextInv'
BY DEF TextInv, Relabel

LEMMA TextNormalize == TextInv /\ Normalize => TextInv'
<1>. SUFFICES ASSUME TextInv, Normalize PROVE TextInv'
  OBVIOUS
<1>. DEFINE violations == QualityViolations(answer', FALSE)
                          \cup EvidenceViolations(task, answer')
            repairable == status = "passed" \/ category = "QUALITY_GATE_FAILED"
<1>1. /\ UNCHANGED <<task, node, raw, truncated>> /\ pc = "relabelled"
      /\ raw \in Answers /\ answer' = Repaired(task, node, raw)
  BY DEF Normalize, TextInv, Repaired
<1>2. Faults(task, raw) = {} => violations = {}
  BY <1>1, FaultlessStays DEF Faults
<1>3. \/ pc' = "unrepaired" /\ UNCHANGED <<status, gate_reasons>>
      \/ pc' = "unrepaired" /\ violations # {}
      \/ pc' = "accepted" /\ status' = "passed" /\ gate_reasons' = {}
  BY DEF Normalize, Pass
<1>. QED BY <1>1, <1>2, <1>3 DEF TextInv

LEMMA TextDemote == TextInv /\ Demote => TextInv'
<1>. SUFFICES ASSUME TextInv, Demote PROVE TextInv'
  OBVIOUS
<1>1. /\ UNCHANGED <<task, node, raw, answer, truncated>> /\ pc = "unrepaired"
      /\ \/ pc' = "accepted" /\ status' = "passed" /\ gate_reasons' = {}
         \/ pc' = "undecided" /\ UNCHANGED <<status, gate_reasons>>
  BY DEF Demote, Pass
<1>. QED BY <1>1 DEF TextInv

LEMMA TextJudge == TextInv /\ Judge => TextInv'
<1>. SUFFICES ASSUME TextInv, Judge PROVE TextInv'
  OBVIOUS
<1>. DEFINE violations == ContractViolations(answer) \cup EvidenceViolations(task, answer)
<1>1. /\ UNCHANGED <<task, node, raw, answer, truncated>>
      /\ pc = "undecided" /\ pc' = "accepted"
      /\ gate_reasons' = gate_reasons \cup violations /\ Fail(violations)
  BY DEF Judge
<1>2. raw \in Answers /\ answer = Repaired(task, node, raw)
  BY <1>1 DEF TextInv
<1>3. Faults(task, raw) = {} => violations = {}
  BY <1>2, FaultlessStays DEF Faults, QualityViolations
<1>4. violations = {} => status' = status /\ gate_reasons' = gate_reasons
  BY <1>1 DEF Fail
<1>. QED BY <1>1, <1>3, <1>4 DEF TextInv

LEMMA TextFinalGate == TextInv /\ FinalGate => TextInv'
<1>. SUFFICES ASSUME TextInv, FinalGate PROVE TextInv'
  OBVIOUS
<1>. DEFINE missing == IF node.final /\ ~Unwritten(answer)
                       THEN MissingObligations(task, answer) ELSE {}
<1>1. /\ UNCHANGED <<task, node, raw, answer, truncated>>
      /\ pc = "accepted" /\ pc' = "done"
      /\ gate_reasons' = gate_reasons \cup missing /\ Fail(missing)
  BY DEF FinalGate
<1>2. ASSUME ~truncated, Faults(task, raw) = {}
      PROVE  /\ gate_reasons' = missing
             /\ status' # "passed" => missing # {}
  BY <1>1, <1>2 DEF TextInv, Fail
<1>3. /\ missing # {} => node.final
      /\ missing \subseteq MissingObligations(task, answer)
  OBVIOUS
<1>4. MissingObligations(task, answer)' = MissingObligations(task, answer)
  BY <1>1
<1>5. Faults(task, raw)' = Faults(task, raw)
  BY <1>1
<1>6. Repaired(task, node, raw)' = Repaired(task, node, raw)
  BY <1>1
<1>. HIDE DEF missing
<1>. QED BY <1>1, <1>2, <1>3, <1>4, <1>5, <1>6 DEF TextInv

LEMMA TextInvariance == Spec => []TextInv
<1>1. Init => TextInv
  BY DEF Init, TextInv
<1>2. TextInv /\ [Next]_vars => TextInv'
  <2>1. TextInv /\ UNCHANGED vars => TextInv'
    <3>. SUFFICES ASSUME TextInv, UNCHANGED vars PROVE TextInv'
      OBVIOUS
    <3>1. UNCHANGED <<pc, task, node, raw, truncated, answer, status, gate_reasons>>
      BY DEF vars
    <3>2. /\ Faults(task, raw)' = Faults(task, raw)
          /\ Repaired(task, node, raw)' = Repaired(task, node, raw)
          /\ MissingObligations(task, answer)' = MissingObligations(task, answer)
          /\ DerivedRelabelled(raw)' = DerivedRelabelled(raw)
      BY <3>1
    <3>. QED BY <3>1, <3>2 DEF TextInv
  <2>. QED BY <2>1, TextRespond, TextRelabel, TextNormalize, TextDemote, TextJudge,
              TextFinalGate DEF Next
<1>. QED BY <1>1, <1>2, PTL DEF Spec

\* ContentKept: what the raw text says under a heading is said there, and
\* nothing else, in the text that leaves the attempt.
THEOREM ContentKeptSafe == Spec => []ContentKept
<1>1. TextInv => ContentKept
  <2>. SUFFICES ASSUME TextInv, Over PROVE ContentKept
    BY DEF ContentKept
  <2>. QED BY RepairKeepsContent DEF TextInv, Over
<1>. QED BY <1>1, TextInvariance, PTL

\* PassLostOnlyToTheRepair: what a usable answer can lose to its repair.
LEMMA PassKept == TextInv => PassLostOnlyToTheRepair
<1>. SUFFICES ASSUME TextInv, Over, ~truncated, status # "passed",
                     Faults(task, raw) = {}, node.final => MissingObligations(task, raw) = {}
              PROVE  node.final /\ gate_reasons # {} /\ gate_reasons \subseteq Losable(raw, answer)
  BY DEF PassLostOnlyToTheRepair, Faults, Losable
<1>1. /\ raw \in Answers /\ answer = Repaired(task, node, raw) /\ gate_reasons # {}
      /\ node.final /\ gate_reasons \subseteq MissingObligations(task, answer)
  BY DEF TextInv, Over
<1>2. MissingObligations(task, answer) \subseteq Losable(raw, answer)
  BY <1>1, LittleIsLost
<1>. QED BY <1>1, <1>2

\* WarningForgivenOnlyIfNormalized: the lone fact-label warning of a work
\* product fails its attempt exactly when the normalizer had nothing to do.
LEMMA WarningForgiven == Inv /\ TextInv => WarningForgivenOnlyIfNormalized
<1>. SUFFICES ASSUME Inv, TextInv, Over, ~node.final, ~truncated,
                     ContractViolations(answer) = {},
                     EvidenceViolations(task, answer) = {Unsupported}
              PROVE  status = "passed" <=> normalized
  BY DEF WarningForgivenOnlyIfNormalized
<1>1. Proper(answer)
  <2>1. raw \in Answers /\ answer = Repaired(task, node, raw)
    BY DEF TextInv, Over
  <2>. QED BY <2>1, RepairedIs DEF Repairs
<1>2. PICK i \in DOMAIN answer : UnsupportedFact(task, answer[i])
  <2>. DEFINE known == \E l \in Range(answer) : UnsupportedFact(task, l)
  <2>1. known
    <3>. SUFFICES ASSUME ~known PROVE FALSE
      OBVIOUS
    <3>1. Unsupported \notin EvidenceViolations(task, answer)
      BY DEF EvidenceViolations, Flag, Unsupported
    <3>. QED BY <3>1
  <2>. QED BY <2>1 DEF Range
<1>3. ~IsBlank(answer[i])
  BY <1>1, <1>2 DEF Proper, UnsupportedFact, BlankLine, FactLabel
<1>4. ~Unwritten(answer)
  BY <1>3 DEF Unwritten, Range
<1>5. Judged(answer) = {Unsupported}
  BY <1>4 DEF Judged, QualityViolations, Flag
<1>. QED BY <1>5 DEF Inv, Over

\* RepairLosesLittle: a usable answer is repaired into a failure only by the
\* label of its facts or by cutting a line in two, and the lone warning is
\* forgiven by one rule.
THEOREM RepairLosesLittleSafe == Spec => []RepairLosesLittle
<1>1. Inv /\ TextInv => RepairLosesLittle
  BY PassKept, WarningForgiven DEF RepairLosesLittle
<1>. QED BY <1>1, Invariance, TextInvariance, PTL

(***************************************************************************)
(* What a final expert is held to                                          *)
(***************************************************************************)
OnceEach(names) == \A i, j \in DOMAIN names : names[i] = names[j] => i = j
Listing(s) == Len(s) \in Nat /\ DOMAIN s = 1 .. Len(s)

\* Every reading of the ticket's headings is checked for repetitions.
LEMMA HeadingsOnce ==
  ASSUME NEW lines
  PROVE  OnceEach(MarkdownContract(lines))
<1>1. \A names, n : OnceEach(ValidHeadings(names, n))
  BY DEF ValidHeadings, OnceEach
<1>2. OnceEach(<<>>)
  BY DEF OnceEach
<1>3. \A w : OnceEach(Announced(lines, w))
  BY <1>1, <1>2 DEF Announced
<1>4. /\ OnceEach(InlineDelimited(lines)) /\ OnceEach(MustContain(lines))
      /\ OnceEach(InlineInferred(lines)) /\ OnceEach(CuedNumbered(lines))
  BY <1>1, <1>2, <1>3 DEF InlineDelimited, MustContain, InlineInferred, CuedNumbered
<1>. DEFINE readings == <<InlineDelimited(lines), InlineInferred(lines), MustContain(lines),
                          CuedNumbered(lines)>>
            found == {i \in DOMAIN readings : readings[i] # <<>>}
<1>5. DOMAIN readings = 1 .. 4
  OBVIOUS
<1>6. \A i \in 1 .. 4 : OnceEach(readings[i])
  BY <1>4
<1>7. MarkdownContract(lines) = IF found = {} THEN <<>> ELSE readings[Min(found)]
  BY DEF MarkdownContract
<1>8. found # {} => Min(found) \in found
  <2>1. found \in SUBSET Nat
    BY <1>5
  <2>. HIDE DEF found
  <2>. QED BY <2>1, MinOf
<1>9. found # {} => Min(found) \in 1 .. 4
  BY <1>5, <1>8
<1>. HIDE DEF found, readings
<1>. QED BY <1>2, <1>6, <1>7, <1>9

\* The parts of the contract are those read, and what is required follows them.
Consistent(c) ==
  /\ c.fields # <<>> => c.required = [i \in DOMAIN c.fields |-> <<c.fields[i]>>]
  /\ c.fields = <<>> /\ c.headings # <<>> => c.required = c.headings
  /\ c.fields = <<>> /\ c.headings = <<>> => c.required = Outputs
  /\ OnceEach(c.headings)
  /\ \A n \in c.nested : n[1] \in Range(c.fields)
  /\ \A m, n \in c.nested : m[1] = n[1] => m = n
  /\ c.nested # {} => c.fields # <<>>

\* Each field is spelled out once, by the last line that does.
LEMMA NestedIs ==
  ASSUME NEW lines \in Seq(TaskLine), NEW json, json = JsonContract(lines)
  PROVE  /\ \A n \in json.nested : n[1] \in Range(json.fields)
         /\ \A m, n \in json.nested : m[1] = n[1] => m = n
         /\ json.nested # {} => json.fields # <<>>
<1>. DEFINE found  == LinesWith(lines, "json")
            fields == IF found = {} THEN <<>> ELSE Keyed(lines[Min(found)].tail)
            field(i) == Last(lines[i].lead)
            keys(i)  == Range(Keyed(lines[i].tail)) \ {field(i)}
            inner  == {i \in LinesWith(lines, "nested") \cup LinesWith(lines, "objects") :
                         /\ lines[i].lead # <<>> /\ field(i) \in Range(fields)
                         /\ Cardinality(keys(i)) >= 2}
            final  == {i \in inner : \A j \in inner : field(j) = field(i) => j <= i}
<1>1. json = [fields |-> fields,
              nested |-> IF fields = <<>> THEN {} ELSE {<<field(i), keys(i)>> : i \in final},
              objects |-> {field(i) : i \in inner \cap LinesWith(lines, "objects")}]
  BY DEF JsonContract
<1>2. \A i \in final : i \in inner /\ field(i) \in Range(fields)
  OBVIOUS
<1>3. \A i \in inner : i \in Nat
  BY DEF LinesWith
<1>4. \A i, j \in final : field(i) = field(j) => i = j
  <2>1. \A i, j \in final : field(i) = field(j) => i <= j /\ j <= i
    OBVIOUS
  <2>. HIDE DEF final, field, inner
  <2>. QED BY <1>2, <1>3, <2>1
<1>5. json.fields = fields /\ \A n \in json.nested : \E i \in final : n = <<field(i), keys(i)>>
  <2>. HIDE DEF fields, final, field, keys
  <2>. QED BY <1>1
<1>6. json.nested # {} => fields # <<>>
  <2>. HIDE DEF fields, final, field, keys
  <2>. QED BY <1>1
<1>. HIDE DEF fields, final, field, keys
<1>. QED BY <1>2, <1>4, <1>5, <1>6

LEMMA ExplicitIs ==
  ASSUME NEW lines \in Seq(TaskLine), NEW c, c = Explicit(lines)
  PROVE  Consistent(c)
<1>. DEFINE json     == JsonContract(lines)
            headings == MarkdownContract(lines)
<1>1. /\ c.fields = json.fields /\ c.nested = json.nested /\ c.headings = headings
      /\ c.required = CASE json.fields # <<>> -> [i \in DOMAIN json.fields |-> <<json.fields[i]>>]
                        [] json.fields = <<>> /\ headings # <<>> -> headings
                        [] OTHER -> Outputs
  BY DEF Explicit
<1>2. OnceEach(headings)
  BY HeadingsOnce
<1>3. /\ \A n \in json.nested : n[1] \in Range(json.fields)
      /\ \A m, n \in json.nested : m[1] = n[1] => m = n
      /\ json.nested # {} => json.fields # <<>>
  BY NestedIs
<1>. HIDE DEF json, headings
<1>. QED BY <1>1, <1>2, <1>3 DEF Consistent

(***************************************************************************)
(* From the ticket to the verdict                                          *)
(***************************************************************************)
ContractInv ==
  /\ ticket \in Tickets
  /\ stage \in {"ticket", "planned", "asked", "judged"}
  /\ stage = "ticket" => contract = [r \in Reader |-> Generic]
  /\ stage # "ticket" =>
       contract = [r \in Reader |-> WorkOutputContract(FullTask(ticket), r = "final")]
  /\ stage \in {"asked", "judged"} =>
       seen = [r \in Reader |-> ProjectTask(BusinessTask(ticket), contract[r])]
  /\ stage = "judged" => /\ reply \in Replies(contract["final"])
                         /\ verdict = AnswerViolations(contract["final"], reply)

LEMMA ContractInvariant == ContractSpec => []ContractInv
<1>1. ContractInit => ContractInv
  BY DEF ContractInit, ContractInv
<1>2. ContractInv /\ [NextContract]_contractVars => ContractInv'
  <2>. SUFFICES ASSUME ContractInv, [NextContract]_contractVars PROVE ContractInv'
    OBVIOUS
  <2>1. CASE Materialize
    BY <2>1 DEF ContractInv, Materialize
  <2>2. CASE Project
    BY <2>2 DEF ContractInv, Project
  <2>3. CASE Answered
    <3>1. /\ UNCHANGED <<ticket, contract, seen>> /\ stage = "asked" /\ stage' = "judged"
          /\ reply' \in Replies(contract["final"])
          /\ verdict' = AnswerViolations(contract["final"], reply')
      BY <2>3 DEF Answered
    <3>2. /\ reply' \in Replies(contract'["final"])
          /\ verdict' = AnswerViolations(contract'["final"], reply')
      BY <3>1
    <3>. QED BY <3>1, <3>2 DEF ContractInv
  <2>4. CASE UNCHANGED contractVars
    <3>1. UNCHANGED <<ticket, stage, contract, seen, reply, verdict>>
      BY <2>4 DEF contractVars
    <3>. QED BY <3>1 DEF ContractInv
  <2>. QED BY <2>1, <2>2, <2>3, <2>4 DEF NextContract
<1>. QED BY <1>1, <1>2, PTL DEF ContractSpec

\* A ticket is lines, and so is what a node may see of it.
LEMMA TicketLines ==
  ASSUME NEW t \in Tickets
  PROVE  /\ t.question \in Seq(TaskLine) /\ t.requirements \in Seq(TaskLine)
         /\ t.evidence \in Seq(TaskLine) /\ t.question # <<>>
         /\ FullTask(t) \in Seq(TaskLine)
<1>1. t \in [question : Seq(TaskLine) \ {<<>>}, requirements : Seq(TaskLine),
            evidence : Seq(TaskLine)]
  BY TicketAssumption
<1>2. /\ t.question \in Seq(TaskLine) /\ t.requirements \in Seq(TaskLine)
      /\ t.evidence \in Seq(TaskLine) /\ t.question # <<>>
  BY <1>1
<1>. QED BY <1>2 DEF FullTask

\* The contract of the final expert is read from the whole ticket.
LEMMA FinalContract ==
  ASSUME ContractInv, stage # "ticket"
  PROVE  contract["final"] = Explicit(FullTask(ticket)) /\ Consistent(contract["final"])
<1>1. contract["final"] = WorkOutputContract(FullTask(ticket), TRUE)
  BY DEF ContractInv, Reader
<1>2. contract["final"] = Explicit(FullTask(ticket))
  BY <1>1 DEF WorkOutputContract
<1>. QED BY <1>2, TicketLines, ExplicitIs DEF ContractInv

(***************************************************************************)
(* Answers that follow the contract                                        *)
(***************************************************************************)
\* Sections under each heading in its order meet the gate for sections.
LEMMA SectionsAccepted ==
  ASSUME NEW c, NEW a, OnceEach(HeldHeadings(c)), Listing(HeldHeadings(c)),
         a.sections = [i \in DOMAIN HeldHeadings(c) |->
                         [heading |-> HeldHeadings(c)[i], filled |-> TRUE]]
  PROVE  MarkdownViolations(c, a) = {}
<1>. DEFINE held     == HeldHeadings(c)
            under(h) == {i \in DOMAIN a.sections : a.sections[i].heading = h}
            first(h) == Min(under(h))
            found    == {h \in Range(held) : under(h) # {}}
            disorder == /\ found = Range(held)
                        /\ \E i \in 1 .. Len(held) - 1 : first(held[i]) > first(held[i + 1])
<1>1. MarkdownViolations(c, a) =
        {<<"missing", h>> : h \in Range(held) \ found}
        \cup {<<"duplicate", h>> : h \in {g \in found : Cardinality(under(g)) > 1}}
        \cup {<<"empty", h>> : h \in {g \in found : ~a.sections[first(g)].filled}}
        \cup Because(disorder, <<"order">>)
  BY DEF MarkdownViolations
<1>2. Len(held) \in Nat /\ DOMAIN held = 1 .. Len(held) /\ DOMAIN a.sections = DOMAIN held
  BY DEF Listing
<1>3. \A i \in DOMAIN held : under(held[i]) = {i} /\ a.sections[i].filled
  BY DEF OnceEach
<1>4. \A h \in Range(held) : \E i \in DOMAIN held : held[i] = h
  BY DEF Range
<1>0. \A h : h \in found <=> h \in Range(held) /\ under(h) # {}
  OBVIOUS
<1>. HIDE DEF under, held
<1>5. \A i \in DOMAIN held : first(held[i]) = i /\ Cardinality(under(held[i])) = 1
  <2>. TAKE i \in DOMAIN held
  <2>1. {i} \in SUBSET Nat
    BY <1>2
  <2>2. Min({i}) \in {i}
    BY <2>1, MinOf
  <2>3. Cardinality({i}) = 1
    BY FS_Singleton
  <2>. QED BY <1>3, <2>2, <2>3
<1>. HIDE DEF first, found
<1>6. found = Range(held)
  <2>1. \A h \in Range(held) : under(h) # {}
    BY <1>3, <1>4
  <2>. QED BY <1>0, <2>1
<1>7. {g \in found : Cardinality(under(g)) > 1} = {}
  BY <1>4, <1>5, <1>6
<1>8. {g \in found : ~a.sections[first(g)].filled} = {}
  BY <1>3, <1>4, <1>5, <1>6
<1>9. ~disorder
  <2>1. \A i \in 1 .. Len(held) - 1 : i \in DOMAIN held /\ i + 1 \in DOMAIN held
    BY <1>2
  <2>2. \A i \in 1 .. Len(held) - 1 : ~(first(held[i]) > first(held[i + 1]))
    BY <1>5, <2>1
  <2>. QED BY <2>2
<1>. HIDE DEF disorder
<1>. QED BY <1>1, <1>6, <1>7, <1>8, <1>9 DEF Because

\* What stands inside the fields and no rule tells: values without content, and
\* other values where there should be objects.
Amiss(a, n, values) == Range(a.fields[n[1]].inner) \cap values # {}
Untold(c, a) ==
  {<<"inner-empty", n[1]>> : n \in {m \in c.nested : Amiss(a, m, Empty)}}
  \cup {<<"inner-objects", n[1]>> :
          n \in {m \in c.nested : m[1] \in c.objects /\ Amiss(a, m, Value \ Objects)}}

\* The object of the keys asked for, with the keys inside them, meets a contract
\* of keys alone but for what no rule tells.
LEMMA ObjectAccepted ==
  ASSUME NEW c, NEW a, Consistent(c), c.fields # <<>>, c.headings = <<>>, c.columns = <<>>,
         a.json, DOMAIN a.fields = Range(c.fields),
         \A f \in DOMAIN a.fields : a.fields[f].filled,
         \A n \in c.nested : DOMAIN a.fields[n[1]].inner = n[2]
  PROVE  AnswerViolations(c, a) \subseteq Untold(c, a)
<1>1. HeldHeadings(c) = <<>>
  BY DEF HeldHeadings, MachineReadable
<1>2. MarkdownViolations(c, a) = {}
  <2>1. Range(<<>>) = {} /\ 1 .. Len(<<>>) - 1 = {}
    BY DEF Range
  <2>. QED BY <1>1, <2>1 DEF MarkdownViolations, Because
<1>3. BaseViolations(c, a) = {}
  <2>1. \A x \in Range(c.required) : \E f \in Range(c.fields) : x = <<f>>
    BY DEF Consistent, Range
  <2>2. Range(c.required) \ Mentioned(a) = {}
    BY <2>1 DEF Mentioned
  <2>. QED BY <2>2 DEF BaseViolations, Because
<1>4. ParsedViolations(c, a) \subseteq Untold(c, a)
  <2>1. \A n \in c.nested : n[1] \in DOMAIN a.fields /\ DOMAIN a.fields[n[1]].inner = n[2]
    BY DEF Consistent
  <2>. DEFINE fields == Range(c.fields)
              inner(n) == IF n[1] \in DOMAIN a.fields THEN a.fields[n[1]].inner ELSE <<>>
              some(n, values) == \E k \in n[2] \cap DOMAIN inner(n) : inner(n)[k] \in values
  <2>2. \A n \in c.nested : inner(n) = a.fields[n[1]].inner
    BY <2>1
  <2>3. {m \in c.nested : DOMAIN inner(m) # m[2]} = {}
    BY <2>1, <2>2
  <2>4. {g \in fields \cap DOMAIN a.fields : ~a.fields[g].filled} = {}
    OBVIOUS
  <2>5. fields \ DOMAIN a.fields = {} /\ DOMAIN a.fields \ fields = {}
    OBVIOUS
  <2>6. \A n \in c.nested : \A values : some(n, values) => Amiss(a, n, values)
    BY <2>2 DEF Amiss, Range
  <2>7. ParsedViolations(c, a) =
          {<<"missing-key", f>> : f \in fields \ DOMAIN a.fields}
          \cup {<<"extra-key", f>> : f \in DOMAIN a.fields \ fields}
          \cup {<<"empty-key", f>> : f \in {g \in fields \cap DOMAIN a.fields : ~a.fields[g].filled}}
          \cup {<<"inner-keys", n[1]>> : n \in {m \in c.nested : DOMAIN inner(m) # m[2]}}
          \cup {<<"inner-empty", n[1]>> : n \in {m \in c.nested : some(m, Empty)}}
          \cup {<<"inner-objects", n[1]>> :
                  n \in {m \in c.nested : m[1] \in c.objects /\ some(m, Value \ Objects)}}
    BY DEF ParsedViolations
  <2>. HIDE DEF inner, fields, some
  <2>. QED BY <2>3, <2>4, <2>5, <2>6, <2>7 DEF Untold
<1>5. TableViolations(c, a) = {}
  BY DEF TableViolations, Because
<1>. QED BY <1>2, <1>3, <1>4, <1>5 DEF AnswerViolations, QualityGate

\* Where no keys are asked for, the sections leave only the table to be met.
LEMMA ReportAccepted ==
  ASSUME NEW c, NEW a, Consistent(c), c.fields = <<>>, Listing(c.headings),
         a.sections = [i \in DOMAIN HeldHeadings(c) |->
                         [heading |-> HeldHeadings(c)[i], filled |-> TRUE]]
  PROVE  AnswerViolations(c, a) = TableViolations(c, a)
<1>1. HeldHeadings(c) = c.required
  BY DEF HeldHeadings, MachineReadable, Consistent
<1>2. OnceEach(c.required) /\ Listing(c.required)
  <2>1. OnceEach(Outputs) /\ Listing(Outputs)
    BY TicketAssumption DEF OnceEach, Listing
  <2>2. c.required = c.headings \/ c.required = Outputs
    BY DEF Consistent
  <2>3. OnceEach(c.headings)
    BY DEF Consistent
  <2>. QED BY <2>1, <2>2, <2>3
<1>3. MarkdownViolations(c, a) = {}
  BY <1>1, <1>2, SectionsAccepted
<1>4. BaseViolations(c, a) = {}
  <2>1. \A x \in Range(c.required) : \E s \in Range(a.sections) : s.heading = x
    BY <1>1 DEF Range
  <2>2. Range(c.required) \ Mentioned(a) = {}
    BY <2>1 DEF Mentioned
  <2>. QED BY <2>2 DEF BaseViolations, MachineReadable, Because
<1>5. ParsedViolations(c, a) = {}
  BY DEF ParsedViolations
<1>. QED BY <1>3, <1>4, <1>5 DEF AnswerViolations, QualityGate, MachineReadable

(***************************************************************************)
(* Headings that the ticket lists                                          *)
(***************************************************************************)
Glued == [glue : {"list", "stop", "require"}, text : Text]

\* What stands before the first of some glues has none of them.
LEMMA BeforeIs ==
  ASSUME NEW tail \in Seq(Glued), NEW glues, NEW b, b = Before(tail, glues)
  PROVE  /\ b \in Seq(Glued) /\ Len(b) <= Len(tail)
         /\ \A i \in 1 .. Len(b) : b[i] = tail[i] /\ tail[i].glue \notin glues
         /\ Len(b) < Len(tail) => tail[Len(b) + 1].glue \in glues
<1>. DEFINE cuts == {k \in DOMAIN tail : tail[k].glue \in glues}
<1>1. Len(tail) \in Nat /\ DOMAIN tail = 1 .. Len(tail)
  OBVIOUS
<1>2. b = IF cuts = {} THEN tail ELSE SubSeq(tail, 1, Min(cuts) - 1)
  BY DEF Before
<1>3. CASE cuts = {}
  <2>1. \A i \in 1 .. Len(tail) : tail[i].glue \notin glues
    BY <1>1, <1>3
  <2>2. b = tail
    BY <1>2, <1>3
  <2>. QED BY <1>1, <2>1, <2>2
<1>4. CASE cuts # {}
  <2>1. cuts \in SUBSET Nat
    BY <1>1
  <2>. DEFINE m == Min(cuts)
  <2>2. m \in cuts /\ \A y \in cuts : m <= y
    <3>. HIDE DEF cuts
    <3>. QED BY <1>4, <2>1, MinOf
  <2>3. m \in 1 .. Len(tail) /\ tail[m].glue \in glues
    BY <1>1, <2>2
  <2>4. \A i \in 1 .. m - 1 : i \in 1 .. Len(tail) /\ tail[i].glue \notin glues
    <3>. SUFFICES ASSUME NEW i \in 1 .. m - 1, i \notin 1 .. Len(tail) \/ tail[i].glue \in glues
                  PROVE  FALSE
      OBVIOUS
    <3>1. i \in 1 .. Len(tail) /\ i < m
      BY <1>1, <2>3
    <3>2. i \in cuts
      BY <1>1, <3>1
    <3>. HIDE DEF m
    <3>. QED BY <2>2, <2>3, <3>1, <3>2
  <2>. HIDE DEF cuts, m
  <2>5. b = SubSeq(tail, 1, m - 1)
    BY <1>2, <1>4 DEF m
  <2>6. /\ b \in Seq(Glued) /\ Len(b) = m - 1
        /\ \A i \in 1 .. m - 1 : b[i] = tail[i]
    BY <1>1, <2>3, <2>5
  <2>7. Len(b) + 1 = m /\ Len(b) <= Len(tail)
    BY <1>1, <2>3, <2>6
  <2>. QED BY <2>3, <2>4, <2>6, <2>7
<1>. QED BY <1>3, <1>4

\* A list of positive numbers in order that has all up to K begins with them.
LEMMA BeginsWith ==
  ASSUME NEW S \in SUBSET Nat, 0 \notin S, NEW q, Risen(q, S), NEW K \in Nat, 1 .. K \subseteq S
  PROVE  \A i \in 1 .. K : i \in DOMAIN q /\ q[i] = i
<1>. DEFINE T == {i \in 1 .. K : ~(i \in DOMAIN q /\ q[i] = i)}
<1>1. SUFFICES ASSUME T # {} PROVE FALSE
  OBVIOUS
<1>2. PICK n \in T : \A m \in T : n <= m
  <2>1. T \in SUBSET Nat
    OBVIOUS
  <2>. HIDE DEF T
  <2>. QED BY <1>1, <2>1, LeastOf
<1>3. n \in 1 .. K /\ ~(n \in DOMAIN q /\ q[n] = n)
  OBVIOUS
<1>4. \A m \in 1 .. n - 1 : m \in DOMAIN q /\ q[m] = m
  <2>. TAKE m \in 1 .. n - 1
  <2>1. m \in 1 .. K /\ ~(n <= m)
    BY <1>3
  <2>. QED BY <1>2, <2>1
<1>5. /\ Cardinality(S) \in Nat /\ DOMAIN q = 1 .. Cardinality(S)
      /\ \A i, j \in DOMAIN q : i < j => q[i] < q[j]
      /\ \A i \in DOMAIN q : q[i] \in S
      /\ \A x \in S : \E i \in DOMAIN q : q[i] = x
  BY DEF Risen, Range
<1>. HIDE DEF T
<1>6. PICK k \in DOMAIN q : q[k] = n
  BY <1>3, <1>5
<1>7. k >= n
  <2>. SUFFICES ASSUME k < n PROVE FALSE
    BY <1>3, <1>5
  <2>1. k \in 1 .. n - 1
    BY <1>3, <1>5
  <2>. QED BY <1>3, <1>4, <1>6, <2>1
<1>8. n \in DOMAIN q /\ q[n] # n /\ n < k
  BY <1>3, <1>5, <1>6, <1>7
<1>9. q[n] < n /\ q[n] \in S /\ q[n] \in 1 .. n - 1
  <2>1. q[n] < n /\ q[n] \in S
    BY <1>5, <1>6, <1>8
  <2>2. q[n] \in Nat /\ q[n] # 0
    BY <2>1
  <2>. QED BY <1>3, <2>1, <2>2
<1>10. q[q[n]] = q[n] /\ q[n] \in DOMAIN q
  BY <1>4, <1>9
<1>11. q[q[n]] < q[n]
  BY <1>5, <1>8, <1>9, <1>10
<1>. QED BY <1>9, <1>10, <1>11

Cut(names, pieces, q, n) ==
  (IF n + 1 \in 1 .. Len(names) THEN q[n + 1] ELSE Len(pieces) + 1) - q[n]
NamesMade(names, pieces, q, S) ==
  /\ Risen(q, S) /\ Listing(names) /\ Len(names) = Cardinality(S)
  /\ \A n \in 1 .. Len(names) :
       /\ Cut(names, pieces, q, n) \in Nat \ {0} /\ q[n] \in 1 .. Len(pieces)
       /\ names[n] = [k \in 1 .. Cut(names, pieces, q, n) |-> pieces[q[n] + k - 1].text]

\* Names are a list, of the texts from each piece that begins one up to the next.
LEMMA NamesAre ==
  ASSUME NEW pieces \in Seq(Glued), NEW glues,
         NEW S, S = {i \in DOMAIN pieces : pieces[i].glue \in glues},
         NEW q, q = Ascending(S), NEW names, names = Names(pieces, glues)
  PROVE  NamesMade(names, pieces, q, S)
<1>1. Len(pieces) \in Nat /\ DOMAIN pieces = 1 .. Len(pieces)
  OBVIOUS
<1>2. S \in SUBSET Nat /\ IsFiniteSet(S) /\ \A i \in S : i \in 1 .. Len(pieces)
  <2>1. S \subseteq 1 .. Len(pieces)
    BY <1>1
  <2>2. IsFiniteSet(1 .. Len(pieces))
    BY <1>1, UpToCount
  <2>3. IsFiniteSet(S)
    BY <2>1, <2>2, FS_Subset
  <2>. QED BY <1>1, <2>1, <2>3
<1>3. Risen(q, S)
  BY <1>2, AscendingIs
<1>. DEFINE N == Cardinality(S)
            size(n) == (IF n + 1 \in DOMAIN q THEN q[n + 1] ELSE Len(pieces) + 1) - q[n]
            name(n) == [k \in 1 .. size(n) |-> pieces[q[n] + k - 1].text]
<1>4. names = [n \in DOMAIN q |-> name(n)]
  BY DEF Names
<1>5. N \in Nat /\ DOMAIN q = 1 .. N
  BY <1>3 DEF Risen
<1>6. \A n \in 1 .. N : q[n] \in 1 .. Len(pieces)
  BY <1>2, <1>3, <1>5 DEF Risen, Range
<1>7. \A n \in 1 .. N : size(n) \in Nat \ {0}
  <2>. TAKE n \in 1 .. N
  <2>1. CASE n + 1 \in DOMAIN q
    <3>1. n \in DOMAIN q /\ n < n + 1
      BY <1>5
    <3>2. q[n] < q[n + 1] /\ q[n] \in Nat /\ q[n + 1] \in Nat
      BY <1>3, <1>5, <1>6, <2>1, <3>1 DEF Risen
    <3>. QED BY <2>1, <3>2
  <2>2. CASE n + 1 \notin DOMAIN q
    BY <1>1, <1>6, <2>2
  <2>. QED BY <2>1, <2>2
<1>. HIDE DEF name, N
<1>8. DOMAIN names = 1 .. N /\ \A n \in 1 .. N : names[n] = name(n)
  BY <1>4, <1>5
<1>9. Len(names) = N
  <2>1. names = [n \in 1 .. N |-> name(n)]
    BY <1>4, <1>5
  <2>. QED BY <1>5, <2>1
<1>10. Listing(names)
  BY <1>5, <1>8, <1>9 DEF Listing
<1>11. \A n \in 1 .. N : size(n) = (IF n + 1 \in 1 .. N THEN q[n + 1] ELSE Len(pieces) + 1) - q[n]
  BY <1>5
<1>12. \A n \in 1 .. N : size(n) = Cut(names, pieces, q, n)
  BY <1>9, <1>11 DEF Cut
<1>13. ASSUME NEW n \in 1 .. Len(names)
       PROVE  /\ Cut(names, pieces, q, n) \in Nat \ {0} /\ q[n] \in 1 .. Len(pieces)
              /\ names[n] = [k \in 1 .. Cut(names, pieces, q, n) |-> pieces[q[n] + k - 1].text]
  <2>1. /\ size(n) = Cut(names, pieces, q, n)
        /\ size(n) \in Nat \ {0} /\ q[n] \in 1 .. Len(pieces) /\ names[n] = name(n)
    BY <1>6, <1>7, <1>8, <1>9, <1>12
  <2>2. name(n) = [k \in 1 .. size(n) |-> pieces[q[n] + k - 1].text]
    BY DEF name
  <2>. HIDE DEF size
  <2>. QED BY <2>1, <2>2
<1>. QED BY <1>3, <1>9, <1>10, <1>13 DEF N, NamesMade

\* What a line lists begins with the names written on it, and where no other
\* sentence follows it is just those names.
LEMMA ListedIs ==
  ASSUME NEW l \in TaskLine, NEW names, names = Listed(l), NEW w, w = Written(l)
  PROVE  /\ Listing(names) /\ Listing(w)
         /\ Len(w) <= Len(names) /\ \A i \in DOMAIN w : names[i][1] = w[i][1]
         /\ (\A i \in DOMAIN l.tail : l.tail[i].glue # "stop") => names = w
<1>0. l.tail \in Seq(Glued)
  BY DEF TaskLine, Glued
<1>. DEFINE pieces  == Before(l.tail, {"require"})
            written == Before(l.tail, {"stop", "require"})
            S       == {i \in DOMAIN pieces : pieces[i].glue \in {"list"}}
            q       == Ascending(S)
            K       == Len(written)
<1>1. /\ pieces \in Seq(Glued) /\ Len(pieces) <= Len(l.tail)
      /\ \A i \in 1 .. Len(pieces) : pieces[i] = l.tail[i] /\ l.tail[i].glue \notin {"require"}
      /\ Len(pieces) < Len(l.tail) => l.tail[Len(pieces) + 1].glue \in {"require"}
  BY <1>0, BeforeIs
<1>2. /\ written \in Seq(Glued) /\ K <= Len(l.tail)
      /\ \A i \in 1 .. K : written[i] = l.tail[i] /\ l.tail[i].glue \notin {"stop", "require"}
      /\ K < Len(l.tail) => l.tail[K + 1].glue \in {"stop", "require"}
  BY <1>0, BeforeIs
<1>3. names = Names(pieces, {"list"}) /\ w = [i \in DOMAIN written |-> <<written[i].text>>]
  BY DEF Listed, Written
<1>. HIDE DEF pieces, written
<1>4. NamesMade(names, pieces, q, S)
  <2>1. S = {i \in DOMAIN pieces : pieces[i].glue \in {"list"}} /\ q = Ascending(S)
    OBVIOUS
  <2>. HIDE DEF S, q
  <2>. QED BY <1>1, <1>3, <2>1, NamesAre
<1>0a. /\ Risen(q, S) /\ Listing(names) /\ Len(names) = Cardinality(S)
       /\ \A n \in 1 .. Len(names) :
            /\ Cut(names, pieces, q, n) \in Nat \ {0} /\ q[n] \in 1 .. Len(pieces)
            /\ names[n] = [k \in 1 .. Cut(names, pieces, q, n) |-> pieces[q[n] + k - 1].text]
  BY <1>4 DEF NamesMade
<1>5. /\ Len(l.tail) \in Nat /\ DOMAIN l.tail = 1 .. Len(l.tail)
      /\ Len(pieces) \in Nat /\ DOMAIN pieces = 1 .. Len(pieces)
      /\ K \in Nat /\ DOMAIN written = 1 .. K
  BY <1>0, <1>1, <1>2
<1>. HIDE DEF K
<1>6. K <= Len(pieces)
  <2>. SUFFICES ASSUME Len(pieces) < K PROVE FALSE
    BY <1>5
  <2>1. Len(pieces) < Len(l.tail) /\ Len(pieces) + 1 \in 1 .. K
    BY <1>2, <1>5
  <2>. QED BY <1>1, <1>2, <2>1
<1>7. \A i \in 1 .. K : l.tail[i].glue = "list" /\ pieces[i] = l.tail[i] /\ i \in 1 .. Len(pieces)
  <2>. TAKE i \in 1 .. K
  <2>1. i \in 1 .. Len(l.tail) /\ i \in 1 .. Len(pieces)
    BY <1>2, <1>5, <1>6
  <2>2. l.tail[i] \in Glued
    BY <1>0, <2>1
  <2>3. l.tail[i].glue \in {"list", "stop", "require"}
    BY <2>2 DEF Glued
  <2>. QED BY <1>1, <1>2, <2>1, <2>3
<1>8. 1 .. K \subseteq S
  BY <1>5, <1>7
<1>9. S \in SUBSET Nat /\ 0 \notin S
  BY <1>5
<1>. HIDE DEF S, q
<1>10. \A i \in 1 .. K : i \in DOMAIN q /\ q[i] = i
  <2>1. Risen(q, S) /\ K \in Nat
    BY <1>0a, <1>5
  <2>. QED BY <1>8, <1>9, <2>1, BeginsWith
<1>11. DOMAIN q = 1 .. Len(names) /\ Len(names) \in Nat /\ DOMAIN names = 1 .. Len(names)
  BY <1>0a DEF Risen, Listing
<1>12. DOMAIN w = 1 .. K /\ Len(w) = K /\ \A i \in 1 .. K : w[i] = <<written[i].text>>
  BY <1>3, <1>5
<1>13. \A i \in 1 .. K : names[i][1] = w[i][1]
  <2>. TAKE i \in 1 .. K
  <2>1. i \in 1 .. Len(names) /\ q[i] = i
    BY <1>10, <1>11
  <2>. DEFINE z == Cut(names, pieces, q, i)
  <2>2. /\ z \in Nat \ {0}
        /\ names[i] = [k \in 1 .. z |-> pieces[q[i] + k - 1].text]
    BY <1>0a, <2>1
  <2>. HIDE DEF z
  <2>3. 1 \in 1 .. z /\ q[i] + 1 - 1 = i
    BY <2>1, <2>2
  <2>4. names[i][1] = pieces[i].text
    BY <2>2, <2>3
  <2>. QED BY <1>2, <1>7, <1>12, <2>4
<1>14. K <= Len(names)
  <2>. SUFFICES ASSUME K # 0 PROVE K <= Len(names)
    BY <1>5, <1>11
  <2>1. K \in 1 .. K
    BY <1>5
  <2>. QED BY <1>5, <1>10, <1>11, <2>1
<1>15. ASSUME \A i \in DOMAIN l.tail : l.tail[i].glue # "stop" PROVE names = w
  <2>1. Len(pieces) = K
    <3>. DEFINE M == Len(pieces)
    <3>0. K \in Nat /\ M \in Nat /\ K <= M
      BY <1>5, <1>6
    <3>. HIDE DEF M
    <3>. SUFFICES ASSUME K < M PROVE FALSE
      BY <3>0 DEF M
    <3>. USE DEF M
    <3>1. K < Len(l.tail) /\ K + 1 \in 1 .. Len(pieces) /\ K + 1 \in DOMAIN l.tail
      BY <1>1, <1>5
    <3>2. l.tail[K + 1].glue = "require"
      BY <1>2, <1>15, <3>1
    <3>. QED BY <1>1, <3>1, <3>2
  <2>2. S = 1 .. K
    <3>1. S \subseteq 1 .. K
      BY <1>5, <2>1 DEF S
    <3>. QED BY <1>8, <3>1
  <2>3. Len(names) = K
    BY <1>0a, <1>5, <2>2, UpToCount
  <2>4. \A i \in 1 .. K : names[i] = w[i]
    <3>. TAKE i \in 1 .. K
    <3>. DEFINE z == Cut(names, pieces, q, i)
    <3>1. z = 1 /\ q[i] = i
      <4>1. CASE i + 1 \in 1 .. K
        BY <1>10, <2>3, <4>1 DEF Cut
      <4>2. CASE i + 1 \notin 1 .. K
        <5>1. i = K
          BY <1>5, <4>2
        <5>. QED BY <1>5, <1>10, <2>1, <2>3, <4>2, <5>1 DEF Cut
      <4>. QED BY <4>1, <4>2
    <3>2. names[i] = [k \in 1 .. z |-> pieces[q[i] + k - 1].text]
      BY <1>0a, <2>3
    <3>. HIDE DEF z
    <3>3. z = 1 /\ i + 1 - 1 = i
      BY <3>1
    <3>4. names[i] = [k \in 1 .. 1 |-> pieces[i + k - 1].text]
      BY <3>1, <3>2, <3>3
    <3>5. names[i] = <<pieces[i].text>>
      BY <3>3, <3>4
    <3>. QED BY <1>2, <1>7, <1>12, <3>5
  <2>5. w = [i \in 1 .. K |-> w[i]]
    <3>1. w = [i \in 1 .. K |-> <<written[i].text>>]
      BY <1>3, <1>5
    <3>. QED BY <3>1
  <2>6. names = [i \in 1 .. K |-> names[i]]
    <3>1. names = Names(pieces, {"list"})
      BY <1>3
    <3>. DEFINE F(n) == [k \in 1 .. (IF n + 1 \in DOMAIN q THEN q[n + 1] ELSE Len(pieces) + 1) - q[n]
                           |-> pieces[q[n] + k - 1].text]
    <3>2. names = [n \in DOMAIN q |-> F(n)]
      BY <3>1 DEF Names, S, q
    <3>. HIDE DEF F
    <3>. QED BY <1>11, <2>3, <3>2
  <2>. QED BY <2>4, <2>5, <2>6
<1>16. Listing(w)
  BY <1>5, <1>12 DEF Listing
<1>. QED BY <1>0a, <1>12, <1>13, <1>14, <1>15, <1>16

\* One after the other, the texts of numbered lines that count from one.
Numbered(run, lines) ==
  /\ Listing(run)
  /\ \A k \in DOMAIN run : \E i \in DOMAIN lines : lines[i].number = k /\ lines[i].lead = run[k]

LEMMA RunsAre ==
  ASSUME NEW lines \in Seq(TaskLine), NEW places \in SUBSET DOMAIN lines
  PROVE  LET runs == NumberedRuns(lines, places)
         IN  Listing(runs) /\ \A r \in DOMAIN runs : Numbered(runs[r], lines)
<1>. DEFINE having   == {i \in places : lines[i].number > 0}
            numbered == Ascending(having)
            counts(s, n) == \A k \in 1 .. n : /\ s + k - 1 \in DOMAIN numbered
                                              /\ lines[numbered[s + k - 1]].number = k
            pairs    == {s \in DOMAIN numbered : counts(s, 2)}
            starts   == Ascending(pairs)
            length(s) == Max({n \in DOMAIN numbered : counts(s, n)})
            run(s)   == [k \in 1 .. length(s) |-> lines[numbered[s + k - 1]].lead]
            runs     == NumberedRuns(lines, places)
<1>1. runs = [r \in DOMAIN starts |-> run(starts[r])]
  BY DEF NumberedRuns
<1>2. Risen(numbered, having)
  <2>1. Len(lines) \in Nat /\ DOMAIN lines = 1 .. Len(lines)
    OBVIOUS
  <2>2. having \in SUBSET Nat /\ having \subseteq 1 .. Len(lines)
    BY <2>1
  <2>3. IsFiniteSet(1 .. Len(lines))
    BY <2>1, UpToCount
  <2>4. IsFiniteSet(having)
    BY <2>2, <2>3, FS_Subset
  <2>. HIDE DEF having
  <2>. QED BY <2>2, <2>4, AscendingIs
<1>3. \A i \in DOMAIN numbered : numbered[i] \in DOMAIN lines
  BY <1>2 DEF Risen, Range
<1>. DEFINE N == Cardinality(having)
<1>4. N \in Nat /\ DOMAIN numbered = 1 .. N
  BY <1>2 DEF Risen
<1>. HIDE DEF numbered, having, N
<1>5. Risen(starts, pairs)
  <2>1. pairs \subseteq 1 .. N /\ pairs \in SUBSET Nat
    BY <1>4
  <2>2. IsFiniteSet(1 .. N)
    BY <1>4, UpToCount
  <2>3. IsFiniteSet(pairs)
    BY <2>1, <2>2, FS_Subset
  <2>. HIDE DEF pairs
  <2>. QED BY <2>1, <2>3, AscendingIs
<1>6. /\ Cardinality(pairs) \in Nat /\ DOMAIN starts = 1 .. Cardinality(pairs)
      /\ \A r \in DOMAIN starts : starts[r] \in pairs
  BY <1>5 DEF Risen, Range
<1>7. ASSUME NEW s \in pairs PROVE Numbered(run(s), lines)
  <2>. DEFINE T == {n \in DOMAIN numbered : counts(s, n)}
              m == length(s)
  <2>1. s \in 1 .. N /\ counts(s, 2)
    BY <1>4
  <2>2. 2 \in T
    <3>1. 2 \in 1 .. 2 /\ s + 2 - 1 \in DOMAIN numbered
      BY <2>1
    <3>2. 2 \in DOMAIN numbered
      BY <1>4, <2>1, <3>1
    <3>. QED BY <2>1, <3>2
  <2>3. T \in SUBSET (0 .. N) /\ T # {}
    <3>1. \A n \in T : n \in 1 .. N
      BY <1>4
    <3>2. T # {}
      BY <2>2
    <3>. HIDE DEF T
    <3>. QED BY <1>4, <3>1, <3>2
  <2>4. m \in T
    <3>1. m = Max(T)
      OBVIOUS
    <3>. HIDE DEF T, m
    <3>. QED BY <1>4, <2>3, <3>1, MaxOf
  <2>5. m \in Nat /\ counts(s, m)
    BY <1>4, <2>4
  <2>. HIDE DEF T, length
  <2>6. run(s) = [k \in 1 .. m |-> lines[numbered[s + k - 1]].lead]
    OBVIOUS
  <2>. HIDE DEF run, m
  <2>7. DOMAIN run(s) = 1 .. m /\ Len(run(s)) = m
    BY <2>5, <2>6
  <2>8. \A k \in 1 .. m : \E i \in DOMAIN lines : lines[i].number = k /\ lines[i].lead = run(s)[k]
    <3>. TAKE k \in 1 .. m
    <3>1. s + k - 1 \in DOMAIN numbered /\ lines[numbered[s + k - 1]].number = k
      BY <2>5
    <3>2. run(s)[k] = lines[numbered[s + k - 1]].lead
      BY <2>6
    <3>. QED BY <1>3, <3>1, <3>2
  <2>. QED BY <2>5, <2>7, <2>8 DEF Numbered, Listing
<1>. HIDE DEF runs, run, starts, pairs
<1>8. DOMAIN runs = DOMAIN starts /\ \A r \in DOMAIN starts : runs[r] = run(starts[r])
  BY <1>1
<1>9. Len(runs) = Cardinality(pairs)
  <2>1. runs = [r \in 1 .. Cardinality(pairs) |-> run(starts[r])]
    BY <1>1, <1>6
  <2>. QED BY <1>6, <2>1
<1>. QED BY <1>6, <1>7, <1>8, <1>9 DEF Listing, runs

\* The run that is taken is one of those found.
LEMMA ChosenIs ==
  ASSUME NEW runs, Listing(runs), NEW counts
  PROVE  ChosenRun(runs, counts) = <<>> \/ \E r \in DOMAIN runs : ChosenRun(runs, counts) = runs[r]
<1>. DEFINE fit == IF counts = {}
                   THEN {i \in DOMAIN runs : \A j \in DOMAIN runs : Len(runs[j]) <= Len(runs[i])}
                   ELSE {i \in DOMAIN runs : Len(runs[i]) = Min(counts)}
<1>1. ChosenRun(runs, counts) = IF fit = {} THEN <<>> ELSE runs[Min(fit)]
  BY DEF ChosenRun
<1>2. fit \in SUBSET Nat /\ \A i \in fit : i \in DOMAIN runs
  BY DEF Listing
<1>. HIDE DEF fit
<1>3. fit # {} => Min(fit) \in fit
  BY <1>2, MinOf
<1>. QED BY <1>1, <1>2, <1>3

\* The places of a list of the ticket are places of the text.
LEMMA SegmentIs ==
  ASSUME NEW lines \in Seq(TaskLine)
  PROVE  Segment(lines) \in SUBSET DOMAIN lines
<1>. DEFINE cues   == {i \in DOMAIN lines : lines[i].wording \in {"counted", "inferred", "cue", "each"}}
            marked == {i \in DOMAIN lines : lines[i].marker # "none"}
            start  == IF marked = {} THEN 1 ELSE Min(marked)
            opens  == IF marked = {} THEN lines[1].lead = <<>> /\ ~lines[1].bullet
                                     ELSE lines[start].marker = "opens"
            after  == {i \in cues : i >= start}
            last   == IF after = {} \/ (opens /\ start \in cues) THEN Len(lines) ELSE Min(after) - 1
<1>1. Segment(lines) = IF cues = {} THEN {} ELSE start .. last
  BY DEF Segment
<1>2. Len(lines) \in Nat /\ DOMAIN lines = 1 .. Len(lines)
  OBVIOUS
<1>3. marked # {} => Min(marked) \in marked
  <2>1. marked \in SUBSET Nat
    BY <1>2
  <2>. HIDE DEF marked
  <2>. QED BY <2>1, MinOf
<1>4. start \in Nat \ {0}
  BY <1>2, <1>3
<1>5. after # {} => Min(after) \in after
  <2>1. after \in SUBSET Nat
    BY <1>2
  <2>. HIDE DEF after
  <2>. QED BY <2>1, MinOf
<1>6. last \in Int /\ last <= Len(lines)
  <2>1. after # {} => Min(after) \in 1 .. Len(lines)
    BY <1>2, <1>5
  <2>. HIDE DEF after, start, opens
  <2>. QED BY <1>2, <2>1
<1>. HIDE DEF start, last, cues
<1>7. start .. last \subseteq 1 .. Len(lines)
  BY <1>2, <1>4, <1>6
<1>. QED BY <1>1, <1>2, <1>7

\* Headings are listed on a line of the ticket, or on numbered lines of it.
HeadingsFrom(headings, lines) ==
  \/ headings = <<>>
  \/ \E i \in DOMAIN lines : headings = Listed(lines[i])
  \/ Numbered(headings, lines)

LEMMA HeadingsRead ==
  ASSUME NEW lines \in Seq(TaskLine)
  PROVE  HeadingsFrom(MarkdownContract(lines), lines)
<1>1. Len(lines) \in Nat /\ DOMAIN lines = 1 .. Len(lines)
  OBVIOUS
<1>2. \A names, n : ValidHeadings(names, n) = names \/ ValidHeadings(names, n) = <<>>
  BY DEF ValidHeadings
<1>3. ASSUME NEW w, Naming(lines, w) # {} PROVE Min(Naming(lines, w)) \in DOMAIN lines
  <2>1. /\ Naming(lines, w) \in SUBSET Nat
        /\ \A i \in Naming(lines, w) : i \in DOMAIN lines
    BY <1>1 DEF Naming, LinesWith
  <2>. QED BY <1>3, <2>1, MinOf
<1>4. ASSUME NEW w PROVE HeadingsFrom(Announced(lines, w), lines)
  BY <1>2, <1>3 DEF Announced, HeadingsFrom
<1>5. HeadingsFrom(InlineInferred(lines), lines)
  BY <1>2, <1>3 DEF InlineInferred, HeadingsFrom
<1>6. HeadingsFrom(CuedNumbered(lines), lines)
  <2>. DEFINE runs   == NumberedRuns(lines, Segment(lines))
              stated == {i \in DOMAIN lines : lines[i].arabic /\ lines[i].count # <<>>}
              counts == IF stated = {} THEN {} ELSE {ChineseInteger(lines[Min(stated)].count)} \ {0}
              run    == ChosenRun(runs, counts)
  <2>1. CuedNumbered(lines) = ValidHeadings(run, Len(run))
    BY DEF CuedNumbered
  <2>2. Listing(runs) /\ \A r \in DOMAIN runs : Numbered(runs[r], lines)
    BY SegmentIs, RunsAre
  <2>. HIDE DEF runs, counts
  <2>3. run = <<>> \/ \E r \in DOMAIN runs : run = runs[r]
    BY <2>2, ChosenIs
  <2>. HIDE DEF run
  <2>4. run = <<>> \/ Numbered(run, lines)
    BY <2>2, <2>3
  <2>5. CuedNumbered(lines) = <<>> \/ CuedNumbered(lines) = run
    BY <1>2, <2>1
  <2>. QED BY <2>4, <2>5 DEF HeadingsFrom
<1>7. HeadingsFrom(<<>>, lines)
  BY DEF HeadingsFrom
<1>. DEFINE readings == <<InlineDelimited(lines), InlineInferred(lines), MustContain(lines),
                          CuedNumbered(lines)>>
            found == {i \in DOMAIN readings : readings[i] # <<>>}
<1>8. /\ DOMAIN readings = 1 .. 4 /\ readings[1] = InlineDelimited(lines)
      /\ readings[2] = InlineInferred(lines) /\ readings[3] = MustContain(lines)
      /\ readings[4] = CuedNumbered(lines)
  OBVIOUS
<1>9. \A i \in 1 .. 4 : HeadingsFrom(readings[i], lines)
  <2>1. HeadingsFrom(readings[1], lines) /\ HeadingsFrom(readings[3], lines)
    BY <1>4, <1>8 DEF InlineDelimited, MustContain
  <2>2. HeadingsFrom(readings[2], lines) /\ HeadingsFrom(readings[4], lines)
    BY <1>5, <1>6, <1>8
  <2>3. \A i \in 1 .. 4 : i = 1 \/ i = 2 \/ i = 3 \/ i = 4
    OBVIOUS
  <2>. HIDE DEF readings
  <2>. QED BY <2>1, <2>2, <2>3
<1>10. MarkdownContract(lines) = IF found = {} THEN <<>> ELSE readings[Min(found)]
  BY DEF MarkdownContract
<1>11. found # {} => Min(found) \in 1 .. 4
  <2>1. found \in SUBSET Nat /\ found \subseteq 1 .. 4
    BY <1>8
  <2>. HIDE DEF found
  <2>. QED BY <2>1, MinOf
<1>. HIDE DEF found, readings
<1>. QED BY <1>7, <1>9, <1>10, <1>11

\* In either case they are a list.
LEMMA HeadingsAreListing ==
  ASSUME NEW lines \in Seq(TaskLine)
  PROVE  Listing(MarkdownContract(lines))
<1>1. HeadingsFrom(MarkdownContract(lines), lines)
  BY HeadingsRead
<1>2. \A i \in DOMAIN lines : Listing(Listed(lines[i]))
  <2>. TAKE i \in DOMAIN lines
  <2>1. lines[i] \in TaskLine
    OBVIOUS
  <2>. QED BY <2>1, ListedIs
<1>3. Listing(<<>>)
  BY DEF Listing
<1>. QED BY <1>1, <1>2, <1>3 DEF HeadingsFrom, Numbered

\* A list on a line whose names are all different is kept whole.
LEMMA AllDifferent ==
  ASSUME NEW w, Listing(w), Cardinality(Range(w)) = Len(w)
  PROVE  OnceEach(w)
<1>. DEFINE f == [i \in 1 .. Len(w) |-> w[i]]
<1>1. Len(w) \in Nat /\ DOMAIN w = 1 .. Len(w)
  BY DEF Listing
<1>2. f \in Surjection(1 .. Len(w), Range(w))
  BY <1>1 DEF Surjection, Range
<1>3. IsFiniteSet(1 .. Len(w)) /\ Cardinality(1 .. Len(w)) = Cardinality(Range(w))
  BY <1>1, UpToCount
<1>4. f \in Injection(1 .. Len(w), Range(w))
  <2>. HIDE DEF f
  <2>. QED BY <1>2, <1>3, FS_SurjSameCardinalityImpliesInj
<1>. QED BY <1>1, <1>4 DEF Injection, IsInjective, OnceEach

\* The first list that is announced with its length is the one that is read,
\* when it is as long as announced, names all different headings, and no other
\* sentence follows the names.
LEMMA CountedIsTaken ==
  ASSUME NEW lines \in Seq(TaskLine), Naming(lines, "counted") # {},
         NEW l, l = lines[Min(Naming(lines, "counted"))],
         NEW w, w = Written(l), \A i \in DOMAIN l.tail : l.tail[i].glue # "stop",
         ChineseInteger(l.count) = Len(w), Len(w) \in 2 .. HeadingLimit,
         Cardinality(Range(w)) = Len(w)
  PROVE  MarkdownContract(lines) = w
<1>1. Min(Naming(lines, "counted")) \in DOMAIN lines
  <2>1. /\ Naming(lines, "counted") \in SUBSET Nat
        /\ \A i \in Naming(lines, "counted") : i \in DOMAIN lines
    BY DEF Naming, LinesWith
  <2>. QED BY <2>1, MinOf
<1>2. l \in TaskLine
  BY <1>1
<1>3. Listed(l) = w /\ Listing(w)
  BY <1>2, ListedIs
<1>4. OnceEach(w)
  BY <1>3, AllDifferent
<1>5. ValidHeadings(w, Len(w)) = w
  BY <1>4 DEF ValidHeadings, OnceEach
<1>6. InlineDelimited(lines) = w
  <2>1. Announced(lines, "counted") = ValidHeadings(Listed(l), ChineseInteger(l.count))
    BY DEF Announced
  <2>. QED BY <1>3, <1>5, <2>1 DEF InlineDelimited
<1>7. w # <<>>
  BY <1>3 DEF Listing
<1>. DEFINE readings == <<InlineDelimited(lines), InlineInferred(lines), MustContain(lines),
                          CuedNumbered(lines)>>
            found == {i \in DOMAIN readings : readings[i] # <<>>}
<1>8. DOMAIN readings = 1 .. 4 /\ readings[1] = w
  BY <1>6
<1>9. MarkdownContract(lines) = IF found = {} THEN <<>> ELSE readings[Min(found)]
  BY DEF MarkdownContract
<1>10. 1 \in found /\ found \in SUBSET Nat /\ \A i \in found : i >= 1
  BY <1>7, <1>8
<1>. HIDE DEF found, readings
<1>11. Min(found) \in found /\ Min(found) <= 1
  BY <1>10, MinOf
<1>12. Min(found) = 1
  <2>. DEFINE m == Min(found)
  <2>1. m \in Nat /\ m >= 1 /\ m <= 1
    BY <1>10, <1>11
  <2>. HIDE DEF m
  <2>2. m = 1
    BY <2>1
  <2>. QED BY <2>2 DEF m
<1>. QED BY <1>8, <1>9, <1>10, <1>12

LEMMA HeadingsListed ==
  ASSUME ContractInv
  PROVE  HeadingsAsListed
<1>. DEFINE lines    == FullTask(ticket)
            headings == contract["final"].headings
            stops(l) == \E i \in DOMAIN l.tail : l.tail[i].glue = "stop"
            extends(l) == /\ stops(l) /\ Len(headings) >= Len(Written(l))
                          /\ \A i \in DOMAIN Written(l) : headings[i][1] = Written(l)[i][1]
            counted  == Naming(lines, "counted")
            first    == lines[Min(counted)]
            plain(l) == /\ ~stops(l) /\ ChineseInteger(l.count) = Len(Written(l))
                        /\ Len(Written(l)) \in 2 .. HeadingLimit
                        /\ Cardinality(Range(Written(l))) = Len(Written(l))
            listed   == \/ \E l \in Range(lines) : headings = Written(l) \/ extends(l)
                        \/ \A i \in DOMAIN headings :
                             \E l \in Range(lines) : l.number = i /\ l.lead = headings[i]
<1>1. lines \in Seq(TaskLine)
  BY TicketLines DEF ContractInv
<1>2. stage = "ticket" => headings = <<>>
  BY DEF ContractInv, Generic, Reader
<1>3. stage # "ticket" => headings = MarkdownContract(lines)
  BY FinalContract DEF Explicit
<1>4. \A i \in DOMAIN lines : lines[i] \in Range(lines) /\ lines[i] \in TaskLine
  BY <1>1 DEF Range
<1>. HIDE DEF lines, headings
<1>5. headings # <<>> => listed
  <2>. SUFFICES ASSUME headings # <<>> PROVE listed
    OBVIOUS
  <2>1. HeadingsFrom(headings, lines)
    BY <1>1, <1>2, <1>3, HeadingsRead
  <2>2. CASE \E i \in DOMAIN lines : headings = Listed(lines[i])
    <3>1. PICK i \in DOMAIN lines : headings = Listed(lines[i])
      BY <2>2
    <3>. DEFINE l == lines[i]
    <3>2. /\ Listing(headings) /\ Listing(Written(l))
          /\ Len(Written(l)) <= Len(headings)
          /\ \A j \in DOMAIN Written(l) : headings[j][1] = Written(l)[j][1]
          /\ (\A j \in DOMAIN l.tail : l.tail[j].glue # "stop") => headings = Written(l)
      BY <1>4, <3>1, ListedIs
    <3>3. headings = Written(l) \/ extends(l)
      BY <3>2 DEF Listing
    <3>4. l \in Range(lines)
      BY <1>4
    <3>. HIDE DEF l, extends
    <3>. QED BY <3>3, <3>4
  <2>3. CASE Numbered(headings, lines)
    <3>1. \A k \in DOMAIN headings :
            \E l \in Range(lines) : l.number = k /\ l.lead = headings[k]
      BY <1>4, <2>3 DEF Numbered
    <3>. HIDE DEF extends
    <3>. QED BY <3>1
  <2>. QED BY <2>1, <2>2, <2>3 DEF HeadingsFrom
<1>6. stage # "ticket" /\ counted # {} /\ plain(first) => headings = Written(first)
  <2>. SUFFICES ASSUME stage # "ticket", counted # {}, plain(first) PROVE headings = Written(first)
    OBVIOUS
  <2>. QED BY <1>1, <1>3, CountedIsTaken
<1>7. HeadingsAsListed <=> /\ headings # <<>> => listed
                           /\ stage # "ticket" /\ counted # {} /\ plain(first) => headings = Written(first)
  BY DEF HeadingsAsListed, lines, headings
<1>. HIDE DEF listed, counted, plain, first
<1>. QED BY <1>5, <1>6, <1>7

(***************************************************************************)
(* A contract that can be met                                              *)
(***************************************************************************)
KeysIn(c, k) == UNION {n[2] : n \in {m \in c.nested : m[1] = k}}
ObjectOf(c) ==
  [k \in Range(c.fields) |-> [filled |-> TRUE, inner |-> [i \in KeysIn(c, k) |-> "object"]]]
TextOf(c) == [i \in DOMAIN HeldHeadings(c) |-> [heading |-> HeldHeadings(c)[i], filled |-> TRUE]]

\* What is sent is an object, or sections and a table; the object of the keys
\* asked for may be, and all the sections in their order with the table.
LEMMA RepliesAre ==
  ASSUME NEW c
  PROVE  /\ \A a \in Replies(c) : a.json => a.sections = <<>> /\ a.header = <<>>
         /\ Answer(TRUE, ObjectOf(c), <<>>, <<>>) \in Replies(c)
         /\ Answer(FALSE, <<>>, TextOf(c), c.columns) \in Replies(c)
<1>. DEFINE object  == ObjectOf(c)
            text    == TextOf(c)
            texts   == {text, Reverse(text), text \o text}
                       \cup IF text = <<>> THEN {}
                            ELSE {Front(text), [text EXCEPT ![Len(text)].filled = FALSE]}
            field(k, v) == [filled |-> TRUE, inner |-> [i \in KeysIn(c, k) |-> v]]
            objects == {object} \cup UNION {{[k \in DOMAIN object \ {f} |-> object[k]],
                                             [object EXCEPT ![f].filled = FALSE],
                                             [object EXCEPT ![f].inner = <<>>]}
                                            \cup {[object EXCEPT ![f] = field(f, v)] : v \in Value} :
                                              f \in DOMAIN object}
            headers == {<<>>, c.columns, Reverse(c.columns)}
            Object(o)    == Answer(TRUE, o, <<>>, <<>>)
            Report(s, h) == Answer(FALSE, <<>>, s, h)
<1>1. Replies(c) = {Object(o) : o \in objects} \cup {Report(s, h) : s \in texts, h \in headers}
  BY DEF Replies, ObjectOf, TextOf, KeysIn
<1>2. object \in objects /\ text \in texts /\ c.columns \in headers
  OBVIOUS
<1>3. \A o : Object(o).sections = <<>> /\ Object(o).header = <<>>
  BY DEF Answer
<1>4. \A s, h : ~Report(s, h).json
  BY DEF Answer
<1>. HIDE DEF objects, texts, headers, object, text, Object, Report
<1>5. Object(object) \in Replies(c) /\ Report(text, c.columns) \in Replies(c)
  BY <1>1, <1>2
<1>6. \A a \in Replies(c) : a.json => a.sections = <<>> /\ a.header = <<>>
  BY <1>1, <1>3, <1>4
<1>. QED BY <1>5, <1>6 DEF object, text, Object, Report

\* The object of the keys asked for meets a contract of keys alone.
LEMMA ObjectIsThere ==
  ASSUME NEW c, Consistent(c), c.fields # <<>>, c.headings = <<>>, c.columns = <<>>
  PROVE  \E a \in Replies(c) : AnswerViolations(c, a) = {}
<1>. DEFINE a == Answer(TRUE, ObjectOf(c), <<>>, <<>>)
<1>1. a \in Replies(c)
  BY RepliesAre
<1>2. a.json /\ a.fields = ObjectOf(c)
  BY DEF Answer
<1>3. \A n \in c.nested : n[1] \in Range(c.fields) /\ KeysIn(c, n[1]) = n[2]
  <2>. TAKE n \in c.nested
  <2>1. n[1] \in Range(c.fields)
    BY DEF Consistent
  <2>2. {m \in c.nested : m[1] = n[1]} = {n}
    BY DEF Consistent
  <2>. QED BY <2>1, <2>2 DEF KeysIn
<1>. HIDE DEF a
<1>4. /\ DOMAIN a.fields = Range(c.fields)
      /\ \A f \in Range(c.fields) : /\ a.fields[f].filled
                                    /\ a.fields[f].inner = [i \in KeysIn(c, f) |-> "object"]
  BY <1>2 DEF ObjectOf
<1>5. \A n \in c.nested : DOMAIN a.fields[n[1]].inner = n[2]
  BY <1>3, <1>4
<1>6. AnswerViolations(c, a) \subseteq Untold(c, a)
  BY <1>2, <1>4, <1>5, ObjectAccepted
<1>7. "object" \notin Empty /\ "object" \notin Value \ Objects
  BY DEF Empty, Value, Objects
<1>8. ASSUME NEW n \in c.nested, NEW values, Amiss(a, n, values) PROVE "object" \in values
  <2>1. a.fields[n[1]].inner = [i \in KeysIn(c, n[1]) |-> "object"]
    BY <1>3, <1>4
  <2>. QED BY <1>8, <2>1 DEF Amiss, Range
<1>9. Untold(c, a) = {}
  BY <1>7, <1>8 DEF Untold
<1>. QED BY <1>1, <1>6, <1>9

\* The sections in their order and the table meet a contract without keys.
LEMMA ReportIsThere ==
  ASSUME NEW c, Consistent(c), c.fields = <<>>, Listing(c.headings)
  PROVE  \E a \in Replies(c) : AnswerViolations(c, a) = {}
<1>. DEFINE a == Answer(FALSE, <<>>, TextOf(c), c.columns)
<1>1. a \in Replies(c)
  BY RepliesAre
<1>2. a.sections = TextOf(c) /\ a.header = c.columns
  BY DEF Answer
<1>. HIDE DEF a
<1>3. AnswerViolations(c, a) = TableViolations(c, a)
  BY <1>2, ReportAccepted DEF TextOf
<1>4. TableViolations(c, a) = {}
  BY <1>2 DEF TableViolations, Because
<1>. QED BY <1>1, <1>3, <1>4

\* No answer is both an object and a report.
LEMMA NothingMeetsBoth ==
  ASSUME NEW c, c.fields # <<>>, c.headings # <<>> \/ c.columns # <<>>, Listing(c.headings),
         NEW a \in Replies(c)
  PROVE  AnswerViolations(c, a) # {}
<1>1. CASE ~a.json
  <2>1. <<"object-required">> \in ParsedViolations(c, a)
    BY <1>1 DEF ParsedViolations
  <2>. QED BY <2>1 DEF AnswerViolations
<1>2. CASE a.json /\ c.columns # <<>>
  <2>1. a.header # c.columns
    BY <1>2, RepliesAre
  <2>2. <<"table">> \in TableViolations(c, a)
    BY <1>2, <2>1 DEF TableViolations, Because
  <2>. QED BY <2>2 DEF AnswerViolations
<1>3. CASE a.json /\ c.headings # <<>>
  <2>1. HeldHeadings(c) = c.headings /\ a.sections = <<>>
    BY <1>3, RepliesAre DEF HeldHeadings
  <2>2. PICK h : h \in Range(c.headings)
    <3>1. Len(c.headings) # 0 /\ 1 \in DOMAIN c.headings
      BY <1>3 DEF Listing
    <3>. QED BY <3>1 DEF Range
  <2>. DEFINE under(g) == {i \in DOMAIN a.sections : a.sections[i].heading = g}
              found == {g \in Range(HeldHeadings(c)) : under(g) # {}}
  <2>3. h \notin found
    BY <2>1
  <2>4. {<<"missing", g>> : g \in Range(HeldHeadings(c)) \ found} \subseteq MarkdownViolations(c, a)
    BY DEF MarkdownViolations
  <2>5. <<"missing", h>> \in MarkdownViolations(c, a)
    <3>. HIDE DEF found
    <3>. QED BY <2>1, <2>2, <2>3, <2>4
  <2>. QED BY <2>5 DEF AnswerViolations
<1>. QED BY <1>1, <1>2, <1>3

LEMMA CanBeMet ==
  ASSUME ContractInv
  PROVE  ContractCanBeMet
<1>. DEFINE c == contract["final"]
<1>. SUFFICES ASSUME stage = "asked"
              PROVE  (\E a \in Replies(c) : AnswerViolations(c, a) = {})
                       <=> c.fields = <<>> \/ (c.headings = <<>> /\ c.columns = <<>>)
  BY DEF ContractCanBeMet
<1>1. Consistent(c) /\ c.headings = MarkdownContract(FullTask(ticket))
  BY FinalContract DEF Explicit
<1>2. Listing(c.headings)
  BY <1>1, TicketLines, HeadingsAreListing DEF ContractInv
<1>. HIDE DEF c
<1>3. CASE c.fields = <<>>
  BY <1>1, <1>2, <1>3, ReportIsThere
<1>4. CASE c.fields # <<>> /\ c.headings = <<>> /\ c.columns = <<>>
  BY <1>1, <1>4, ObjectIsThere
<1>5. CASE c.fields # <<>> /\ (c.headings # <<>> \/ c.columns # <<>>)
  BY <1>2, <1>5, NothingMeetsBoth
<1>. QED BY <1>3, <1>4, <1>5

(***************************************************************************)
(* The properties of the contract                                          *)
(***************************************************************************)
\* ContractOfTheTicket: the headings the final expert is held to are listed in
\* the ticket, a list announced with its length being taken before any other;
\* and its contract can be met unless it asks for JSON and a report at once.
THEOREM ContractOfTheTicketSafe == ContractSpec => []ContractOfTheTicket
<1>1. ContractInv => ContractOfTheTicket
  BY HeadingsListed, CanBeMet DEF ContractOfTheTicket
<1>. QED BY <1>1, ContractInvariant, PTL

\* FollowedIsAccepted: an answer that does what the node was told is refused for
\* a lone table and for the values inside its fields only.
THEOREM FollowedSafe == ContractSpec => []FollowedIsAccepted
<1>. DEFINE c == contract["final"]
<1>1. ContractInv => FollowedIsAccepted
  <2>. DEFINE lone == {<<"table">> : k \in {Kind(c)} \cap {"columns"}}
  <2>. SUFFICES ASSUME ContractInv, stage = "judged", Follows(Told(c), reply)
                PROVE  verdict \subseteq lone \cup Untold(c, reply)
    BY DEF FollowedIsAccepted, Untold, Amiss
  <2>1. Consistent(c) /\ c.headings = MarkdownContract(FullTask(ticket))
    BY FinalContract DEF Explicit
  <2>2. Listing(c.headings)
    BY <2>1, TicketLines, HeadingsAreListing DEF ContractInv
  <2>3. reply \in Replies(c) /\ verdict = AnswerViolations(c, reply)
    BY DEF ContractInv
  <2>4. reply.json => reply.sections = <<>> /\ reply.header = <<>>
    BY <2>3, RepliesAre
  <2>. HIDE DEF c
  <2>5. CASE c.fields # <<>>
    <3>. DEFINE told == ExplicitRule(c)
    <3>1. /\ told.fields = c.fields /\ told.nested = c.nested
          /\ told.headings = c.headings /\ told.columns = c.columns
      BY DEF ExplicitRule
    <3>2. Follows(told, reply)
      BY <2>5 DEF Told, MachineReadable
    <3>. HIDE DEF told
    <3>3. /\ reply.json /\ DOMAIN reply.fields = Range(c.fields)
          /\ \A f \in DOMAIN reply.fields : reply.fields[f].filled
          /\ \A n \in c.nested : DOMAIN reply.fields[n[1]].inner = n[2]
      BY <2>5, <3>1, <3>2 DEF Follows
    <3>4. c.columns = <<>>
      BY <2>4, <3>1, <3>2, <3>3 DEF Follows
    <3>5. c.headings = <<>>
      <4>. SUFFICES ASSUME c.headings # <<>> PROVE FALSE
        OBVIOUS
      <4>1. reply.sections = [i \in DOMAIN c.headings |-> [heading |-> c.headings[i], filled |-> TRUE]]
        BY <3>1, <3>2 DEF Follows
      <4>2. DOMAIN reply.sections = DOMAIN c.headings /\ DOMAIN reply.sections = {}
        BY <2>4, <3>3, <4>1
      <4>3. 1 \in DOMAIN c.headings
        BY <2>2 DEF Listing
      <4>. QED BY <4>2, <4>3
    <3>. QED BY <2>1, <2>3, <2>5, <3>3, <3>4, <3>5, ObjectAccepted
  <2>6. CASE c.fields = <<>> /\ c.headings # <<>>
    <3>. DEFINE told == ExplicitRule(c)
    <3>1. told.headings = c.headings /\ told.columns = c.columns
      BY DEF ExplicitRule
    <3>2. Follows(told, reply)
      BY <2>6 DEF Told, MachineReadable
    <3>. HIDE DEF told
    <3>3. /\ reply.sections = [i \in DOMAIN c.headings |-> [heading |-> c.headings[i], filled |-> TRUE]]
          /\ c.columns # <<>> => reply.header = c.columns
      BY <2>6, <3>1, <3>2 DEF Follows
    <3>4. HeldHeadings(c) = c.headings
      BY <2>6 DEF HeldHeadings
    <3>5. AnswerViolations(c, reply) = TableViolations(c, reply)
      BY <2>1, <2>2, <2>6, <3>3, <3>4, ReportAccepted
    <3>6. TableViolations(c, reply) = {}
      BY <3>3 DEF TableViolations, Because
    <3>. QED BY <2>3, <3>5, <3>6
  <2>7. CASE c.fields = <<>> /\ c.headings = <<>>
    <3>1. ASSUME c.columns # <<>> PROVE <<"table">> \in lone
      <4>1. {k \in {"fields", "headings", "columns"} : c[k] # <<>>} = {"columns"}
        BY <2>7, <3>1
      <4>2. Cardinality({"columns"}) = 1
        BY FS_Singleton
      <4>. DEFINE kinds == {k \in {"fields", "headings", "columns"} : c[k] # <<>>}
      <4>3. Kind(c) = CASE kinds = {} -> "generic"
                        [] Cardinality(kinds) > 1 -> "mixed"
                        [] OTHER -> CHOOSE k \in kinds : TRUE
        BY DEF Kind
      <4>. HIDE DEF kinds
      <4>4. kinds = {"columns"}
        BY <4>1 DEF kinds
      <4>5. Kind(c) = CHOOSE k \in {"columns"} : TRUE
        BY <4>2, <4>3, <4>4
      <4>6. (CHOOSE k \in {"columns"} : TRUE) = "columns"
        OBVIOUS
      <4>. QED BY <4>5, <4>6
    <3>. DEFINE told == PlainRule(c)
    <3>2. told.headings = c.required
      BY DEF PlainRule
    <3>3. Follows(told, reply)
      BY <2>7 DEF Told, MachineReadable
    <3>4. c.required # <<>> /\ HeldHeadings(c) = c.required
      BY <2>1, <2>7, TicketAssumption DEF Consistent, HeldHeadings, MachineReadable
    <3>. HIDE DEF told
    <3>5. reply.sections = [i \in DOMAIN c.required |-> [heading |-> c.required[i], filled |-> TRUE]]
      BY <3>2, <3>3, <3>4 DEF Follows
    <3>6. AnswerViolations(c, reply) = TableViolations(c, reply)
      BY <2>1, <2>2, <2>7, <3>4, <3>5, ReportAccepted
    <3>7. TableViolations(c, reply) \subseteq lone
      BY <3>1 DEF TableViolations, Because
    <3>. QED BY <2>3, <3>6, <3>7
  <2>. QED BY <2>5, <2>6, <2>7
<1>. QED BY <1>1, ContractInvariant, PTL

(***************************************************************************)
(* A text with lines left out                                              *)
(***************************************************************************)
\* What the readings look for on a line.
SameLine(l, m) ==
  /\ l.number = m.number /\ l.lead = m.lead /\ l.marker = m.marker /\ l.wording = m.wording
  /\ l.arabic = m.arabic /\ l.count = m.count /\ l.tail = m.tail
  /\ m.bullet => l.bullet

Blank(l) == /\ l.number = 0 /\ l.marker = "none" /\ l.wording = "none"
            /\ l.count = <<>> /\ l.tail = <<>>

\* The lines of a are lines of b, from the first on and in their order.
Embeds(e, a, b) ==
  /\ a \in Seq(TaskLine) /\ b \in Seq(TaskLine)
  /\ e \in [DOMAIN a -> DOMAIN b]
  /\ \A i, j \in DOMAIN a : i < j => e[i] < e[j]
  /\ \A i \in DOMAIN a : SameLine(a[i], b[e[i]])
  /\ 1 \in DOMAIN a /\ e[1] = 1 /\ a[1].bullet = b[1].bullet

\* The other lines of b say nothing that the readings look for.
Blanked(e, a, b) == \A j \in DOMAIN b : (\E i \in DOMAIN a : e[i] = j) \/ Blank(b[j])

\* B are the places in b of the lines A of a.
Carried(e, A, B) == /\ \A i \in A : e[i] \in B
                    /\ \A j \in B : \E i \in A : e[i] = j

LEMMA Monotone ==
  ASSUME NEW a, NEW b, NEW e, Embeds(e, a, b)
  PROVE  /\ Len(a) \in Nat /\ DOMAIN a = 1 .. Len(a)
         /\ Len(b) \in Nat /\ DOMAIN b = 1 .. Len(b)
         /\ \A i \in DOMAIN a : e[i] \in DOMAIN b
         /\ \A i, j \in DOMAIN a : (i < j <=> e[i] < e[j]) /\ (i <= j <=> e[i] <= e[j])
<1>1. /\ Len(a) \in Nat /\ DOMAIN a = 1 .. Len(a)
      /\ Len(b) \in Nat /\ DOMAIN b = 1 .. Len(b)
      /\ \A i \in DOMAIN a : e[i] \in DOMAIN b
      /\ \A i, j \in DOMAIN a : i < j => e[i] < e[j]
  BY DEF Embeds
<1>2. ASSUME NEW i \in DOMAIN a, NEW j \in DOMAIN a
      PROVE  (i < j <=> e[i] < e[j]) /\ (i <= j <=> e[i] <= e[j])
  <2>1. i \in Nat /\ j \in Nat /\ e[i] \in Nat /\ e[j] \in Nat
    BY <1>1
  <2>2. (i < j => e[i] < e[j]) /\ (j < i => e[j] < e[i]) /\ (i = j => e[i] = e[j])
    BY <1>1
  <2>. QED BY <2>1, <2>2
<1>. QED BY <1>1, <1>2

\* The first of some lines is the first of them where they are carried.
LEMMA FirstCarried ==
  ASSUME NEW a, NEW b, NEW e, Embeds(e, a, b),
         NEW A \in SUBSET DOMAIN a, NEW B \in SUBSET DOMAIN b, Carried(e, A, B)
  PROVE  /\ A = {} <=> B = {}
         /\ A # {} => Min(A) \in A /\ Min(B) = e[Min(A)]
<1>1. /\ DOMAIN a = 1 .. Len(a) /\ DOMAIN b = 1 .. Len(b)
      /\ \A i \in DOMAIN a : e[i] \in DOMAIN b
      /\ \A i, j \in DOMAIN a : (i < j <=> e[i] < e[j]) /\ (i <= j <=> e[i] <= e[j])
  BY Monotone
<1>2. A = {} <=> B = {}
  BY DEF Carried
<1>3. A \in SUBSET Nat /\ B \in SUBSET Nat
  BY <1>1
<1>4. ASSUME A # {} PROVE Min(A) \in A /\ Min(B) = e[Min(A)]
  <2>1. Min(A) \in A /\ \A y \in A : Min(A) <= y
    BY <1>3, <1>4, MinOf
  <2>2. Min(B) \in B /\ \A y \in B : Min(B) <= y
    BY <1>2, <1>3, <1>4, MinOf
  <2>. DEFINE m == Min(A)
              n == Min(B)
  <2>3. PICK k \in A : e[k] = n
    BY <2>2 DEF Carried
  <2>4. m \in A /\ k \in A /\ m \in DOMAIN a /\ k \in DOMAIN a /\ e[m] \in B
    BY <2>1, <2>3 DEF Carried
  <2>5. e[m] <= n
    <3>1. m <= k
      BY <2>1, <2>4
    <3>. HIDE DEF m, n
    <3>. QED BY <1>1, <2>3, <2>4, <3>1
  <2>6. n <= e[m]
    BY <2>2, <2>4
  <2>7. n \in Nat /\ e[m] \in Nat
    BY <1>3, <2>2, <2>4
  <2>. HIDE DEF m, n
  <2>8. n = e[m]
    BY <2>5, <2>6, <2>7
  <2>. QED BY <2>1, <2>8 DEF m, n
<1>. QED BY <1>2, <1>4

\* In order they are in the same order.
LEMMA OrderCarried ==
  ASSUME NEW a, NEW b, NEW e, Embeds(e, a, b),
         NEW A \in SUBSET DOMAIN a, NEW B \in SUBSET DOMAIN b, Carried(e, A, B)
  PROVE  /\ Cardinality(A) \in Nat /\ DOMAIN Ascending(A) = 1 .. Cardinality(A)
         /\ DOMAIN Ascending(B) = 1 .. Cardinality(A)
         /\ \A n \in 1 .. Cardinality(A) : /\ Ascending(A)[n] \in A
                                           /\ Ascending(B)[n] = e[Ascending(A)[n]]
<1>1. /\ Len(a) \in Nat /\ DOMAIN a = 1 .. Len(a) /\ Len(b) \in Nat /\ DOMAIN b = 1 .. Len(b)
      /\ \A i, j \in DOMAIN a : (i < j <=> e[i] < e[j])
  BY Monotone
<1>2. /\ A \in SUBSET Nat /\ IsFiniteSet(A)
      /\ B \in SUBSET Nat /\ IsFiniteSet(B)
  <2>1. IsFiniteSet(1 .. Len(a)) /\ IsFiniteSet(1 .. Len(b))
    BY <1>1, UpToCount
  <2>2. IsFiniteSet(A) /\ IsFiniteSet(B)
    BY <1>1, <2>1, FS_Subset
  <2>. QED BY <1>1, <2>2
<1>. DEFINE p == Ascending(A)
            q == Ascending(B)
            N == Cardinality(A)
            R == {x \in B \X B : x[1] < x[2]}
            s == [n \in 1 .. N |-> e[p[n]]]
<1>3. Risen(p, A) /\ Risen(q, B)
  BY <1>2, AscendingIs
<1>4. /\ N \in Nat /\ DOMAIN p = 1 .. N /\ \A n \in 1 .. N : p[n] \in A
      /\ \A i, j \in 1 .. N : i < j => p[i] < p[j]
      /\ \A x \in A : \E n \in 1 .. N : p[n] = x
  BY <1>3 DEF Risen, Range
<1>5. \A x, y \in B : <<x, y>> \in R <=> x < y
  OBVIOUS
<1>. HIDE DEF R, p, q, N
<1>6. Orders(R, B)
  BY <1>2, <1>5 DEF Orders
<1>7. InOrder(q, B, R)
  <2>1. \A i \in DOMAIN q : q[i] \in B
    BY <1>3 DEF Risen, Range
  <2>. QED BY <1>3, <1>5, <2>1 DEF Risen, InOrder
<1>8. /\ DOMAIN s = 1 .. N /\ \A n \in 1 .. N : s[n] \in B /\ s[n] = e[p[n]]
      /\ \A y \in B : \E n \in 1 .. N : s[n] = y
  BY <1>4 DEF Carried
<1>9. \A i, j \in 1 .. N : i < j => <<s[i], s[j]>> \in R
  <2>1. \A i, j \in 1 .. N : i < j => s[i] < s[j]
    <3>1. \A i \in 1 .. N : p[i] \in DOMAIN a
      BY <1>4
    <3>. QED BY <1>1, <1>4, <1>8, <3>1
  <2>. QED BY <1>5, <1>8, <2>1
<1>. HIDE DEF s
<1>10. Range(s) = B
  BY <1>8 DEF Range
<1>11. N = Cardinality(B) /\ \A n \in 1 .. N : q[n] = s[n]
  BY <1>4, <1>6, <1>7, <1>8, <1>9, <1>10, OneOrder
<1>12. DOMAIN q = 1 .. N
  BY <1>3, <1>11 DEF Risen
<1>. QED BY <1>4, <1>8, <1>11, <1>12 DEF p, q, N

\* So the lines of a wording are carried, with what they name.
LEMMA WordingCarried ==
  ASSUME NEW a, NEW b, NEW e, Embeds(e, a, b), Blanked(e, a, b), NEW w, w # "none"
  PROVE  /\ LinesWith(a, w) \in SUBSET DOMAIN a /\ LinesWith(b, w) \in SUBSET DOMAIN b
         /\ Carried(e, LinesWith(a, w), LinesWith(b, w))
         /\ Naming(a, w) \in SUBSET DOMAIN a /\ Naming(b, w) \in SUBSET DOMAIN b
         /\ Carried(e, Naming(a, w), Naming(b, w))
<1>1. \A i \in DOMAIN a : e[i] \in DOMAIN b /\ SameLine(a[i], b[e[i]])
  BY DEF Embeds
<1>2. \A j \in DOMAIN b : b[j].wording = w => \E i \in DOMAIN a : e[i] = j
  BY DEF Blanked, Blank
<1>3. Carried(e, LinesWith(a, w), LinesWith(b, w))
  BY <1>1, <1>2 DEF Carried, LinesWith, SameLine
<1>4. Carried(e, Naming(a, w), Naming(b, w))
  BY <1>1, <1>2 DEF Carried, LinesWith, Naming, SameLine
<1>. QED BY <1>3, <1>4 DEF LinesWith, Naming

LEMMA SameAnnounced ==
  ASSUME NEW a, NEW b, NEW e, Embeds(e, a, b), Blanked(e, a, b), NEW w, w # "none"
  PROVE  Announced(a, w) = Announced(b, w)
<1>. DEFINE A == Naming(a, w)
            B == Naming(b, w)
<1>1. /\ A = {} <=> B = {}
      /\ A # {} => Min(A) \in A /\ Min(B) = e[Min(A)]
      /\ \A i \in A : i \in DOMAIN a
  <2>1. A \in SUBSET DOMAIN a /\ B \in SUBSET DOMAIN b /\ Carried(e, A, B)
    BY WordingCarried
  <2>. HIDE DEF A, B
  <2>. QED BY <2>1, FirstCarried
<1>2. A # {} => SameLine(a[Min(A)], b[Min(B)])
  BY <1>1 DEF Embeds
<1>3. /\ Announced(a, w) = IF A = {} \/ ChineseInteger(a[Min(A)].count) \notin 2 .. HeadingLimit THEN <<>>
                           ELSE ValidHeadings(Listed(a[Min(A)]), ChineseInteger(a[Min(A)].count))
      /\ Announced(b, w) = IF B = {} \/ ChineseInteger(b[Min(B)].count) \notin 2 .. HeadingLimit THEN <<>>
                           ELSE ValidHeadings(Listed(b[Min(B)]), ChineseInteger(b[Min(B)].count))
  BY DEF Announced
<1>4. A # {} => Listed(a[Min(A)]) = Listed(b[Min(B)]) /\ a[Min(A)].count = b[Min(B)].count
  BY <1>2 DEF SameLine, Listed
<1>. HIDE DEF A, B
<1>. QED BY <1>1, <1>3, <1>4

LEMMA SameInferred ==
  ASSUME NEW a, NEW b, NEW e, Embeds(e, a, b), Blanked(e, a, b)
  PROVE  InlineInferred(a) = InlineInferred(b)
<1>. DEFINE A == Naming(a, "inferred")
            B == Naming(b, "inferred")
<1>1. /\ A = {} <=> B = {}
      /\ A # {} => Min(A) \in A /\ Min(B) = e[Min(A)]
      /\ \A i \in A : i \in DOMAIN a
  <2>1. A \in SUBSET DOMAIN a /\ B \in SUBSET DOMAIN b /\ Carried(e, A, B)
    BY WordingCarried
  <2>. HIDE DEF A, B
  <2>. QED BY <2>1, FirstCarried
<1>2. A # {} => SameLine(a[Min(A)], b[Min(B)])
  BY <1>1 DEF Embeds
<1>3. /\ InlineInferred(a) = IF A = {} \/ Len(Listed(a[Min(A)])) \notin 2 .. HeadingLimit THEN <<>>
                             ELSE ValidHeadings(Listed(a[Min(A)]), Len(Listed(a[Min(A)])))
      /\ InlineInferred(b) = IF B = {} \/ Len(Listed(b[Min(B)])) \notin 2 .. HeadingLimit THEN <<>>
                             ELSE ValidHeadings(Listed(b[Min(B)]), Len(Listed(b[Min(B)])))
  BY DEF InlineInferred
<1>4. A # {} => Listed(a[Min(A)]) = Listed(b[Min(B)])
  BY <1>2 DEF SameLine, Listed
<1>. HIDE DEF A, B
<1>. QED BY <1>1, <1>3, <1>4

LEMMA SameFields ==
  ASSUME NEW a, NEW b, NEW e, Embeds(e, a, b), Blanked(e, a, b)
  PROVE  JsonContract(a).fields = JsonContract(b).fields
<1>. DEFINE A == LinesWith(a, "json")
            B == LinesWith(b, "json")
<1>1. /\ A = {} <=> B = {}
      /\ A # {} => Min(A) \in A /\ Min(B) = e[Min(A)]
      /\ \A i \in A : i \in DOMAIN a
  <2>1. A \in SUBSET DOMAIN a /\ B \in SUBSET DOMAIN b /\ Carried(e, A, B)
    BY WordingCarried
  <2>. HIDE DEF A, B
  <2>. QED BY <2>1, FirstCarried
<1>2. A # {} => SameLine(a[Min(A)], b[Min(B)])
  BY <1>1 DEF Embeds
<1>3. /\ JsonContract(a).fields = IF A = {} THEN <<>> ELSE Keyed(a[Min(A)].tail)
      /\ JsonContract(b).fields = IF B = {} THEN <<>> ELSE Keyed(b[Min(B)].tail)
  BY DEF JsonContract
<1>4. A # {} => a[Min(A)].tail = b[Min(B)].tail
  BY <1>2 DEF SameLine
<1>. HIDE DEF A, B
<1>. QED BY <1>1, <1>3, <1>4

\* A table that a asks for and shows, b asks for and shows.
LEMMA SameTable ==
  ASSUME NEW a, NEW b, NEW e, Embeds(e, a, b), TableContract(a) # <<>>
  PROVE  TableContract(b) # <<>>
<1>. DEFINE tables(c) == {i \in LinesWith(c, "pipe") : Len(c[i].tail) >= 2 /\ ~c[i].bullet}
            B == tables(b)
            header == b[Min(B)].tail
<1>1. \A i \in DOMAIN a : e[i] \in DOMAIN b /\ SameLine(a[i], b[e[i]])
  BY DEF Embeds
<1>2. LinesWith(a, "table") # {} /\ tables(a) # {}
  BY DEF TableContract
<1>3. LinesWith(b, "table") # {} /\ B # {}
  BY <1>1, <1>2 DEF LinesWith, SameLine
<1>4. B \in SUBSET Nat
  BY Monotone DEF LinesWith
<1>5. Min(B) \in B
  <2>. HIDE DEF B
  <2>. QED BY <1>3, <1>4, MinOf
<1>6. Min(B) \in DOMAIN b /\ Len(header) >= 2
  BY <1>5 DEF LinesWith
<1>7. header \in Seq(Glued)
  <2>1. b[Min(B)] \in TaskLine
    <3>. HIDE DEF B
    <3>. QED BY <1>6 DEF Embeds
  <2>. QED BY <2>1 DEF TaskLine, Glued
<1>8. TableContract(b) = [i \in DOMAIN header |-> header[i].text]
  BY <1>3 DEF TableContract
<1>. HIDE DEF header
<1>9. 1 \in DOMAIN header
  BY <1>6, <1>7
<1>10. 1 \in DOMAIN TableContract(b)
  BY <1>8, <1>9
<1>11. DOMAIN <<>> = {}
  OBVIOUS
<1>. QED BY <1>10, <1>11

(***************************************************************************)
(* Its numbered lists                                                      *)
(***************************************************************************)
\* The numbered lines that are searched.
Searched(lines) == {i \in Segment(lines) : lines[i].number > 0}

LEMMA SearchedCarried ==
  ASSUME NEW a, NEW b, NEW e, Embeds(e, a, b), Blanked(e, a, b)
  PROVE  /\ Searched(a) \in SUBSET DOMAIN a /\ Searched(b) \in SUBSET DOMAIN b
         /\ Carried(e, Searched(a), Searched(b))
<1>. DEFINE cues(l)   == {i \in DOMAIN l : l[i].wording \in {"counted", "inferred", "cue", "each"}}
            marked(l) == {i \in DOMAIN l : l[i].marker # "none"}
            start(l)  == IF marked(l) = {} THEN 1 ELSE Min(marked(l))
            opens(l)  == IF marked(l) = {} THEN l[1].lead = <<>> /\ ~l[1].bullet
                                           ELSE l[start(l)].marker = "opens"
            after(l)  == {i \in cues(l) : i >= start(l)}
            last(l)   == IF after(l) = {} \/ (opens(l) /\ start(l) \in cues(l)) THEN Len(l)
                         ELSE Min(after(l)) - 1
<1>1. \A l : Segment(l) = IF cues(l) = {} THEN {} ELSE start(l) .. last(l)
  BY DEF Segment
<1>2. /\ \A i \in DOMAIN a : e[i] \in DOMAIN b /\ SameLine(a[i], b[e[i]])
      /\ \A j \in DOMAIN b : (\E i \in DOMAIN a : e[i] = j) \/ Blank(b[j])
      /\ 1 \in DOMAIN a /\ e[1] = 1 /\ a[1].bullet = b[1].bullet
  BY DEF Embeds, Blanked
<1>3. /\ Len(a) \in Nat /\ DOMAIN a = 1 .. Len(a)
      /\ Len(b) \in Nat /\ DOMAIN b = 1 .. Len(b)
      /\ \A i, j \in DOMAIN a : (i < j <=> e[i] < e[j]) /\ (i <= j <=> e[i] <= e[j])
  BY Monotone
<1>4. Carried(e, cues(a), cues(b))
  BY <1>2 DEF Carried, SameLine, Blank
<1>5. Carried(e, marked(a), marked(b))
  BY <1>2 DEF Carried, SameLine, Blank
<1>6. /\ cues(a) \in SUBSET DOMAIN a /\ cues(b) \in SUBSET DOMAIN b
      /\ marked(a) \in SUBSET DOMAIN a /\ marked(b) \in SUBSET DOMAIN b
  OBVIOUS
<1>7. /\ cues(a) = {} <=> cues(b) = {}
      /\ marked(a) = {} <=> marked(b) = {}
      /\ marked(a) # {} => Min(marked(a)) \in marked(a) /\ Min(marked(b)) = e[Min(marked(a))]
  <2>. HIDE DEF cues, marked
  <2>. QED BY <1>4, <1>5, <1>6, FirstCarried
<1>8. start(a) \in DOMAIN a /\ start(b) = e[start(a)]
  <2>. HIDE DEF marked
  <2>. QED BY <1>2, <1>6, <1>7
<1>9. opens(a) <=> opens(b)
  <2>1. CASE marked(a) = {}
    BY <1>2, <1>7, <2>1 DEF SameLine
  <2>2. CASE marked(a) # {}
    <3>1. SameLine(a[start(a)], b[start(b)]) /\ marked(b) # {}
      <4>. HIDE DEF marked, start
      <4>. QED BY <1>2, <1>7, <1>8, <2>2
    <3>2. (opens(a) <=> a[start(a)].marker = "opens") /\ (opens(b) <=> b[start(b)].marker = "opens")
      <4>. HIDE DEF marked, start
      <4>. QED BY <2>2, <3>1
    <3>. HIDE DEF opens, start
    <3>. QED BY <3>1, <3>2 DEF SameLine
  <2>. QED BY <2>1, <2>2
<1>10. \A i \in DOMAIN a : i \in cues(a) <=> e[i] \in cues(b)
  BY <1>2 DEF SameLine
<1>. HIDE DEF start, opens, marked, cues
<1>11. Carried(e, after(a), after(b))
  BY <1>3, <1>4, <1>6, <1>8 DEF Carried
<1>12. /\ after(a) = {} <=> after(b) = {}
       /\ after(a) # {} => Min(after(a)) \in DOMAIN a /\ Min(after(b)) = e[Min(after(a))]
  <2>1. after(a) \in SUBSET DOMAIN a /\ after(b) \in SUBSET DOMAIN b
    BY <1>6
  <2>. HIDE DEF after
  <2>. QED BY <1>11, <2>1, FirstCarried
<1>. HIDE DEF after
<1>13. \A i \in DOMAIN a : i <= last(a) <=> e[i] <= last(b)
  <2>1. CASE after(a) = {} \/ (opens(a) /\ start(a) \in cues(a))
    <3>1. last(a) = Len(a) /\ last(b) = Len(b)
      BY <1>8, <1>9, <1>10, <1>12, <2>1
    <3>. QED BY <1>2, <1>3, <3>1
  <2>2. CASE ~(after(a) = {} \/ (opens(a) /\ start(a) \in cues(a)))
    <3>. DEFINE m == Min(after(a))
    <3>1. /\ last(a) = m - 1 /\ last(b) = e[m] - 1 /\ m \in DOMAIN a
      BY <1>8, <1>9, <1>10, <1>12, <2>2
    <3>. HIDE DEF last, m
    <3>2. \A i \in DOMAIN a : i <= m - 1 <=> i < m
      BY <1>3, <3>1
    <3>3. \A i \in DOMAIN a : e[i] <= e[m] - 1 <=> e[i] < e[m]
      BY <1>2, <1>3, <3>1
    <3>. QED BY <1>3, <3>1, <3>2, <3>3
  <2>. QED BY <2>1, <2>2
<1>14. last(a) \in Int /\ last(b) \in Int /\ start(a) \in Nat /\ start(b) \in Nat
  <2>1. start(a) \in Nat /\ start(b) \in Nat
    BY <1>2, <1>3, <1>8
  <2>2. after(a) # {} => Min(after(a)) \in Nat /\ Min(after(b)) \in Nat
    BY <1>2, <1>3, <1>12
  <2>. QED BY <1>3, <1>12, <2>1, <2>2
<1>15. Segment(a) \in SUBSET DOMAIN a /\ Segment(b) \in SUBSET DOMAIN b
  BY SegmentIs DEF Embeds
<1>. HIDE DEF last
<1>16. \A i \in DOMAIN a : i \in Segment(a) <=> e[i] \in Segment(b)
  <2>. TAKE i \in DOMAIN a
  <2>1. i \in start(a) .. last(a) <=> e[i] \in start(b) .. last(b)
    <3>1. start(a) <= i <=> start(b) <= e[i]
      BY <1>3, <1>8
    <3>2. i <= last(a) <=> e[i] <= last(b)
      BY <1>13
    <3>3. i \in Int /\ e[i] \in Int
      BY <1>2, <1>3
    <3>. QED BY <1>14, <3>1, <3>2, <3>3
  <2>. QED BY <1>1, <1>7, <2>1
<1>17. Carried(e, Searched(a), Searched(b))
  <2>1. \A i \in DOMAIN a : a[i].number = b[e[i]].number
    BY <1>2 DEF SameLine
  <2>2. \A j \in DOMAIN b : b[j].number > 0 => \E i \in DOMAIN a : e[i] = j
    BY <1>2 DEF Blank
  <2>3. \A i \in Searched(a) : e[i] \in Searched(b)
    BY <1>15, <1>16, <2>1 DEF Searched
  <2>4. \A j \in Searched(b) : \E i \in Searched(a) : e[i] = j
    <3>. TAKE j \in Searched(b)
    <3>1. j \in Segment(b) /\ b[j].number > 0 /\ j \in DOMAIN b
      BY <1>15 DEF Searched
    <3>2. PICK i \in DOMAIN a : e[i] = j
      BY <2>2, <3>1
    <3>3. i \in Searched(a)
      BY <1>16, <2>1, <3>1, <3>2 DEF Searched
    <3>. QED BY <3>2, <3>3
  <2>. QED BY <2>3, <2>4 DEF Carried
<1>. QED BY <1>15, <1>17 DEF Searched

LEMMA SameRuns ==
  ASSUME NEW a, NEW b, NEW e, Embeds(e, a, b), Blanked(e, a, b)
  PROVE  NumberedRuns(a, Segment(a)) = NumberedRuns(b, Segment(b))
<1>. DEFINE p == Ascending(Searched(a))
            q == Ascending(Searched(b))
            N == Cardinality(Searched(a))
<1>1. /\ N \in Nat /\ DOMAIN p = 1 .. N /\ DOMAIN q = 1 .. N
      /\ \A n \in 1 .. N : p[n] \in Searched(a) /\ q[n] = e[p[n]]
  BY SearchedCarried, OrderCarried
<1>2. \A n \in 1 .. N : p[n] \in DOMAIN a
  BY <1>1, SearchedCarried
<1>3. \A n \in 1 .. N : a[p[n]].number = b[q[n]].number /\ a[p[n]].lead = b[q[n]].lead
  <2>1. \A i \in DOMAIN a : a[i].number = b[e[i]].number /\ a[i].lead = b[e[i]].lead
    BY DEF Embeds, SameLine
  <2>. HIDE DEF p, q, N
  <2>. QED BY <1>1, <1>2, <2>1
<1>. DEFINE countsA(s, n) == \A k \in 1 .. n : s + k - 1 \in DOMAIN p /\ a[p[s + k - 1]].number = k
            countsB(s, n) == \A k \in 1 .. n : s + k - 1 \in DOMAIN q /\ b[q[s + k - 1]].number = k
            startsA    == Ascending({s \in DOMAIN p : countsA(s, 2)})
            startsB    == Ascending({s \in DOMAIN q : countsB(s, 2)})
            lengthA(s) == Max({n \in DOMAIN p : countsA(s, n)})
            lengthB(s) == Max({n \in DOMAIN q : countsB(s, n)})
            runA(s)    == [k \in 1 .. lengthA(s) |-> a[p[s + k - 1]].lead]
            runB(s)    == [k \in 1 .. lengthB(s) |-> b[q[s + k - 1]].lead]
<1>4. /\ NumberedRuns(a, Segment(a)) = [r \in DOMAIN startsA |-> runA(startsA[r])]
      /\ NumberedRuns(b, Segment(b)) = [r \in DOMAIN startsB |-> runB(startsB[r])]
  BY DEF NumberedRuns, Searched
<1>. HIDE DEF p, q, N
<1>5. \A s, n : countsA(s, n) <=> countsB(s, n)
  BY <1>1, <1>3
<1>. HIDE DEF countsA, countsB
<1>6. startsA = startsB
  <2>1. {s \in DOMAIN p : countsA(s, 2)} = {s \in DOMAIN q : countsB(s, 2)}
    BY <1>1, <1>5
  <2>. QED BY <2>1
<1>7. \A s : lengthA(s) = lengthB(s)
  <2>. TAKE s
  <2>1. {n \in DOMAIN p : countsA(s, n)} = {n \in DOMAIN q : countsB(s, n)}
    BY <1>1, <1>5
  <2>. QED BY <2>1
<1>8. ASSUME NEW r \in DOMAIN startsA PROVE runA(startsA[r]) = runB(startsB[r])
  <2>. DEFINE s == startsA[r]
              T == {n \in DOMAIN p : countsA(s, n)}
              m == lengthA(s)
              pairs == {x \in DOMAIN p : countsA(x, 2)}
  <2>1. s \in pairs
    <3>1. pairs \in SUBSET Nat /\ pairs \subseteq 1 .. N
      BY <1>1
    <3>2. IsFiniteSet(1 .. N)
      BY <1>1, UpToCount
    <3>3. IsFiniteSet(pairs)
      BY <3>1, <3>2, FS_Subset
    <3>. HIDE DEF pairs
    <3>4. Risen(Ascending(pairs), pairs)
      BY <3>1, <3>3, AscendingIs
    <3>5. startsA = Ascending(pairs)
      BY DEF pairs
    <3>. HIDE DEF startsA
    <3>. QED BY <1>8, <3>4, <3>5 DEF Risen, Range
  <2>2. s \in 1 .. N /\ countsA(s, 2)
    BY <1>1, <2>1
  <2>. HIDE DEF s
  <2>3. 2 \in T
    <3>1. 2 \in 1 .. 2 /\ s + 2 - 1 \in DOMAIN p
      BY <2>2 DEF countsA
    <3>2. 2 \in DOMAIN p
      BY <1>1, <2>2, <3>1
    <3>. QED BY <2>2, <3>2
  <2>4. T \in SUBSET (0 .. N) /\ T # {}
    <3>1. \A n \in T : n \in 1 .. N
      BY <1>1
    <3>2. T # {}
      BY <2>3
    <3>. HIDE DEF T
    <3>. QED BY <1>1, <3>1, <3>2
  <2>5. m \in T
    <3>1. m = Max(T)
      OBVIOUS
    <3>. HIDE DEF T, m
    <3>. QED BY <1>1, <2>4, <3>1, MaxOf
  <2>6. m \in Nat /\ countsA(s, m)
    BY <1>1, <2>5
  <2>7. m = lengthB(s)
    BY <1>7
  <2>. HIDE DEF T, lengthA, lengthB, m
  <2>8. \A k \in 1 .. m : a[p[s + k - 1]].lead = b[q[s + k - 1]].lead
    BY <1>1, <1>3, <2>6 DEF countsA
  <2>9. /\ runA(s) = [k \in 1 .. m |-> a[p[s + k - 1]].lead]
        /\ runB(s) = [k \in 1 .. m |-> b[q[s + k - 1]].lead]
    BY <2>7 DEF m
  <2>. HIDE DEF runA, runB
  <2>10. runA(s) = runB(s)
    BY <2>8, <2>9
  <2>11. s = startsB[r]
    BY <1>6 DEF s
  <2>. HIDE DEF startsA, startsB
  <2>. QED BY <2>10, <2>11 DEF s
<1>. HIDE DEF startsA, startsB, runA, runB
<1>. QED BY <1>4, <1>6, <1>8

LEMMA SameCued ==
  ASSUME NEW a, NEW b, NEW e, Embeds(e, a, b), Blanked(e, a, b)
  PROVE  CuedNumbered(a) = CuedNumbered(b)
<1>. DEFINE stated(l) == {i \in DOMAIN l : l[i].arabic /\ l[i].count # <<>>}
            counts(l) == IF stated(l) = {} THEN {} ELSE {ChineseInteger(l[Min(stated(l))].count)} \ {0}
            run(l)    == ChosenRun(NumberedRuns(l, Segment(l)), counts(l))
<1>1. /\ CuedNumbered(a) = ValidHeadings(run(a), Len(run(a)))
      /\ CuedNumbered(b) = ValidHeadings(run(b), Len(run(b)))
  BY DEF CuedNumbered
<1>2. /\ \A i \in DOMAIN a : e[i] \in DOMAIN b /\ SameLine(a[i], b[e[i]])
      /\ \A j \in DOMAIN b : (\E i \in DOMAIN a : e[i] = j) \/ Blank(b[j])
  BY DEF Embeds, Blanked
<1>3. Carried(e, stated(a), stated(b))
  BY <1>2 DEF Carried, SameLine, Blank
<1>4. stated(a) \in SUBSET DOMAIN a /\ stated(b) \in SUBSET DOMAIN b
  OBVIOUS
<1>. HIDE DEF stated
<1>5. /\ stated(a) = {} <=> stated(b) = {}
      /\ stated(a) # {} => Min(stated(a)) \in stated(a) /\ Min(stated(b)) = e[Min(stated(a))]
  BY <1>3, <1>4, FirstCarried
<1>6. stated(a) # {} => a[Min(stated(a))].count = b[Min(stated(b))].count
  BY <1>2, <1>4, <1>5 DEF SameLine
<1>7. counts(a) = counts(b)
  BY <1>5, <1>6
<1>8. NumberedRuns(a, Segment(a)) = NumberedRuns(b, Segment(b))
  BY SameRuns
<1>. HIDE DEF counts
<1>. QED BY <1>1, <1>7, <1>8

LEMMA KindIs ==
  ASSUME NEW c
  PROVE  Kind(c) # "generic" <=> c.fields # <<>> \/ c.headings # <<>> \/ c.columns # <<>>
<1>. DEFINE kinds == {k \in {"fields", "headings", "columns"} : c[k] # <<>>}
<1>1. Kind(c) = CASE kinds = {} -> "generic"
                  [] Cardinality(kinds) > 1 -> "mixed"
                  [] OTHER -> CHOOSE k \in kinds : TRUE
  BY DEF Kind
<1>2. kinds # {} => (CHOOSE k \in kinds : TRUE) \in kinds
  OBVIOUS
<1>3. kinds # {} <=> c.fields # <<>> \/ c.headings # <<>> \/ c.columns # <<>>
  OBVIOUS
<1>4. kinds \subseteq {"fields", "headings", "columns"} /\ "generic" \notin kinds
  OBVIOUS
<1>5. Cardinality({}) = 0
  BY FS_EmptySet
<1>. HIDE DEF kinds
<1>. QED BY <1>1, <1>2, <1>3, <1>4, <1>5

\* Lines that say nothing the readings look for change neither the headings
\* that are read nor the keys, and bullets can only hide a table.
LEMMA SameReadings ==
  ASSUME NEW a, NEW b, NEW e, Embeds(e, a, b), Blanked(e, a, b)
  PROVE  /\ MarkdownContract(a) = MarkdownContract(b)
         /\ Kind(Explicit(a)) # "generic" => Kind(Explicit(b)) # "generic"
<1>1. /\ InlineDelimited(a) = InlineDelimited(b) /\ MustContain(a) = MustContain(b)
      /\ InlineInferred(a) = InlineInferred(b) /\ CuedNumbered(a) = CuedNumbered(b)
  BY SameAnnounced, SameInferred, SameCued DEF InlineDelimited, MustContain
<1>2. MarkdownContract(a) = MarkdownContract(b)
  BY <1>1 DEF MarkdownContract
<1>3. \A l : /\ Explicit(l).fields = JsonContract(l).fields
             /\ Explicit(l).headings = MarkdownContract(l)
             /\ Explicit(l).columns = TableContract(l)
  BY DEF Explicit
<1>. QED BY <1>2, <1>3, SameFields, SameTable, KindIs

(***************************************************************************)
(* What the nodes see of a ticket                                          *)
(***************************************************************************)
Dropped(t) == {l \in Range(t.requirements) : IsControl(l)}

LEMMA Joined ==
  ASSUME NEW S, NEW x \in Seq(S), NEW y \in Seq(S)
  PROVE  /\ x \o y \in Seq(S) /\ Len(x \o y) = Len(x) + Len(y)
         /\ DOMAIN (x \o y) = 1 .. Len(x) + Len(y)
         /\ \A i \in 1 .. Len(x) : (x \o y)[i] = x[i]
         /\ \A i \in Len(x) + 1 .. Len(x) + Len(y) : (x \o y)[i] = y[i - Len(x)]
OBVIOUS

LEMMA InJoined ==
  ASSUME NEW S, NEW x \in Seq(S), NEW y \in Seq(S), NEW i \in DOMAIN (x \o y)
  PROVE  (x \o y)[i] \in Range(x) \cup Range(y)
<1>. DEFINE m == Len(x)
            n == Len(y)
<1>1. m \in Nat /\ n \in Nat /\ DOMAIN x = 1 .. m /\ DOMAIN y = 1 .. n
  OBVIOUS
<1>2. /\ i \in 1 .. m + n
      /\ \A k \in 1 .. m : (x \o y)[k] = x[k]
      /\ \A k \in m + 1 .. m + n : (x \o y)[k] = y[k - m]
  BY Joined
<1>. HIDE DEF m, n
<1>3. CASE i \in 1 .. m
  <2>1. x[i] \in Range(x)
    BY <1>1, <1>3 DEF Range
  <2>. QED BY <1>2, <1>3, <2>1
<1>4. CASE i \in m + 1 .. m + n
  <2>. DEFINE k == i - m
  <2>1. k \in 1 .. n
    BY <1>1, <1>4
  <2>2. y[k] \in Range(y)
    BY <1>1, <2>1 DEF Range
  <2>3. (x \o y)[i] = y[k]
    BY <1>2, <1>4
  <2>. QED BY <2>2, <2>3
<1>. QED BY <1>1, <1>2, <1>3, <1>4

\* The lines that the nodes see are lines of the ticket in their order, and the
\* others are requirements that name the mechanics.
LEMMA BusinessIs ==
  ASSUME NEW t \in Tickets
  PROVE  \E e : /\ Embeds(e, BusinessTask(t), FullTask(t))
                /\ \A j \in DOMAIN FullTask(t) :
                     \/ \E i \in DOMAIN BusinessTask(t) : e[i] = j
                     \/ FullTask(t)[j] \in Dropped(t)
<1>. DEFINE u == t.question
            r == t.requirements
            v == t.evidence
            plain == {i \in DOMAIN r : ~IsControl(r[i])}
            kept  == Ascending(plain)
            K     == Cardinality(plain)
            mid   == [n \in DOMAIN kept |-> [r[kept[n]] EXCEPT !.bullet = TRUE]]
            a     == BusinessTask(t)
            b     == FullTask(t)
<1>1. a = (u \o mid) \o v /\ b = (u \o r) \o v
  BY DEF BusinessTask, FullTask
<1>2. /\ u \in Seq(TaskLine) /\ r \in Seq(TaskLine) /\ v \in Seq(TaskLine) /\ u # <<>>
  BY TicketLines
<1>. DEFINE Q == Len(u)
            R == Len(r)
            E == Len(v)
<1>3. /\ Q \in Nat \ {0} /\ R \in Nat /\ E \in Nat
      /\ DOMAIN u = 1 .. Q /\ DOMAIN r = 1 .. R /\ DOMAIN v = 1 .. E
  <2>. HIDE DEF u, r, v
  <2>. QED BY <1>2
<1>. HIDE DEF u, r, v, a, b
<1>4. Risen(kept, plain)
  <2>1. plain \subseteq 1 .. R /\ plain \in SUBSET Nat
    BY <1>3
  <2>2. IsFiniteSet(1 .. R)
    BY <1>3, UpToCount
  <2>3. IsFiniteSet(plain)
    BY <2>1, <2>2, FS_Subset
  <2>. HIDE DEF plain
  <2>. QED BY <2>1, <2>3, AscendingIs
<1>5. /\ K \in Nat /\ DOMAIN kept = 1 .. K
      /\ \A n \in 1 .. K : kept[n] \in 1 .. R
      /\ \A m, n \in 1 .. K : m < n => kept[m] < kept[n]
      /\ \A i \in 1 .. R : ~IsControl(r[i]) => \E n \in 1 .. K : kept[n] = i
  BY <1>3, <1>4 DEF Risen, Range
<1>. HIDE DEF K, kept, plain, Q, R, E
<1>6. \A n \in 1 .. K : r[kept[n]] \in TaskLine
  BY <1>2, <1>3, <1>5
<1>7. ASSUME NEW l \in TaskLine
      PROVE  /\ [l EXCEPT !.bullet = TRUE] \in TaskLine
             /\ SameLine([l EXCEPT !.bullet = TRUE], l)
  BY DEF TaskLine, SameLine
<1>8. mid = [n \in 1 .. K |-> [r[kept[n]] EXCEPT !.bullet = TRUE]]
  BY <1>5
<1>9. /\ mid \in Seq(TaskLine) /\ Len(mid) = K
      /\ \A n \in 1 .. K : SameLine(mid[n], r[kept[n]])
  <2>1. mid \in [1 .. K -> TaskLine]
    BY <1>6, <1>7, <1>8
  <2>2. mid \in Seq(TaskLine) /\ Len(mid) = K
    BY <1>5, <2>1
  <2>3. \A n \in 1 .. K : mid[n] = [r[kept[n]] EXCEPT !.bullet = TRUE]
    BY <1>8
  <2>. QED BY <1>6, <1>7, <2>2, <2>3
<1>. HIDE DEF mid
<1>. DEFINE x == u \o mid
            y == u \o r
<1>10. /\ x \in Seq(TaskLine) /\ Len(x) = Q + K
       /\ \A i \in 1 .. Q : x[i] = u[i]
       /\ \A i \in Q + 1 .. Q + K : x[i] = mid[i - Q]
  BY <1>2, <1>9, Joined DEF Q
<1>11. /\ y \in Seq(TaskLine) /\ Len(y) = Q + R
       /\ \A i \in 1 .. Q : y[i] = u[i]
       /\ \A i \in Q + 1 .. Q + R : y[i] = r[i - Q]
  BY <1>2, Joined DEF Q, R
<1>. HIDE DEF x, y
<1>12. /\ a \in Seq(TaskLine) /\ DOMAIN a = 1 .. Q + K + E
       /\ \A i \in 1 .. Q + K : a[i] = x[i]
       /\ \A i \in Q + K + 1 .. Q + K + E : a[i] = v[i - (Q + K)]
  <2>1. a = x \o v
    BY <1>1 DEF x
  <2>. QED BY <1>2, <1>10, <2>1, Joined DEF E
<1>13. /\ b \in Seq(TaskLine) /\ DOMAIN b = 1 .. Q + R + E
       /\ \A i \in 1 .. Q + R : b[i] = y[i]
       /\ \A i \in Q + R + 1 .. Q + R + E : b[i] = v[i - (Q + R)]
  <2>1. b = y \o v
    BY <1>1 DEF y
  <2>. QED BY <1>2, <1>11, <2>1, Joined DEF E
<1>. DEFINE at(i) == IF i <= Q THEN i ELSE IF i <= Q + K THEN Q + kept[i - Q] ELSE Q + R + (i - (Q + K))
            e     == [i \in DOMAIN a |-> at(i)]
<1>14. \A i \in 1 .. Q + K + E :
         \/ i \in 1 .. Q /\ at(i) = i
         \/ i \in Q + 1 .. Q + K /\ i - Q \in 1 .. K /\ at(i) = Q + kept[i - Q]
         \/ i \in Q + K + 1 .. Q + K + E /\ i - (Q + K) \in 1 .. E /\ at(i) = Q + R + (i - (Q + K))
  BY <1>3, <1>5
<1>15. \A i \in 1 .. Q + K + E : at(i) \in 1 .. Q + R + E
  <2>1. \A n \in 1 .. K : Q + kept[n] \in 1 .. Q + R + E
    BY <1>3, <1>5
  <2>2. \A n \in 1 .. E : Q + R + n \in 1 .. Q + R + E
    BY <1>3
  <2>3. \A n \in 1 .. Q : n \in 1 .. Q + R + E
    BY <1>3
  <2>. HIDE DEF at
  <2>. QED BY <1>14, <2>1, <2>2, <2>3
<1>16. ASSUME NEW i \in 1 .. Q + K + E, NEW j \in 1 .. Q + K + E, i < j PROVE at(i) < at(j)
  <2>1. \A m, n \in 1 .. K : m < n => Q + kept[m] < Q + kept[n]
    BY <1>3, <1>5
  <2>2. \A n \in 1 .. K : Q < Q + kept[n] /\ Q + kept[n] < Q + R + 1 /\ Q + kept[n] \in Nat
    BY <1>3, <1>5
  <2>3. CASE i <= Q
    <3>1. at(i) = i
      BY <2>3
    <3>2. CASE j <= Q
      BY <1>16, <3>1, <3>2
    <3>3. CASE Q < j /\ j <= Q + K
      <4>1. j - Q \in 1 .. K /\ at(j) = Q + kept[j - Q]
        BY <1>3, <1>5, <3>3
      <4>2. Q < Q + kept[j - Q] /\ Q + kept[j - Q] \in Nat
        BY <2>2, <4>1
      <4>. QED BY <1>3, <2>3, <3>1, <4>1, <4>2
    <3>4. CASE Q + K < j
      BY <1>3, <1>5, <2>3, <3>1, <3>4
    <3>. QED BY <1>3, <1>5, <3>2, <3>3, <3>4
  <2>4. CASE Q < i /\ i <= Q + K
    <3>1. i - Q \in 1 .. K /\ at(i) = Q + kept[i - Q]
      BY <1>3, <1>5, <2>4
    <3>2. Q + kept[i - Q] < Q + R + 1 /\ Q + kept[i - Q] \in Nat
      BY <2>2, <3>1
    <3>3. CASE j <= Q + K
      <4>1. j - Q \in 1 .. K /\ at(j) = Q + kept[j - Q] /\ i - Q < j - Q
        BY <1>3, <1>5, <1>16, <2>4, <3>3
      <4>. HIDE DEF at
      <4>. QED BY <2>1, <3>1, <4>1
    <3>4. CASE Q + K < j
      <4>1. at(j) = Q + R + (j - (Q + K)) /\ j - (Q + K) \in Nat \ {0}
        BY <1>3, <1>5, <3>4
      <4>. HIDE DEF at
      <4>. QED BY <1>3, <3>1, <3>2, <4>1
    <3>. QED BY <1>3, <1>5, <3>3, <3>4
  <2>5. CASE Q + K < i
    BY <1>3, <1>5, <1>16, <2>5
  <2>. QED BY <1>3, <1>5, <2>3, <2>4, <2>5
<1>17. ASSUME NEW i \in 1 .. Q + K + E PROVE SameLine(a[i], b[at(i)])
  <2>1. \A l : SameLine(l, l)
    BY DEF SameLine
  <2>2. CASE i \in 1 .. Q /\ at(i) = i
    <3>1. i \in 1 .. Q + K /\ i \in 1 .. Q + R
      BY <1>3, <1>5, <2>2
    <3>2. a[i] = u[i] /\ b[i] = u[i]
      BY <1>10, <1>11, <1>12, <1>13, <2>2, <3>1
    <3>. HIDE DEF at
    <3>. QED BY <2>1, <2>2, <3>2
  <2>3. CASE i \in Q + 1 .. Q + K /\ i - Q \in 1 .. K /\ at(i) = Q + kept[i - Q]
    <3>1. i \in 1 .. Q + K /\ a[i] = mid[i - Q]
      BY <1>3, <1>5, <1>10, <1>12, <2>3
    <3>. DEFINE k == kept[i - Q]
    <3>2. k \in 1 .. R
      BY <1>5, <2>3
    <3>3. Q + k \in Q + 1 .. Q + R /\ Q + k \in 1 .. Q + R /\ Q + k - Q = k
      BY <1>3, <3>2
    <3>4. b[Q + k] = r[k]
      <4>. HIDE DEF k
      <4>1. b[Q + k] = y[Q + k]
        BY <1>13, <3>3
      <4>2. y[Q + k] = r[k]
        <5>. DEFINE z == Q + k
        <5>1. z \in Q + 1 .. Q + R /\ z - Q = k
          BY <1>3, <3>2, <3>3
        <5>. HIDE DEF z
        <5>2. y[z] = r[z - Q]
          BY <1>11, <5>1
        <5>. QED BY <5>1, <5>2 DEF z
      <4>. QED BY <3>3, <4>1, <4>2
    <3>5. SameLine(mid[i - Q], r[k])
      BY <1>9, <2>3
    <3>. HIDE DEF at, k
    <3>. QED BY <2>3, <3>1, <3>4, <3>5 DEF k
  <2>4. CASE /\ i \in Q + K + 1 .. Q + K + E /\ i - (Q + K) \in 1 .. E
             /\ at(i) = Q + R + (i - (Q + K))
    <3>. DEFINE n == i - (Q + K)
    <3>1. a[i] = v[n]
      BY <1>12, <2>4
    <3>2. /\ Q + R + n \in Q + R + 1 .. Q + R + E /\ (Q + R + n) - (Q + R) = n
      BY <1>3, <2>4
    <3>3. b[Q + R + n] = v[n]
      BY <1>13, <3>2
    <3>. HIDE DEF at
    <3>. QED BY <2>1, <2>4, <3>1, <3>3
  <2>. HIDE DEF at
  <2>. QED BY <1>14, <2>2, <2>3, <2>4
<1>18. 1 \in 1 .. Q + K + E /\ at(1) = 1 /\ a[1].bullet = b[1].bullet
  <2>1. 1 \in 1 .. Q /\ 1 \in 1 .. Q + K /\ 1 \in 1 .. Q + R /\ 1 \in 1 .. Q + K + E
    BY <1>3, <1>5
  <2>2. a[1] = u[1] /\ b[1] = u[1]
    BY <1>10, <1>11, <1>12, <1>13, <2>1
  <2>. QED BY <1>3, <2>1, <2>2
<1>19. \A i \in DOMAIN a : e[i] = at(i)
  OBVIOUS
<1>20. Embeds(e, a, b)
  <2>1. e \in [DOMAIN a -> DOMAIN b]
    <3>1. \A i \in DOMAIN a : at(i) \in DOMAIN b
      BY <1>12, <1>13, <1>15
    <3>. HIDE DEF at
    <3>. QED BY <3>1
  <2>. HIDE DEF at, e
  <2>. QED BY <1>12, <1>13, <1>16, <1>17, <1>18, <1>19, <2>1 DEF Embeds
<1>21. ASSUME NEW j \in DOMAIN b
       PROVE  (\E i \in DOMAIN a : e[i] = j) \/ b[j] \in Dropped(t)
  <2>1. CASE j <= Q
    <3>1. j \in DOMAIN a /\ at(j) = j
      BY <1>3, <1>5, <1>12, <1>13, <2>1
    <3>. HIDE DEF at, e
    <3>. QED BY <1>19, <3>1
  <2>2. CASE Q < j /\ j <= Q + R
    <3>. DEFINE k == j - Q
    <3>1. k \in 1 .. R /\ b[j] = r[k]
      <4>1. j \in 1 .. Q + R /\ j \in Nat /\ ~(j <= Q)
        BY <1>3, <1>13, <2>2
      <4>2. k \in 1 .. R
        BY <1>3, <2>2, <4>1
      <4>3. b[j] = y[j]
        BY <1>13, <4>1
      <4>4. j \in Q + 1 .. Q + R
        BY <1>3, <2>2, <4>1
      <4>5. y[j] = r[j - Q]
        BY <1>11, <4>4
      <4>. QED BY <4>2, <4>3, <4>5
    <3>2. CASE IsControl(r[k])
      <4>1. r[k] \in Range(r)
        BY <1>3, <3>1 DEF Range
      <4>. QED BY <3>1, <3>2, <4>1 DEF Dropped, r
    <3>3. CASE ~IsControl(r[k])
      <4>1. PICK n \in 1 .. K : kept[n] = k
        BY <1>5, <3>1, <3>3
      <4>2. Q + n \in DOMAIN a /\ at(Q + n) = Q + kept[n]
        BY <1>3, <1>5, <1>12
      <4>3. Q + kept[n] = j
        BY <1>3, <1>13, <4>1
      <4>. HIDE DEF at, e
      <4>. QED BY <1>19, <4>2, <4>3
    <3>. QED BY <3>2, <3>3
  <2>3. CASE Q + R < j
    <3>. DEFINE n == j - (Q + R)
    <3>1. n \in 1 .. E
      BY <1>3, <1>13, <2>3
    <3>2. Q + R + n = j
      BY <1>3, <1>13
    <3>3. n \in Nat \ {0}
      BY <1>3, <3>1
    <3>4. Q + K + n \in DOMAIN a /\ at(Q + K + n) = Q + R + n
      <4>. HIDE DEF n
      <4>1. Q + K + n \in 1 .. Q + K + E
        BY <1>3, <1>5, <3>1
      <4>2. ~(Q + K + n <= Q) /\ ~(Q + K + n <= Q + K) /\ (Q + K + n) - (Q + K) = n
        BY <1>3, <1>5, <3>3
      <4>. QED BY <1>12, <4>1, <4>2
    <3>. HIDE DEF at, e, n
    <3>. QED BY <1>19, <3>2, <3>4
  <2>. QED BY <1>3, <1>13, <2>1, <2>2, <2>3
<1>. HIDE DEF e
<1>. QED BY <1>20, <1>21 DEF a, b

\* What a reader without a format of its own sees of a ticket that asks for one.
LEMMA SeenIs ==
  ASSUME NEW lines \in Seq(TaskLine), NEW c, NEW s, s = ProjectTask(lines, c),
         s # lines, NEW headings, headings = Range(MarkdownContract(lines))
  PROVE  /\ Kind(c) = "generic" /\ Kind(Explicit(lines)) # "generic"
         /\ \A i \in DOMAIN lines : Gone(lines[i], headings) \/ Shown(lines[i]) \in Range(s)
         /\ \A m \in Range(s) : \E i \in DOMAIN lines : m = Shown(lines[i])
<1>. DEFINE S    == {i \in DOMAIN lines : ~Gone(lines[i], headings)}
            stay == Ascending(S)
<1>1. /\ Kind(c) = "generic" /\ Kind(Explicit(lines)) # "generic"
      /\ s = [n \in DOMAIN stay |-> Shown(lines[stay[n]])]
  BY DEF ProjectTask
<1>2. Risen(stay, S)
  <2>1. Len(lines) \in Nat /\ DOMAIN lines = 1 .. Len(lines)
    OBVIOUS
  <2>2. S \subseteq 1 .. Len(lines) /\ S \in SUBSET Nat
    BY <2>1
  <2>3. IsFiniteSet(1 .. Len(lines))
    BY <2>1, UpToCount
  <2>4. IsFiniteSet(S)
    BY <2>2, <2>3, FS_Subset
  <2>. HIDE DEF S
  <2>. QED BY <2>2, <2>4, AscendingIs
<1>3. /\ \A n \in DOMAIN stay : stay[n] \in S
      /\ \A i \in S : \E n \in DOMAIN stay : stay[n] = i
  BY <1>2 DEF Risen, Range
<1>4. S \subseteq DOMAIN lines /\ \A i \in DOMAIN lines : i \in S \/ Gone(lines[i], headings)
  OBVIOUS
<1>. HIDE DEF stay, S
<1>5. DOMAIN s = DOMAIN stay /\ \A n \in DOMAIN stay : s[n] = Shown(lines[stay[n]])
  BY <1>1
<1>6. \A i \in S : Shown(lines[i]) \in Range(s)
  BY <1>3, <1>5 DEF Range
<1>7. \A m \in Range(s) : \E n \in DOMAIN stay : m = Shown(lines[stay[n]])
  BY <1>5 DEF Range
<1>. QED BY <1>1, <1>3, <1>4, <1>6, <1>7

\* Of a line with a format demand, what stands before it is shown, up to a verb.
LEMMA BeforeTheVerb ==
  ASSUME NEW l \in TaskLine, NEW w \in Range(l.lead)
  PROVE  w \in Range(Prefix(l)) \/ Range(l.lead) \cap Verbal # {}
<1>. DEFINE verbs == {k \in DOMAIN l.lead : l.lead[k] \in Verbal /\ l.wording # "json"}
<1>1. CASE verbs = {}
  BY <1>1 DEF Prefix
<1>2. CASE verbs # {}
  <2>1. PICK k \in DOMAIN l.lead : l.lead[k] \in Verbal
    BY <1>2
  <2>2. l.lead[k] \in Range(l.lead)
    BY <2>1 DEF Range
  <2>. QED BY <2>1, <2>2
<1>. QED BY <1>1, <1>2

\* A line is hidden, in part or whole, only for the reasons that the property
\* names.
LEMMA HiddenBecause ==
  ASSUME NEW l \in TaskLine, l.wording = "none" => l.tail = <<>>,
         NEW headings, NEW w \in TextsOf(l),
         Gone(l, headings) \/ w \notin TextsOf(Shown(l))
  PROVE  \/ w \in UNION {Range(h) : h \in headings}
         \/ l.wording # "none" /\ w \in {piece.text : piece \in Range(l.tail)}
         \/ l.wording \in FinalFormat /\ (l.bullet \/ Range(l.lead) \cap Verbal # {})
<1>1. w \in Range(l.lead) \/ w \in {piece.text : piece \in Range(l.tail)}
  BY DEF TextsOf
<1>2. CASE l.wording \in FinalFormat
  <2>1. l.wording # "none"
    BY <1>2 DEF FinalFormat
  <2>2. CASE w \in {piece.text : piece \in Range(l.tail)}
    BY <2>1, <2>2
  <2>3. CASE w \in Range(l.lead) /\ w \notin Range(Prefix(l))
    BY <1>2, <2>3, BeforeTheVerb
  <2>4. CASE w \in Range(l.lead) /\ w \in Range(Prefix(l))
    <3>1. Prefix(l) # <<>>
      BY <2>4 DEF Range
    <3>2. w \in TextsOf(Shown(l))
      BY <1>2, <2>4 DEF Shown, Plain, TextsOf
    <3>. QED BY <1>2, <2>1, <3>1, <3>2 DEF Gone
  <2>. QED BY <1>1, <2>2, <2>3, <2>4
<1>3. CASE l.wording \notin FinalFormat
  <2>1. Shown(l) = l
    BY <1>3 DEF Shown
  <2>2. l.wording = "none" /\ l.lead \in headings
    BY <1>3, <2>1 DEF Gone
  <2>3. w \in Range(l.lead)
    BY <1>1, <2>2 DEF Range
  <2>. QED BY <2>2, <2>3
<1>. QED BY <1>2, <1>3

\* The lines of a ticket say nothing after a wording that is none.
LEMMA TicketLine ==
  ASSUME NEW t \in Tickets, NEW j \in DOMAIN FullTask(t)
  PROVE  /\ FullTask(t)[j] \in TaskLine
         /\ FullTask(t)[j].wording = "none" =>
              FullTask(t)[j].tail = <<>> /\ FullTask(t)[j].count = <<>>
<1>. DEFINE x == t.question \o t.requirements
<1>1. /\ t.question \in Seq(TaskLine) /\ t.requirements \in Seq(TaskLine)
      /\ t.evidence \in Seq(TaskLine)
  BY TicketLines
<1>2. t \in [question : Seq(TaskLine) \ {<<>>}, requirements : Seq(TaskLine),
             evidence : Seq(TaskLine)]
  BY TicketAssumption
<1>3. /\ {"question", "requirements", "evidence"} \subseteq DOMAIN t
  BY <1>2
<1>4. \A part \in DOMAIN t : \A l \in Range(t[part]) :
        l.wording = "none" => l.tail = <<>> /\ l.count = <<>>
  BY TicketAssumption
<1>5. \A l : l \in Range(t.question) \cup Range(t.requirements) \cup Range(t.evidence) =>
        (l.wording = "none" => l.tail = <<>> /\ l.count = <<>>)
  BY <1>3, <1>4
<1>6. x \in Seq(TaskLine) /\ FullTask(t) = x \o t.evidence /\ FullTask(t) \in Seq(TaskLine)
  BY <1>1 DEF FullTask
<1>7. \A i \in DOMAIN x : x[i] \in Range(t.question) \cup Range(t.requirements)
  BY <1>1, InJoined
<1>. HIDE DEF x
<1>8. FullTask(t)[j] \in Range(x) \cup Range(t.evidence)
  BY <1>1, <1>6, InJoined
<1>9. Range(x) \subseteq Range(t.question) \cup Range(t.requirements)
  BY <1>7 DEF Range
<1>10. FullTask(t)[j] \in TaskLine
  BY <1>6
<1>. QED BY <1>5, <1>8, <1>9, <1>10

\* WorkReachesNodes: the other nodes miss of a ticket only what became a
\* heading, stands beside a format demand or names the mechanics; of the format
\* they see what the line pattern does not know; and a final expert that has no
\* contract sees the ticket as the others would without one.
THEOREM WorkReachesSafe == ContractSpec => []WorkReachesNodes
<1>1. ContractInv => WorkReachesNodes
  <2>. SUFFICES ASSUME ContractInv, stage \in {"asked", "judged"} PROVE WorkReachesNodes
    BY DEF WorkReachesNodes
  <2>. DEFINE shown    == BusinessTask(ticket)
              whole    == FullTask(ticket)
              internal == seen["internal"]
              texts(lines) == UNION {TextsOf(l) : l \in Range(lines)}
              headings == Range(MarkdownContract(shown))
              beside(l, w) ==
                \/ l.wording # "none" /\ w \in {piece.text : piece \in Range(l.tail)}
                \/ l.wording \in FinalFormat /\ (l.bullet \/ Range(l.lead) \cap Verbal # {})
              dropped  == {l \in Range(ticket.requirements) : IsControl(l)}
              missed   == \A w \in texts(whole) \ texts(internal) :
                            \/ w \in UNION {Range(h) : h \in headings}
                            \/ \E l \in Range(shown) : beside(l, w)
                            \/ \E l \in dropped : w \in TextsOf(l)
              format   == Kind(Explicit(shown)) # "generic" =>
                            {l.wording : l \in Range(internal)}
                              \subseteq {"none", "contain", "each", "nested", "objects", "pipe"}
              expert   == \/ Kind(contract["final"]) # "generic"
                          \/ seen["final"] = shown
                          \/ \E l \in dropped : l.wording # "none" \/ l.marker # "none" \/ l.number > 0
  <2>1. WorkReachesNodes <=> missed /\ format /\ expert
    BY DEF WorkReachesNodes
  <2>2. ticket \in Tickets /\ dropped = Dropped(ticket) /\ stage # "ticket"
    BY DEF ContractInv, Dropped
  <2>3. PICK e : /\ Embeds(e, shown, whole)
                 /\ \A j \in DOMAIN whole : (\E i \in DOMAIN shown : e[i] = j) \/ whole[j] \in dropped
    BY <2>2, BusinessIs
  <2>4. /\ internal = ProjectTask(shown, contract["internal"])
        /\ seen["final"] = ProjectTask(shown, contract["final"])
    BY DEF ContractInv, Reader
  <2>5. contract["final"] = Explicit(whole)
    BY <2>2, FinalContract
  <2>. HIDE DEF shown, whole, internal, headings, dropped
  <2>6. /\ shown \in Seq(TaskLine) /\ whole \in Seq(TaskLine)
        /\ \A i \in DOMAIN shown : /\ shown[i] \in TaskLine /\ e[i] \in DOMAIN whole
                                   /\ SameLine(shown[i], whole[e[i]])
    BY <2>3 DEF Embeds
  <2>7. \A j \in DOMAIN whole :
          /\ whole[j] \in TaskLine
          /\ whole[j].wording = "none" => whole[j].tail = <<>> /\ whole[j].count = <<>>
    BY <2>2, TicketLine DEF whole
  <2>8. \A i \in DOMAIN shown : /\ shown[i].wording = "none" => shown[i].tail = <<>>
                                /\ TextsOf(shown[i]) = TextsOf(whole[e[i]])
    BY <2>6, <2>7 DEF SameLine, TextsOf
  <2>9. headings = Range(MarkdownContract(shown))
    BY DEF headings
  <2>10. missed
    <3>. SUFFICES ASSUME NEW w \in texts(whole), w \notin texts(internal)
                  PROVE  \/ w \in UNION {Range(h) : h \in headings}
                         \/ \E l \in Range(shown) : beside(l, w)
                         \/ \E l \in dropped : w \in TextsOf(l)
      OBVIOUS
    <3>1. PICK j \in DOMAIN whole : w \in TextsOf(whole[j])
      BY DEF Range
    <3>2. CASE whole[j] \in dropped
      BY <3>1, <3>2
    <3>3. CASE \E i \in DOMAIN shown : e[i] = j
      <4>1. PICK i \in DOMAIN shown : e[i] = j
        BY <3>3
      <4>2. w \in TextsOf(shown[i]) /\ shown[i] \in Range(shown)
        BY <2>8, <3>1, <4>1 DEF Range
      <4>3. internal # shown
        BY <4>2
      <4>4. Gone(shown[i], headings) \/ Shown(shown[i]) \in Range(internal)
        BY <2>4, <2>6, <2>9, <4>3, SeenIs
      <4>5. Gone(shown[i], headings) \/ w \notin TextsOf(Shown(shown[i]))
        BY <4>4
      <4>6. w \in UNION {Range(h) : h \in headings} \/ beside(shown[i], w)
        BY <2>6, <2>8, <4>2, <4>5, HiddenBecause
      <4>. HIDE DEF beside
      <4>. QED BY <4>2, <4>6
    <3>. QED BY <2>3, <3>2, <3>3
  <2>11. format
    <3>. SUFFICES ASSUME Kind(Explicit(shown)) # "generic", NEW l \in Range(internal)
                  PROVE  l.wording \in {"none", "contain", "each", "nested", "objects", "pipe"}
      OBVIOUS
    <3>1. \A m \in TaskLine : Shown(m).wording \in {"none", "contain", "each", "nested", "objects", "pipe"}
      <4>. TAKE m \in TaskLine
      <4>1. m.wording \in Wording
        BY DEF TaskLine
      <4>. QED BY <4>1 DEF Shown, Plain, FinalFormat, Wording
    <3>2. \E i \in DOMAIN shown : l = Shown(shown[i])
      <4>. DEFINE S    == {i \in DOMAIN shown : ~Gone(shown[i], headings)}
                  stay == Ascending(S)
      <4>1. Kind(contract["internal"]) = "generic"
        <5>1. contract["internal"] = Generic
          BY <2>2 DEF ContractInv, Reader, WorkOutputContract
        <5>2. Generic.fields = <<>> /\ Generic.headings = <<>> /\ Generic.columns = <<>>
          BY DEF Generic
        <5>. QED BY <5>1, <5>2, KindIs
      <4>2. CASE internal # shown
        BY <2>4, <2>6, <2>9, <4>2, SeenIs
      <4>3. CASE internal = shown
        <5>1. PICK n \in DOMAIN internal : l = internal[n]
          BY DEF Range
        <5>2. internal = [k \in DOMAIN stay |-> Shown(shown[stay[k]])]
          BY <2>4, <4>1 DEF ProjectTask, headings
        <5>3. Risen(stay, S)
          <6>1. Len(shown) \in Nat /\ DOMAIN shown = 1 .. Len(shown)
            BY <2>6
          <6>2. S \subseteq 1 .. Len(shown) /\ S \in SUBSET Nat
            BY <6>1
          <6>3. IsFiniteSet(1 .. Len(shown))
            BY <6>1, UpToCount
          <6>4. IsFiniteSet(S)
            BY <6>2, <6>3, FS_Subset
          <6>. HIDE DEF S
          <6>. QED BY <6>2, <6>4, AscendingIs
        <5>4. \A k \in DOMAIN stay : stay[k] \in S
          BY <5>3 DEF Risen, Range
        <5>. HIDE DEF stay
        <5>5. n \in DOMAIN stay /\ l = Shown(shown[stay[n]])
          BY <5>1, <5>2
        <5>. QED BY <5>4, <5>5
      <4>. QED BY <4>2, <4>3
    <3>. QED BY <2>6, <3>1, <3>2
  <2>12. expert
    <3>. SUFFICES ASSUME seen["final"] # shown, Kind(contract["final"]) = "generic",
                         \A l \in dropped : l.wording = "none" /\ l.marker = "none" /\ ~(l.number > 0)
                  PROVE  FALSE
      OBVIOUS
    <3>1. Kind(Explicit(shown)) # "generic"
      BY <2>4, <2>6, SeenIs
    <3>2. Blanked(e, shown, whole)
      <4>1. ASSUME NEW j \in DOMAIN whole, whole[j] \in dropped PROVE Blank(whole[j])
        <5>1. whole[j].number \in Nat
          BY <2>7 DEF TaskLine
        <5>2. whole[j].number = 0
          BY <4>1, <5>1
        <5>. QED BY <2>7, <4>1, <5>2 DEF Blank
      <4>. QED BY <2>3, <4>1 DEF Blanked
    <3>3. Kind(Explicit(whole)) # "generic"
      BY <2>3, <3>1, <3>2, SameReadings
    <3>. QED BY <2>5, <3>3
  <2>. HIDE DEF missed, format, expert
  <2>. QED BY <2>1, <2>10, <2>11, <2>12
<1>. QED BY <1>1, ContractInvariant, PTL
==============================================================================
