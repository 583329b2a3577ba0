----------------------------- MODULE AnswerGate -----------------------------
(* The answer of one attempt on its way to a verdict.                         *)
(*                                                                            *)
(* The engine's layers wrap one another: the first judges the provider's      *)
(* text, the next ones relabel and normalize it and judge the result, the     *)
(* outermost asks the final expert for what the task says it must contain.    *)
(* Every layer may change the answer, the verdict and its reasons, and reads  *)
(* what the inner ones left.                                                  *)
(*                                                                            *)
(* An answer is a sequence of lines.  A line is blank or an H2 heading (key)   *)
(* or carries a claim under a label.                                          *)
EXTENDS Naturals, Sequences, FiniteSets, FiniteSetsExt, Functions, Lists

CONSTANTS
  Heading, NoHeading,
  Required,      \* the headings of the contract, in their order
  OneEdit,       \* pairs of headings one character apart
  Claim, NoClaim, \* NoClaim is that of a blank line
  Supported,     \* claims the task's text supports (ClaimSupport)
  Derived,       \* anchored in the task, worded as a derivation or a rule
  Normative,     \* worded as a rule
  Inferential,   \* anchored in the task, worded as an inference
  Parts,         \* [mixed claim -> <<its fact, its rule>>]
  Introducing,   \* claims with a quantity that is not the task's
  Worked,        \* those that show how it is derived
  WrongSum,      \* claims with an equation that does not hold
  Marks,         \* [Claim -> the classes of statement its wording announces]
  Misdirected,   \* those whose number contradicts the high or low they speak of
  Obligation,    \* what a task may ask of the final answer
  Window,        \* [some obligations -> [above, below, first, needed, brings]]
  Tasks,         \* [strict, derivation, experience, obligations]
  Nodes,         \* [final, explicit]
  Answers        \* the texts a provider may return

FactLabel == {"fact", "boldFact"}
Label == FactLabel \cup {"none", "inference", "conclusion"}
Line == [key : Heading \cup {NoHeading}, label : Label, claim : Claim]
BlankLine == [key |-> NoHeading, label |-> "none", claim |-> NoClaim]

ASSUME RequiredAssumption ==
  /\ Required \in Seq(Heading) /\ NoHeading \notin Heading
  /\ \A i, j \in DOMAIN Required : i # j => Required[i] # Required[j]
\* A heading begins with its number signs, and so with no label.
ASSUME AnswersAssumption ==
  /\ Answers \subseteq Seq(Line)
  /\ \A a \in Answers :
       /\ \E i \in DOMAIN a : a[i].claim # NoClaim
       /\ \A i \in DOMAIN a : /\ a[i].key # NoHeading => a[i].label = "none"
                              /\ a[i].claim = NoClaim => a[i] = BlankLine
\* A mixed claim announces in one of its parts what it announces, if that is
\* judged by itself; a stretch of text that must stand together may be cut.
\* A fact, a result or an experience is looked for in the whole answer, and a
\* blank line announces nothing.
ASSUME ClaimAssumption ==
  /\ {"fact", "result", "experience"} \cap DOMAIN Window = {} /\ Marks[NoClaim] = {}
  /\ NoClaim \in Claim \ (Introducing \cup DOMAIN Parts)
  /\ Supported \cup Derived \cup Normative \cup Inferential \cup Introducing \subseteq Claim
  /\ Worked \cup WrongSum \subseteq Introducing
  /\ \A c \in DOMAIN Parts : /\ Parts[c] \in (Claim \ {NoClaim}) \X (Claim \ {NoClaim})
                             /\ {c, Parts[c][1], Parts[c][2]} \cap Introducing = {}
  /\ \A c \in DOMAIN Parts \cap Supported : Parts[c][1] \in Supported
  /\ \A c \in DOMAIN Parts :
       Marks[c] \ DOMAIN Window \subseteq Marks[Parts[c][1]] \cup Marks[Parts[c][2]]

VARIABLES
  pc,
  task, node,
  raw,           \* the provider's text
  truncated,     \* it stopped at the output allowance
  answer,
  raw_answer,    \* the text kept beside an answer that was changed
  normalized,    \* the normalizer reported that it applied
  status, category,
  gate_reasons

vars == <<pc, task, node, raw, truncated, answer, raw_answer, normalized,
          status, category, gate_reasons>>

\* The reasons of a gate are tuples, so that one may name a heading or class.
Flag(condition, reason) == IF condition THEN {reason} ELSE {}

(***************************************************************************)
(* Sections and the contract                                               *)
(***************************************************************************)
IsHeading(l) == l.key # NoHeading
IsBlank(l)   == l.claim = NoClaim
Unwritten(a) == \A l \in Range(a) : IsBlank(l)
Heads(a)     == {i \in DOMAIN a : IsHeading(a[i])}
Keys(a)      == {a[h].key : h \in Heads(a)}

\* The heading over a line is the last one up to it; a section is the lines
\* under one heading, the preamble what is written over the first.
Headed(a)    == {i \in DOMAIN a : \E h \in Heads(a) : h <= i}
HeadOf(a, i) == Max({h \in Heads(a) : h <= i})
Preamble(a)  == \E i \in DOMAIN a \ Headed(a) : ~IsBlank(a[i])
EmptySection(a, h) ==
  \A i \in Headed(a) : HeadOf(a, i) = h => i = h \/ IsBlank(a[i])

ContractViolations(a) ==
  LET under(k) == {h \in Heads(a) : a[h].key = k}
      first(k) == Min(under(k))
      found    == {k \in Range(Required) : under(k) # {}}
  IN  {<<"missing", k>> : k \in Range(Required) \ found}
      \cup {<<"duplicate", k>> : k \in {f \in found : under(f) # {first(f)}}}
      \cup {<<"empty", k>> : k \in {f \in found : EmptySection(a, first(f))}}
      \cup Flag(/\ found = Range(Required)
                /\ \E m, n \in DOMAIN Required :
                     m < n /\ first(Required[m]) > first(Required[n]),
                <<"order">>)

QualityViolations(a, cut) ==
  Flag(Unwritten(a), <<"empty-output">>)
  \cup Flag(cut, <<"truncated-output">>)
  \cup ContractViolations(a)

(***************************************************************************)
(* Evidence                                                                *)
(***************************************************************************)
\* Of a closed-world task.  Where the task asks for derived numbers, one that
\* shows its derivation may stand, unless it is called a fact.
BadQuantity(t, l) ==
  /\ t.strict
  /\ l.claim \in Introducing
  /\ t.derivation => (l.claim \notin Worked \/ l.label \in FactLabel)

UnsupportedFact(t, l) ==
  t.strict /\ l.label \in FactLabel /\ l.claim \notin Supported

Unsupported == <<"unsupported-fact-label">>

EvidenceViolations(t, a) ==
  Flag(\E l \in Range(a) : BadQuantity(t, l), <<"quantity">>)
  \cup Flag(\E l \in Range(a) : UnsupportedFact(t, l), Unsupported)
  \cup Flag(\E l \in Range(a) : l.claim \in WrongSum, <<"arithmetic">>)

\* What the task asks of its final answer and no line shows.
Shows(o, l) == \/ o \in Marks[l.claim]
               \/ o = "fact" /\ l.label \in FactLabel
               \/ o = "result" /\ l.claim \in Introducing

\* A threshold wants its number close by, a goal its choice: what stands around
\* a line that announces it, or around the first one, must bring enough of it.
Together(o, claims) ==
  LET w      == Window[o]
      said   == {i \in DOMAIN claims : o \in Marks[claims[i]]}
      heard  == IF w.first THEN {i \in said : \A j \in said : i <= j} ELSE said
      around == {j \in DOMAIN claims :
                   \E i \in heard : i <= j + w.above /\ j <= i + w.below}
  IN  Cardinality(UNION {w.brings[claims[j]] : j \in around}) >= w.needed

ClaimsOf(a) == [i \in DOMAIN a |-> a[i].claim]

MissingObligations(t, a) ==
  LET shown(o) == IF o \in DOMAIN Window THEN Together(o, ClaimsOf(a))
                  ELSE \E l \in Range(a) : Shows(o, l)
      waived(o) == \/ o = "calculated" /\ ~t.derivation
                   \/ o = "fact" /\ t.experience /\ shown("experience")
  IN  {<<"obligation", o>> : o \in {p \in t.obligations : ~shown(p) /\ ~waived(p)}}
      \cup Flag(Range(ClaimsOf(a)) \cap Misdirected # {}, <<"direction">>)

(***************************************************************************)
(* Normalization                                                           *)
(***************************************************************************)
Relabelled(a, anchored(_)) ==
  [i \in DOMAIN a |->
     IF a[i].label = "fact" /\ a[i].claim \notin Introducing /\ anchored(a[i].claim)
     THEN [a[i] EXCEPT !.label = "inference"]
     ELSE a[i]]

\* relabel_task_derived_fact_lines: rules lose the label even if supported.
DerivedRelabelled(a) ==
  Relabelled(a, LAMBDA c : c \in Derived /\ (c \in Normative \/ c \notin Supported))

InferentialRelabelled(a) ==
  Relabelled(a, LAMBDA c : c \in Inferential /\ c \notin Supported)

\* Bug: the rule is cut off and dropped.
SplitMixedLosesRule(a) ==
  [i \in DOMAIN a |->
     IF a[i].label = "fact" /\ a[i].claim \in DOMAIN Parts
     THEN [a[i] EXCEPT !.claim = Parts[a[i].claim][1]]
     ELSE a[i]]

\* What the split makes of a line.
Halves(l) ==
  IF l.label = "fact" /\ l.claim \in DOMAIN Parts
  THEN <<[l EXCEPT !.claim = Parts[l.claim][1]],
         [l EXCEPT !.label = "conclusion", !.claim = Parts[l.claim][2]]>>
  ELSE <<l>>

SplitMixed(a) ==
  LET order == Lexical(UNION {{<<i, k>> : k \in DOMAIN Halves(a[i])} : i \in DOMAIN a})
  IN  [n \in DOMAIN order |-> Halves(a[order[n][1]])[order[n][2]]]

QuantitiesFiltered(t, a) ==
  LET order == Ascending({i \in DOMAIN a : ~BadQuantity(t, a[i])})
  IN  [n \in DOMAIN order |-> a[order[n]]]

\* The sections of a in the order of the contract, under its headings; place[h]
\* is the one that heading h stands for.  A section ends with a blank line.
Arranged(a, place) ==
  LET ends  == {i \in Headed(a) : ~IsBlank(a[i]) /\ (i = Len(a) \/ i + 1 \in Heads(a))}
      order == Lexical({<<place[HeadOf(a, i)], i>> : i \in Headed(a)}
                       \cup {<<place[HeadOf(a, i)], Len(a) + 1>> : i \in ends})
      line(i) == CASE i \notin DOMAIN a -> BlankLine
                   [] i \in Heads(a) -> [a[i] EXCEPT !.key = Required[place[i]]]
                   [] OTHER -> a[i]
  IN  [n \in DOMAIN order |-> line(order[n][2])]

\* Each heading in turn takes the free required one it equals, or the only
\* free one that is a character away.  There is at most one such placement.
Placements(a) ==
  {p \in [Heads(a) -> DOMAIN Required] :
     \A h \in Heads(a) :
       LET free  == DOMAIN Required \ {p[g] : g \in {f \in Heads(a) : f < h}}
           exact == {r \in free : Required[r] = a[h].key}
           near  == {r \in free : <<a[h].key, Required[r]>> \in OneEdit}
       IN  \/ p[h] \in exact
           \/ exact = {} /\ near = {p[h]}}

\* A heading is misspelt, or stands before one that belongs before it.
Misplaced(a, place) ==
  \E g, h \in Heads(a) : \/ Required[place[h]] # a[h].key
                         \/ g < h /\ place[h] < place[g]

\* A contract the user spelled out is reordered, never respelled.
Canonicalized(n, a) ==
  LET distinct == \A g, h \in Heads(a) : a[g].key = a[h].key => g = h
      sound == /\ Heads(a) # {} /\ ~Preamble(a)
               /\ Cardinality(Heads(a)) = Len(Required) /\ distinct
               /\ \A h \in Heads(a) : ~EmptySection(a, h)
               /\ Keys(a) = Range(Required) \/ ~n.explicit
      place == CHOOSE p \in Placements(a) : TRUE
  IN  IF sound /\ Placements(a) # {} /\ Misplaced(a, place) THEN Arranged(a, place) ELSE a

Prepared(a) == InferentialRelabelled(SplitMixed(a))
Normalized(t, n, a) == Canonicalized(n, QuantitiesFiltered(t, Prepared(a)))

\* Derived numbers that were merely looked at and kept count as well.
Applies(t, n, a) ==
  \/ Normalized(t, n, a) # a
  \/ t.strict /\ \E l \in Range(a) : l.claim \in Introducing

(***************************************************************************)
(* The layers of an attempt                                                *)
(***************************************************************************)
Init ==
  /\ pc = "call"
  /\ task \in Tasks /\ node \in Nodes
  /\ raw = <<>> /\ truncated = FALSE
  /\ answer = <<>> /\ raw_answer = <<>>
  /\ normalized = FALSE
  /\ status = "none" /\ category = "none"
  /\ gate_reasons = {}

\* A verdict on the reasons a layer adds to a passed attempt.
Fail(reasons) ==
  IF status = "passed" /\ reasons # {}
  THEN status' = "quality_gate_failed" /\ category' = "QUALITY_GATE_FAILED"
  ELSE UNCHANGED <<status, category>>

Pass ==
  /\ status' = "passed"
  /\ category' = "none"
  /\ gate_reasons' = {}

\* The provider's text and the quality gate's verdict on it.
Respond ==
  /\ pc = "call"
  /\ \E a \in Answers, cut \in BOOLEAN :
       LET reasons == QualityViolations(a, cut)
       IN  /\ raw' = a /\ answer' = a /\ truncated' = cut
           /\ gate_reasons' = reasons
           /\ status' = IF reasons = {} THEN "passed" ELSE "quality_gate_failed"
           /\ category' = CASE cut -> "OUTPUT_TRUNCATED"
                            [] ~cut /\ reasons # {} -> "QUALITY_GATE_FAILED"
                            [] OTHER -> "none"
  /\ pc' = "answered"
  /\ UNCHANGED <<task, node, raw_answer, normalized>>

\* The outer normalizer relabels before it calls the inner one.
Relabel ==
  /\ pc = "answered"
  /\ answer' = DerivedRelabelled(answer)
  /\ raw_answer' = IF answer' # answer THEN answer ELSE raw_answer
  /\ pc' = "relabelled"
  /\ UNCHANGED <<task, node, raw, truncated, normalized, status, category, gate_reasons>>

\* The inner one returns at once when nothing applied.  A truncated answer is
\* changed and its verdict left alone; any other is judged again, as an answer
\* that was not cut.  The outer one then restores the earliest text.
Normalize ==
  /\ pc = "relabelled"
  /\ normalized' = Applies(task, node, answer)
  /\ answer' = Normalized(task, node, answer)
  /\ raw_answer' = raw
  /\ LET violations == QualityViolations(answer', FALSE)
                       \cup EvidenceViolations(task, answer')
         repairable == status = "passed" \/ category = "QUALITY_GATE_FAILED"
     IN  \/ /\ ~normalized' \/ ~repairable
            /\ pc' = "unrepaired"
            /\ UNCHANGED <<status, category, gate_reasons>>
         \/ /\ normalized' /\ repairable /\ violations # {}
            /\ gate_reasons' = violations
            /\ Fail(violations)
            /\ pc' = "unrepaired"
         \/ /\ normalized' /\ repairable /\ violations = {}
            /\ Pass
            /\ pc' = "accepted"
  /\ UNCHANGED <<task, node, raw, truncated>>

\* Bug: one fact-label warning among the reasons is enough.
DemoteOnAny ==
  /\ pc = "unrepaired"
  /\ \/ /\ ~node.final /\ Unsupported \in gate_reasons
        /\ Pass
        /\ pc' = "accepted"
     \/ /\ node.final \/ Unsupported \notin gate_reasons
        /\ pc' = "undecided"
        /\ UNCHANGED <<status, category, gate_reasons>>
  /\ UNCHANGED <<task, node, raw, truncated, answer, raw_answer, normalized>>

\* A work product's fact label is a warning when it is the only reason so far.
Demote ==
  /\ pc = "unrepaired"
  /\ \/ /\ ~node.final /\ gate_reasons = {Unsupported}
        /\ Pass
        /\ pc' = "accepted"
     \/ /\ node.final \/ gate_reasons # {Unsupported}
        /\ pc' = "undecided"
        /\ UNCHANGED <<status, category, gate_reasons>>
  /\ UNCHANGED <<task, node, raw, truncated, answer, raw_answer, normalized>>

\* Bug: only the contract is judged again.
JudgeContract ==
  /\ pc = "undecided"
  /\ LET violations == ContractViolations(answer)
     IN  /\ gate_reasons' = gate_reasons \cup violations
         /\ Fail(violations)
  /\ pc' = "accepted"
  /\ UNCHANGED <<task, node, raw, truncated, answer, raw_answer, normalized>>

\* Contract and evidence of an answer the normalizer did not settle.
Judge ==
  /\ pc = "undecided"
  /\ LET violations == ContractViolations(answer) \cup EvidenceViolations(task, answer)
     IN  /\ gate_reasons' = gate_reasons \cup violations
         /\ Fail(violations)
  /\ pc' = "accepted"
  /\ UNCHANGED <<task, node, raw, truncated, answer, raw_answer, normalized>>

\* The task's own obligations bind the final expert only.
FinalGate ==
  /\ pc = "accepted"
  /\ LET missing == IF node.final /\ ~Unwritten(answer)
                    THEN MissingObligations(task, answer) ELSE {}
     IN  /\ gate_reasons' = gate_reasons \cup missing
         /\ Fail(missing)
  /\ pc' = "done"
  /\ UNCHANGED <<task, node, raw, truncated, answer, raw_answer, normalized>>

Next == Respond \/ Relabel \/ Normalize \/ Demote \/ Judge \/ FinalGate

Spec == Init /\ [][Next]_vars

(***************************************************************************)
(* Properties                                                              *)
(***************************************************************************)
Over == pc = "done"

\* The text that leaves a passed attempt meets what its node is held to, judged
\* on that text and not on the one some inner layer saw: the contract, the
\* evidence rules (for a work product all but the support of its fact labels),
\* and for the final expert the task's obligations.
PassedIsDeliverable ==
  Over /\ status = "passed" =>
    /\ ~truncated
    /\ QualityViolations(answer, FALSE) = {}
    /\ EvidenceViolations(task, answer) \subseteq {r \in {Unsupported} : ~node.final}
    /\ node.final => MissingObligations(task, answer) = {}

\* Normalization moves, relabels, cuts in two and drops, and nothing else.  What the
\* expert put under a heading stays under it, a label only gets weaker, and
\* only a line with a forbidden quantity is lost.
Body(l) == <<l.label, l.claim>>
Replacements(l) ==
  {{Body(l)}} \cup
  IF l.label # "fact" THEN {}
  ELSE {{<<"inference", l.claim>>}} \cup
       {{<<label, Parts[c][1]>>, <<"conclusion", Parts[c][2]>>} :
          label \in {"fact", "inference"}, c \in {l.claim} \cap DOMAIN Parts}
HeadingOf(a, i) ==
  IF {h \in Heads(a) : h <= i} = {} THEN NoHeading ELSE a[HeadOf(a, i)].key
SameSection(k, r) ==
  \/ k = r
  \/ <<r, k>> \in OneEdit /\ k \in Range(Required) /\ ~node.explicit
Placed(a, i, b, j) ==
  \/ SameSection(HeadingOf(a, i), HeadingOf(b, j))
  \/ \E h \in Range(b) : IsHeading(h) /\ BadQuantity(task, h)
BodyLines(a) == {i \in DOMAIN a \ Heads(a) : ~IsBlank(a[i])}

ContentKept ==
  Over =>
    /\ \A i \in BodyLines(answer) : \E j \in BodyLines(raw) :
         /\ \E w \in Replacements(raw[j]) : Body(answer[i]) \in w
         /\ Placed(answer, i, raw, j)
    /\ \A j \in BodyLines(raw) :
         \/ BadQuantity(task, raw[j])
         \/ \E w \in Replacements(raw[j]) : \A body \in w : \E i \in BodyLines(answer) :
              Body(answer[i]) = body /\ Placed(answer, i, raw, j)

\* An answer that needed no repair is repaired into a failure in two ways only:
\* the final expert can lose the only mark of a fact with a relabelled line; and
\* when a line that mixes a fact with a rule is cut in two, what must stand close
\* together can be pushed apart.  As long as every claim stays at its line, and
\* for every obligation that is met by a claim alone, nothing is lost.
PassLostOnlyToTheRepair ==
  Over /\ ~truncated /\ status # "passed" =>
    \/ QualityViolations(raw, FALSE) \cup EvidenceViolations(task, raw) # {}
    \/ node.final /\ MissingObligations(task, raw) # {}
    \/ /\ node.final /\ gate_reasons # {}
       /\ gate_reasons \subseteq
            {<<"obligation", "fact">> : l \in {m \in Range(raw) : m.label = "fact"}}
            \cup IF ClaimsOf(answer) = ClaimsOf(raw) THEN {}
                 ELSE {<<"obligation", o>> : o \in DOMAIN Window} \cup {<<"direction">>}

\* Whether the lone warning of a work product fails its attempt does not depend
\* on the warning: it is forgiven exactly when the normalizer had something
\* else to do, and fails an answer that needed nothing.
WarningForgivenOnlyIfNormalized ==
  Over /\ ~node.final /\ ~truncated
  /\ ContractViolations(answer) = {} /\ EvidenceViolations(task, answer) = {Unsupported}
    => (status = "passed" <=> normalized)

\* What the repair itself decides: which usable answers it can make fail, and
\* whether the lone warning counts.
RepairLosesLittle == PassLostOnlyToTheRepair /\ WarningForgivenOnlyIfNormalized
==============================================================================
