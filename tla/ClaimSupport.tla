---------------------------- MODULE ClaimSupport ----------------------------
(* Whether the text of a task supports what an answer calls a fact.           *)
(*                                                                            *)
(* The check is a heuristic on wording: task and claim are cut into pieces,   *)
(* and every piece of the claim needs a piece of the task of its polarity,    *)
(* at its place, with its quantities and with like words.  The text is cut    *)
(* in one way for words and places and in another for quantities.             *)
(*                                                                            *)
(* A text is a sequence of units, each with the separator that follows it; a  *)
(* unit is what no separator cuts, as the set of its terms.  What stands in   *)
(* brackets within a unit is left out where wordings are compared, and read   *)
(* where places, quantities and denials are looked for.                       *)
EXTENDS Naturals, FiniteSets, Sequences

CONSTANTS
  Word,
  Brief,        \* words of a single character
  Marker,       \* words of counting only ("in total")
  Place, Quantity,
  Standard,     \* [a spelling of a word or quantity -> the one compared]
  Near,         \* pairs of terms that leave texts alike
  Close,        \* pairs that leave texts very much alike
  Matters,      \* tasks: [text, marks]
  Claims        \* texts under a fact label

Denial == {"unknown", "absence", "negative"}
Onsite == "onsite"
Unit == [terms : SUBSET (Word \cup Place \cup Denial \cup {Onsite}),
         quantities : SUBSET Quantity,
         aside : [terms : SUBSET (Word \cup Place \cup Denial),
                  quantities : SUBSET Quantity]]
Separator == {"stop", "bar", "comma", "and", "yet"}
Passage == Seq([unit : Unit, sep : Separator])
PolicyMark == {"denyPartial", "allowPartial", "closedWorld", "noFabrication", "attribution"}

ASSUME TextAssumption ==
  /\ Claims \subseteq Passage
  /\ \A m \in Matters : m.text \in Passage /\ m.marks \subseteq PolicyMark
  /\ Close \subseteq Near /\ \A p \in Near : <<p[2], p[1]>> \in Near
  /\ Brief \cup Marker \subseteq Word
  /\ Place \cap Marker = {} /\ Onsite \notin Word \cup Place

VARIABLES
  matter, claim,   \* as written
  constraints,     \* compiled from the task
  source, rest,    \* the task's text and the pieces of the claim not judged yet
  finding          \* "none", "unchecked", "blocked", "supported" or "unsupported"

claimVars == <<matter, claim, constraints, source, rest, finding>>

(***************************************************************************)
(* Cutting                                                                 *)
(***************************************************************************)
Spans(t, cuts) ==
  {s \in (1 .. Len(t)) \X (1 .. Len(t)) :
     /\ s[1] <= s[2]
     /\ s[1] = 1 \/ t[s[1] - 1].sep \in cuts
     /\ s[2] = Len(t) \/ t[s[2]].sep \in cuts
     /\ \A i \in s[1] .. s[2] - 1 : t[i].sep \notin cuts}

Piece(t, s) == SubSeq(t, s[1], s[2])
Pieces(t, cuts) == {Piece(t, s) : s \in Spans(t, cuts)}

Sentences(t)  == Pieces(t, {"stop", "bar"})
Fragments(t)  == Pieces(t, {"stop", "bar", "comma", "and"})
ClauseCuts    == {"stop", "yet"}
PhraseCuts    == ClauseCuts \cup {"comma", "bar"}

(***************************************************************************)
(* What is compared of a piece                                             *)
(***************************************************************************)
Figures(u)    == u.quantities \cup u.aside.quantities
Terms(t)      == UNION {t[i].unit.terms \cup t[i].unit.aside.terms : i \in DOMAIN t}
Quantities(t) == UNION {Figures(t[i].unit) : i \in DOMAIN t}
Spoken(t)     == UNION {t[i].unit.terms : i \in DOMAIN t}
Normal(t)     == Spoken(t) \cup UNION {t[i].unit.quantities : i \in DOMAIN t}
Skeleton(t)   == Spoken(t) \ Marker
Anchors(t)    == Terms(t) \cap Place

Polarity(t) ==
  CASE "unknown" \in Terms(t) -> "unknown"
    [] "unknown" \notin Terms(t) /\ "absence" \in Terms(t) -> "absence"
    [] Terms(t) \cap Denial = {"negative"} -> "negative"
    [] OTHER -> "positive"

Core(t, polarity) == Normal(t) \ {polarity}

\* One spelling for what counts the same: a sum in myriads, "in total 3".
Respelled(x) == IF x \in DOMAIN Standard THEN Standard[x] ELSE x

Canonical(t) ==
  LET respelled(X) == {Respelled(x) : x \in X}
  IN  [i \in DOMAIN t |->
         [t[i] EXCEPT !.unit =
            [terms |-> respelled(@.terms), quantities |-> respelled(@.quantities),
             aside |-> [terms |-> respelled(@.aside.terms),
                        quantities |-> respelled(@.aside.quantities)]]]]

\* SequenceMatcher: a term apart, by a character or two.
Alike(a, b, pairs) == a = b \/ \E p \in pairs : a \ b = {p[1]} /\ b \ a = {p[2]}

\* Either text may say more than the other.
Reordered(a, b) ==
  /\ a # {} /\ b # {}
  /\ a \cap Place \subseteq b
  /\ a \subseteq b \/ b \subseteq a \/ Alike(a, b, Near)

(***************************************************************************)
(* Quantities                                                              *)
(***************************************************************************)
\* Each mention has the words of its phrase and of its clause as contexts.
Mentions(t) ==
  UNION {{[at |-> s, quantity |-> q] : q \in Quantities(Piece(t, s))} : s \in Spans(t, PhraseCuts)}

Contexts(t, m) ==
  LET clause == CHOOSE s \in Spans(t, ClauseCuts) : s[1] <= m.at[1] /\ m.at[2] <= s[2]
  IN  {Skeleton(Piece(t, m.at)), Skeleton(Piece(t, clause))} \ {{}}

Telling(context) == \A w \in Brief : context # {w}

ContextsMatch(claimed, given) ==
  \E c \in claimed, g \in given : Telling(c) /\ Reordered(c, g)

\* Every mention of the claim has one of the task to itself.
QuantityBindingsSupported(t, task) ==
  LET fits(m) == {n \in Mentions(task) : /\ n.quantity = m.quantity
                                         /\ ContextsMatch(Contexts(t, m), Contexts(task, n))}
  IN  /\ Mentions(t) # {}
      /\ \E f \in [Mentions(t) -> Mentions(task)] :
           /\ \A m \in Mentions(t) : f[m] \in fits(m)
           /\ \A m, n \in Mentions(t) : f[m] = f[n] => m = n

(***************************************************************************)
(* Evidence                                                                *)
(***************************************************************************)
SourceRows(task) ==
  UNION {{[raw |-> f, context |-> s] : f \in Fragments(s) \cup {s}} : s \in Sentences(task)}

Holding(rows, quantities) == {r \in rows : quantities \subseteq Quantities(r.context)}

\* Bug: the place of a claim is not looked at.
CompatibleAnywhere(t, rows) ==
  {r \in rows : Normal(r.raw) # {} /\ Polarity(t) = Polarity(r.raw)}

Compatible(t, rows) ==
  {r \in rows : /\ Normal(r.raw) # {}
                /\ Polarity(t) = Polarity(r.raw)
                /\ Anchors(t) \subseteq Anchors(r.context)}

NormalizedMatch(t, rows) ==
  \E r \in rows : \E n \in {Normal(r.raw), Normal(r.context)} :
    Normal(t) \subseteq n \/ Alike(Normal(t), n, Near)

ReorderSupported(t, rows) ==
  \E r \in rows : \E s \in {Skeleton(r.raw), Skeleton(r.context)} : Reordered(Skeleton(t), s)

\* The quantities of a denial are not looked for in its row.
PolarityMatch(t, rows) ==
  /\ Polarity(t) \in Denial
  /\ \E r \in rows :
       LET c == Core(t, Polarity(t))
           s == Core(r.raw, Polarity(t))
       IN  /\ c # {} /\ s # {}
           /\ c \subseteq s \/ s \subseteq c \/ Alike(c, s, Close)

FragmentSupported(t, task) ==
  LET compatible == Compatible(t, SourceRows(task))
      rows == Holding(compatible, Quantities(t))
  IN  \/ Normal(t) = {}
      \/ /\ Quantities(t) # {} => QuantityBindingsSupported(t, task)
         /\ \/ NormalizedMatch(t, rows)
            \/ ReorderSupported(t, rows)
            \/ PolarityMatch(t, compatible)

(***************************************************************************)
(* "on site"                                                               *)
(***************************************************************************)
IsOnsite(u) == Onsite \in u.terms /\ Figures(u) # {}

OnsiteSources(u, task) ==
  LET subject == (u.terms \cap Word) \ Marker
  IN  {r \in Holding(SourceRows(task), Figures(u)) :
         \E s \in {Skeleton(r.raw), Skeleton(r.context)} : Reordered(subject, s)}

\* It adds nothing where the task names no place; where the task names one
\* the claim may not say less.
OnsiteBlocks(u, task) ==
  /\ IsOnsite(u) /\ OnsiteSources(u, task) # {}
  /\ \A r \in OnsiteSources(u, task) : Anchors(r.context) # {}

OnsiteResolved(t, task) ==
  LET dropped(u) == IsOnsite(u) /\ OnsiteSources(u, task) # {} /\ ~OnsiteBlocks(u, task)
  IN  [i \in DOMAIN t |->
         IF dropped(t[i].unit) THEN [t[i] EXCEPT !.unit.terms = @ \ {Onsite}] ELSE t[i]]

(***************************************************************************)
(* The task's constraints                                                  *)
(***************************************************************************)
\* A prohibition counts before a permission, which it may contain word by word.
Compiled(marks) ==
  [degraded |-> CASE "denyPartial" \in marks -> "explicitly_denied"
                  [] "denyPartial" \notin marks /\ "allowPartial" \in marks -> "explicitly_allowed"
                  [] OTHER -> "default_denied",
   external   |-> "closedWorld" \notin marks,
   precise    |-> marks \cap {"closedWorld", "noFabrication"} = {},
   provenance |-> marks \cap {"closedWorld", "noFabrication"} # {}]

WithDefault(c) ==
  IF c.degraded = "default_denied" THEN [c EXCEPT !.degraded = "default_allowed"] ELSE c

(***************************************************************************)
(* One claim                                                               *)
(***************************************************************************)
ClaimInit ==
  /\ matter \in Matters /\ claim \in Claims
  /\ constraints = Compiled({}) /\ source = <<>> /\ rest = {}
  /\ finding = "start"

Compile ==
  /\ finding = "start"
  /\ constraints' = WithDefault(Compiled(matter.marks))
  /\ finding' = IF constraints'.provenance \/ ~constraints'.external
                THEN "compiled" ELSE "unchecked"
  /\ UNCHANGED <<matter, claim, source, rest>>

Canonicalize ==
  /\ finding = "compiled"
  /\ source' = Canonical(matter.text)
  /\ LET t == Canonical(claim)
     IN  IF \E i \in DOMAIN t : OnsiteBlocks(t[i].unit, source')
         THEN finding' = "blocked" /\ rest' = {}
         ELSE finding' = "open" /\ rest' = Fragments(OnsiteResolved(t, source'))
  /\ UNCHANGED <<matter, claim, constraints>>

\* In any order: the first piece without support decides.
JudgeFragment ==
  /\ finding = "open" /\ rest # {}
  /\ \E t \in rest :
       IF FragmentSupported(t, source)
       THEN rest' = rest \ {t} /\ UNCHANGED finding
       ELSE rest' = {} /\ finding' = "unsupported"
  /\ UNCHANGED <<matter, claim, constraints, source>>

Support ==
  /\ finding = "open" /\ rest = {}
  /\ finding' = "supported"
  /\ UNCHANGED <<matter, claim, constraints, source, rest>>

NextClaim == Compile \/ Canonicalize \/ JudgeFragment \/ Support

(***************************************************************************)
(* Properties                                                              *)
(***************************************************************************)
\* A quantity of a supported claim stands in the task at the places its clause
\* of the claim names, in one clause of the task, and unless the piece denies
\* something in one sentence too.  Pieces are judged alone: a place in another
\* piece of the claim is not its place.  A place that the claim names in
\* brackets is looked for in the sentence only, where it may be that of another
\* number; and a piece that is all in brackets is not looked at.
StatedAt(q, places, cuts) ==
  \E p \in Pieces(source, cuts) : q \in Quantities(p) /\ places \subseteq Anchors(p)

NumberAtItsPlace ==
  finding = "supported" =>
    \A t \in Fragments(Canonical(claim)) : Normal(t) # {} =>
      /\ \A c \in Pieces(t, ClauseCuts) : \A q \in Quantities(c) :
           StatedAt(q, Skeleton(c) \cap Place, ClauseCuts)
      /\ Polarity(t) = "positive" =>
           \A q \in Quantities(t) : StatedAt(q, Anchors(t), {"stop", "bar"})

\* A claim that repeats a unit of the task word by word is supported, unless a
\* quantity stands there with no word to know it by, or the unit is joined by a
\* "yet", which cuts no piece, to a denial of something else, or "on site" is
\* taken out of it, which may leave a single character or words that are not
\* next to each other in the task; and "on site" is only refused where the task
\* names a place.
Bare(t) == \E m \in Mentions(t) : \A c \in Contexts(t, m) : ~Telling(c)
Overshadowed(t, i) ==
  \E s \in Spans(t, {"stop", "bar", "comma", "and"}) :
    i \in s[1] .. s[2] /\ Polarity(Piece(t, s)) # Polarity(<<t[i]>>)

QuotationAccepted ==
  /\ finding = "unsupported" /\ Len(claim) = 1 =>
       LET t == Canonical(claim)
       IN  \A i \in DOMAIN source :
             source[i].unit = t[1].unit =>
               Bare(t) \/ Overshadowed(source, i) \/ OnsiteResolved(t, source) # t
  /\ finding = "blocked" => \E p \in Sentences(source) : Anchors(p) # {}

\* What is quoted passes and what passes is no misquotation, each as far as the
\* wording tells.
QuotationsHold == NumberAtItsPlace /\ QuotationAccepted
==============================================================================
