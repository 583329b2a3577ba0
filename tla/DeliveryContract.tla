-------------------------- MODULE DeliveryContract --------------------------
(* The format a ticket asks of its final report: read out of the ticket's     *)
(* text, held against the final answer, and taken out of the text that the    *)
(* other nodes see.                                                           *)
(*                                                                            *)
(* A ticket is a question, execution requirements and evidence; each is a     *)
(* sequence of lines.  A line reads                                           *)
(*     number, bullet, lead, marker, wording (with a count), tail             *)
(* where the wording is what the patterns of the source recognize.  A heading *)
(* is a sequence of texts: one, or several that a full stop glued together.   *)
EXTENDS Integers, FiniteSets, SequencesExt, Lists

CONSTANTS
  Text,          \* clauses, names and keys; texts differ in their normalized keys
  Identifier,    \* those a JSON key may be
  Verbal,        \* those with a verb that a format pattern may begin at
  Control,       \* those that name the mechanics of an execution
  Outputs,       \* what the plan declares as the outputs of a node's work
  Tickets        \* [question, requirements, evidence]

\* Numerals are sequences of 0 to 9, ten and hundred.
Wording == {"none", "counted", "inferred", "contain", "cue", "each",
            "json", "nested", "objects", "table", "pipe"}
TaskLine ==
  [number : Nat, bullet : BOOLEAN, lead : Seq(Text), marker : {"none", "before", "opens"},
   wording : Wording, arabic : BOOLEAN, count : Seq(0 .. 100),
   tail : Seq([glue : {"list", "stop", "require"}, text : Text])]

Plain(words) ==
  [number |-> 0, bullet |-> FALSE, lead |-> words, marker |-> "none", wording |-> "none",
   arabic |-> TRUE, count |-> <<>>, tail |-> <<>>]

ASSUME TicketAssumption ==
  /\ Identifier \cup Verbal \cup Control \subseteq Text
  /\ Outputs \in Seq(Seq(Text)) /\ Outputs # <<>>
  /\ \A i, j \in DOMAIN Outputs : Outputs[i] = Outputs[j] => i = j
  /\ Tickets \subseteq [question : Seq(TaskLine) \ {<<>>},
                       requirements : Seq(TaskLine), evidence : Seq(TaskLine)]
  /\ \A t \in Tickets : \A part \in DOMAIN t : \A l \in Range(t[part]) :
       /\ l.wording # "none" => l.number = 0
       /\ l.wording = "none" => l.tail = <<>> /\ l.count = <<>>

VARIABLES
  ticket, stage,
  contract, seen,    \* of the final expert and of any other node
  reply, verdict

contractVars == <<ticket, stage, contract, seen, reply, verdict>>

Because(condition, reason) == IF condition THEN {reason} ELSE {}

(***************************************************************************)
(* Reading the text                                                        *)
(***************************************************************************)
Unreadable == -1

\* A hundred, a ten and a unit; whatever stands before a hundred or a ten is
\* one digit or missing, and a zero inside makes the rest unreadable.
ChineseInteger(numeral) ==
  LET V[i \in 1 .. Len(numeral) + 1] ==
        LET s      == SubSeq(numeral, i, Len(numeral))
            at(v)  == CHOOSE k \in DOMAIN s : s[k] = v /\ \A j \in 1 .. k - 1 : s[j] # v
            digits == 0 .. 9
            digit(d, default) == CASE d = <<>> -> default
                                   [] Len(d) = 1 /\ Range(d) \subseteq digits -> d[1]
                                   [] OTHER -> Unreadable
            joined(high, unit, low) ==
              IF Unreadable \in {high, low} THEN Unreadable ELSE unit * high + low
        IN  CASE s = <<>> -> Unreadable
              [] 100 \in Range(s) ->
                   LET k == at(100)
                   IN  joined(digit(SubSeq(s, 1, k - 1), 1), 100,
                              IF k = Len(s) THEN 0 ELSE V[i + k])
              [] 10 \in Range(s) /\ 100 \notin Range(s) ->
                   LET k == at(10)
                   IN  joined(digit(SubSeq(s, 1, k - 1), 1), 10,
                              digit(SubSeq(s, k + 1, Len(s)), 0))
              [] OTHER -> digit(s, Unreadable)
  IN  V[1]

Before(tail, glues) ==
  LET cuts == {k \in DOMAIN tail : tail[k].glue \in glues}
  IN  IF cuts = {} THEN tail ELSE SubSeq(tail, 1, Min(cuts) - 1)

\* Each of these glues begins a name, any other one lengthens the last.
Names(pieces, glues) ==
  LET starts  == Ascending({i \in DOMAIN pieces : pieces[i].glue \in glues})
      size(n) == (IF n + 1 \in DOMAIN starts THEN starts[n + 1] ELSE Len(pieces) + 1) - starts[n]
  IN  [n \in DOMAIN starts |-> [k \in 1 .. size(n) |-> pieces[starts[n] + k - 1].text]]

\* Bug: what is required of the sections is taken for more of the list.
ListedUncut(l) == Names(l.tail, {"list", "require"})

\* The names after the colon, up to a sentence that states a requirement.
Listed(l) == Names(Before(l.tail, {"require"}), {"list"})

ValidHeadings(names, expected) ==
  IF Len(names) = expected /\ \A i, j \in DOMAIN names : names[i] = names[j] => i = j
  THEN names ELSE <<>>

\* The places of the lines of a wording, and of those that name something.
LinesWith(lines, wording) == {i \in DOMAIN lines : lines[i].wording = wording}
Naming(lines, wording) == {i \in LinesWith(lines, wording) : lines[i].tail # <<>>}

HeadingLimit == 128

\* A list that is announced with its length.
Announced(lines, wording) ==
  LET found == Naming(lines, wording)
      l     == lines[Min(found)]
      n     == ChineseInteger(l.count)
  IN  IF found = {} \/ n \notin 2 .. HeadingLimit THEN <<>> ELSE ValidHeadings(Listed(l), n)

\* "use the following three H2 headings: ..."
InlineDelimited(lines) == Announced(lines, "counted")

\* "the final report must use only the H2 headings: ..."
InlineInferred(lines) ==
  LET found == Naming(lines, "inferred")
      names == Listed(lines[Min(found)])
  IN  IF found = {} \/ Len(names) \notin 2 .. HeadingLimit THEN <<>>
      ELSE ValidHeadings(names, Len(names))

\* "must contain three H2 headings: ..."
MustContain(lines) == Announced(lines, "contain")

\* Runs of numbered lines that count from one, whatever stands between them.
NumberedRuns(lines, places) ==
  LET numbered  == Ascending({i \in places : lines[i].number > 0})
      counts(s, n) == \A k \in 1 .. n : /\ s + k - 1 \in DOMAIN numbered
                                        /\ lines[numbered[s + k - 1]].number = k
      starts    == Ascending({s \in DOMAIN numbered : counts(s, 2)})
      length(s) == Max({n \in DOMAIN numbered : counts(s, n)})
  IN  [r \in DOMAIN starts |->
         [k \in 1 .. length(starts[r]) |-> lines[numbered[starts[r] + k - 1]].lead]]

\* Only the text before the cue is searched for a list, and after a marker, if
\* there is one; a cue that opens that text does not end it.
Segment(lines) ==
  LET cues   == {i \in DOMAIN lines : lines[i].wording \in {"counted", "inferred", "cue", "each"}}
      marked == {i \in DOMAIN lines : lines[i].marker # "none"}
      start  == IF marked = {} THEN 1 ELSE Min(marked)
      opens  == IF marked = {} THEN lines[1].lead = <<>> /\ ~lines[1].bullet
                               ELSE lines[start].marker = "opens"
      after  == {i \in cues : i >= start}
      last   == IF after = {} \/ (opens /\ start \in cues) THEN Len(lines) ELSE Min(after) - 1
  IN  IF cues = {} THEN {} ELSE start .. last

\* The longest run, or the first of the length that the text states in digits.
ChosenRun(runs, counts) ==
  LET fit == IF counts = {}
             THEN {i \in DOMAIN runs : \A j \in DOMAIN runs : Len(runs[j]) <= Len(runs[i])}
             ELSE {i \in DOMAIN runs : Len(runs[i]) = Min(counts)}
  IN  IF fit = {} THEN <<>> ELSE runs[Min(fit)]

CuedNumbered(lines) ==
  LET stated == {i \in DOMAIN lines : lines[i].arabic /\ lines[i].count # <<>>}
      run    == ChosenRun(NumberedRuns(lines, Segment(lines)),
                          IF stated = {} THEN {} ELSE {ChineseInteger(lines[Min(stated)].count)} \ {0})
  IN  ValidHeadings(run, Len(run))

MarkdownContract(lines) ==
  LET readings == <<InlineDelimited(lines), InlineInferred(lines), MustContain(lines),
                    CuedNumbered(lines)>>
      found    == {i \in DOMAIN readings : readings[i] # <<>>}
  IN  IF found = {} THEN <<>> ELSE readings[Min(found)]

\* The keys up to the end of the sentence, each once.
Keyed(pieces) ==
  LET named == Before(pieces, {"stop", "require"})
      order == Ascending({i \in DOMAIN named :
                            /\ named[i].text \in Identifier
                            /\ \A j \in 1 .. i - 1 : named[j].text # named[i].text})
  IN  [n \in DOMAIN order |-> named[order[n]].text]

\* Keys of the top level, and of the fields whose own keys are spelled out; of
\* two lines that spell out one field the later one counts, but that its values
\* are objects is kept from any of them.
JsonContract(lines) ==
  LET found  == LinesWith(lines, "json")
      fields == IF found = {} THEN <<>> ELSE Keyed(lines[Min(found)].tail)
      field(i) == Last(lines[i].lead)
      keys(i)  == Range(Keyed(lines[i].tail)) \ {field(i)}
      inner  == {i \in LinesWith(lines, "nested") \cup LinesWith(lines, "objects") :
                   /\ lines[i].lead # <<>> /\ field(i) \in Range(fields)
                   /\ Cardinality(keys(i)) >= 2}
      final  == {i \in inner : \A j \in inner : field(j) = field(i) => j <= i}
  IN  [fields |-> fields,
       nested |-> IF fields = <<>> THEN {} ELSE {<<field(i), keys(i)>> : i \in final},
       objects |-> {field(i) : i \in inner \cap LinesWith(lines, "objects")}]

\* The first table of the text, once the text asks for one.
TableContract(lines) ==
  LET tables == {i \in LinesWith(lines, "pipe") : Len(lines[i].tail) >= 2 /\ ~lines[i].bullet}
      header == lines[Min(tables)].tail
  IN  IF LinesWith(lines, "table") = {} \/ tables = {} THEN <<>>
      ELSE [i \in DOMAIN header |-> header[i].text]

(***************************************************************************)
(* The contract of a node                                                  *)
(***************************************************************************)
Generic == [fields |-> <<>>, nested |-> {}, objects |-> {}, headings |-> <<>>,
            columns |-> <<>>, required |-> Outputs]

\* apply_explicit_contract.  The keys of JSON take precedence as the names the
\* answer must show; the other formats stay in force next to them.
Explicit(lines) ==
  LET json     == JsonContract(lines)
      headings == MarkdownContract(lines)
  IN  [fields |-> json.fields, nested |-> json.nested, objects |-> json.objects,
       headings |-> headings, columns |-> TableContract(lines),
       required |-> CASE json.fields # <<>> -> [i \in DOMAIN json.fields |-> <<json.fields[i]>>]
                      [] json.fields = <<>> /\ headings # <<>> -> headings
                      [] OTHER -> Outputs]

WorkOutputContract(lines, final) == IF final THEN Explicit(lines) ELSE Generic

Kind(c) ==
  LET kinds == {k \in {"fields", "headings", "columns"} : c[k] # <<>>}
  IN  CASE kinds = {} -> "generic"
        [] Cardinality(kinds) > 1 -> "mixed"
        [] OTHER -> CHOOSE k \in kinds : TRUE

MachineReadable(c) == c.fields # <<>>

(***************************************************************************)
(* What a node sees                                                        *)
(***************************************************************************)
TextsOf(l) == Range(l.lead) \cup {piece.text : piece \in Range(l.tail)}

IsControl(l) == TextsOf(l) \cap Control # {}

FullTask(t) == t.question \o t.requirements \o t.evidence

\* Requirement clauses that name the mechanics are dropped, the others listed.
BusinessTask(t) ==
  LET kept == Ascending({i \in DOMAIN t.requirements : ~IsControl(t.requirements[i])})
  IN  t.question
      \o [n \in DOMAIN kept |-> [t.requirements[kept[n]] EXCEPT !.bullet = TRUE]]
      \o t.evidence

\* The line pattern misses "must contain" and "each ... as an H2 heading".
FinalFormat == {"counted", "inferred", "cue", "json", "table"}

\* What stands before the pattern, which may begin at an earlier verb.
Prefix(l) ==
  LET verbs == {k \in DOMAIN l.lead : l.lead[k] \in Verbal /\ l.wording # "json"}
  IN  IF verbs = {} THEN l.lead ELSE SubSeq(l.lead, 1, Min(verbs) - 1)

\* Bug: nothing before the pattern is kept.
GoneWhole(l, headings) ==
  \/ l.wording \in FinalFormat
  \/ l.wording = "none" /\ l.lead \in headings

\* The lines that are gone, and what is shown of any other.
Gone(l, headings) ==
  \/ l.wording \in FinalFormat /\ (l.bullet \/ Prefix(l) = <<>>)
  \/ l.wording = "none" /\ l.lead \in headings /\ ~(l.bullet /\ l.number > 0)
Shown(l) == IF l.wording \in FinalFormat THEN Plain(Prefix(l)) ELSE l

\* project_task_for_node.  A heading's key leaves its number and bullet out, so
\* a numbered line that has become a heading is dropped wherever it stands.
ProjectTask(lines, c) ==
  LET stay == Ascending({i \in DOMAIN lines : ~Gone(lines[i], Range(MarkdownContract(lines)))})
  IN  IF Kind(c) # "generic" \/ Kind(Explicit(lines)) = "generic" THEN lines
      ELSE [n \in DOMAIN stay |-> Shown(lines[stay[n]])]

(***************************************************************************)
(* What a node is told and what its answer is held to                      *)
(***************************************************************************)
\* The headings that validate_markdown_contract looks for.
HeldHeadings(c) ==
  CASE c.headings # <<>> -> c.headings
    [] c.headings = <<>> /\ MachineReadable(c) -> <<>>
    [] OTHER -> c.required

\* delivery_rule.  It spells out the keys of a field, and not what their values
\* have to be.
ExplicitRule(c) == [part \in {"fields", "nested", "headings", "columns"} |-> c[part]]

PlainRule(c) ==
  [fields |-> <<>>, nested |-> {}, headings |-> c.required, columns |-> <<>>]

\* Bug: every node is given the rule for plain output.
ToldPlain(c) == PlainRule(c)

\* The rule for plain output leaves out the explicit one, and a table with it.
Told(c) ==
  IF MachineReadable(c) \/ c.headings # <<>> THEN ExplicitRule(c) ELSE PlainRule(c)

\* A value inside a field is an object or a text (any other value), and has
\* content or none.
Objects == {"object", "hollow"}
Empty == {"hollow", "blank"}
Value == Objects \cup Empty \cup {"text"}

\* An answer is a JSON object, [key -> [filled, inner: [key -> Value]]], or
\* Markdown sections and the header of a table.
Answer(json, fields, sections, header) ==
  [json |-> json, fields |-> fields, sections |-> sections, header |-> header]

Mentioned(a) ==
  {<<k>> : k \in DOMAIN a.fields} \cup {s.heading : s \in Range(a.sections)}

BaseViolations(c, a) ==
  {<<"marker", f>> : f \in Range(c.required) \ Mentioned(a)}
  \cup Because(MachineReadable(c) /\ ~a.json, <<"not-json">>)

ParsedViolations(c, a) ==
  LET fields == Range(c.fields)
      inner(n) == IF n[1] \in DOMAIN a.fields THEN a.fields[n[1]].inner ELSE <<>>
      some(n, values) == \E k \in n[2] \cap DOMAIN inner(n) : inner(n)[k] \in values
  IN  IF c.fields = <<>> THEN {}
      ELSE IF ~a.json THEN {<<"object-required">>}
      ELSE {<<"missing-key", f>> : f \in fields \ DOMAIN a.fields}
           \cup {<<"extra-key", f>> : f \in DOMAIN a.fields \ fields}
           \cup {<<"empty-key", f>> : f \in {g \in fields \cap DOMAIN a.fields : ~a.fields[g].filled}}
           \cup {<<"inner-keys", n[1]>> : n \in {m \in c.nested : DOMAIN inner(m) # m[2]}}
           \cup {<<"inner-empty", n[1]>> : n \in {m \in c.nested : some(m, Empty)}}
           \cup {<<"inner-objects", n[1]>> :
                   n \in {m \in c.nested : m[1] \in c.objects /\ some(m, Value \ Objects)}}

MarkdownViolations(c, a) ==
  LET under(h) == {i \in DOMAIN a.sections : a.sections[i].heading = h}
      first(h) == Min(under(h))
      held     == HeldHeadings(c)
      found    == {h \in Range(held) : under(h) # {}}
  IN  {<<"missing", h>> : h \in Range(held) \ found}
      \cup {<<"duplicate", h>> : h \in {g \in found : Cardinality(under(g)) > 1}}
      \cup {<<"empty", h>> : h \in {g \in found : ~a.sections[first(g)].filled}}
      \cup Because(/\ found = Range(held)
                   /\ \E i \in 1 .. Len(held) - 1 : first(held[i]) > first(held[i + 1]),
                   <<"order">>)

TableViolations(c, a) ==
  Because(c.columns # <<>> /\ a.header # c.columns, <<"table">>)

QualityGate(c, a) ==
  BaseViolations(c, a) \cup MarkdownViolations(c, a)
  \cup IF MachineReadable(c) /\ a.json THEN ParsedViolations(c, a) ELSE {}

\* The constitutional layer reads the answer again and looks for the table.
AnswerViolations(c, a) ==
  QualityGate(c, a) \cup ParsedViolations(c, a) \cup MarkdownViolations(c, a)
  \cup TableViolations(c, a)

\* What the final expert may send: the keys of its contract, or sections and a
\* table, in full and with a defect.
Replies(c) ==
  LET keys(k) == UNION {n[2] : n \in {m \in c.nested : m[1] = k}}
      field(k, v) == [filled |-> TRUE, inner |-> [i \in keys(k) |-> v]]
      object  == [k \in Range(c.fields) |-> field(k, "object")]
      text    == [i \in DOMAIN HeldHeadings(c) |-> [heading |-> HeldHeadings(c)[i], filled |-> TRUE]]
      texts   == {text, Reverse(text), text \o text}
                 \cup IF text = <<>> THEN {}
                      ELSE {Front(text), [text EXCEPT ![Len(text)].filled = FALSE]}
  IN  {Answer(TRUE, o, <<>>, <<>>) :
         o \in {object} \cup UNION {{[k \in DOMAIN object \ {f} |-> object[k]],
                                    [object EXCEPT ![f].filled = FALSE],
                                    [object EXCEPT ![f].inner = <<>>]}
                                   \cup {[object EXCEPT ![f] = field(f, v)] : v \in Value} :
                                     f \in DOMAIN object}}
      \cup {Answer(FALSE, <<>>, s, h) : s \in texts, h \in {<<>>, c.columns, Reverse(c.columns)}}

(***************************************************************************)
(* From the ticket to the final answer                                     *)
(***************************************************************************)
Reader == {"final", "internal"}
NoReply == Answer(FALSE, <<>>, <<>>, <<>>)

ContractInit ==
  /\ ticket \in Tickets
  /\ stage = "ticket"
  /\ contract = [r \in Reader |-> Generic]
  /\ seen = [r \in Reader |-> <<>>]
  /\ reply = NoReply /\ verdict = {}

\* The materializer reads the whole ticket.
Materialize ==
  /\ stage = "ticket"
  /\ contract' = [r \in Reader |-> WorkOutputContract(FullTask(ticket), r = "final")]
  /\ stage' = "planned"
  /\ UNCHANGED <<ticket, seen, reply, verdict>>

\* The engine projects the ticket once, the prompt policy again for each node.
Project ==
  /\ stage = "planned"
  /\ seen' = [r \in Reader |-> ProjectTask(BusinessTask(ticket), contract[r])]
  /\ stage' = "asked"
  /\ UNCHANGED <<ticket, contract, reply, verdict>>

Answered ==
  /\ stage = "asked"
  /\ reply' \in Replies(contract["final"])
  /\ verdict' = AnswerViolations(contract["final"], reply')
  /\ stage' = "judged"
  /\ UNCHANGED <<ticket, contract, seen>>

NextContract == Materialize \/ Project \/ Answered

ContractSpec == ContractInit /\ [][NextContract]_contractVars

(***************************************************************************)
(* Properties                                                              *)
(***************************************************************************)
\* The headings the final expert is held to are a list of the ticket: names
\* after a colon, or numbered lines.  Only a sentence that follows the names and
\* states no requirement gets into the last of them, and a stated list whose
\* count is right is taken over whatever else is numbered in the ticket.
Written(l) == LET names == Before(l.tail, {"stop", "require"})
              IN  [i \in DOMAIN names |-> <<names[i].text>>]

HeadingsAsListed ==
  LET lines    == FullTask(ticket)
      headings == contract["final"].headings
      stops(l) == \E i \in DOMAIN l.tail : l.tail[i].glue = "stop"
      extends(l) == /\ stops(l) /\ Len(headings) >= Len(Written(l))
                    /\ \A i \in DOMAIN Written(l) : headings[i][1] = Written(l)[i][1]
      counted  == Naming(lines, "counted")
      first    == lines[Min(counted)]
      plain(l) == /\ ~stops(l) /\ ChineseInteger(l.count) = Len(Written(l))
                  /\ Len(Written(l)) \in 2 .. HeadingLimit
                  /\ Cardinality(Range(Written(l))) = Len(Written(l))
  IN  /\ headings # <<>> =>
           \/ \E l \in Range(lines) : headings = Written(l) \/ extends(l)
           \/ \A i \in DOMAIN headings : \E l \in Range(lines) : l.number = i /\ l.lead = headings[i]
      /\ stage # "ticket" /\ counted # {} /\ plain(first) => headings = Written(first)

\* Some answer meets the contract of the final expert, unless the ticket asks
\* for JSON and for headings or a table as well: then none does.
ContractCanBeMet ==
  stage = "asked" =>
    LET c == contract["final"]
    IN  (\E a \in Replies(c) : AnswerViolations(c, a) = {})
          <=> c.fields = <<>> \/ (c.headings = <<>> /\ c.columns = <<>>)

\* The contract is what the ticket lists, and one that can be met.
ContractOfTheTicket == HeadingsAsListed /\ ContractCanBeMet

\* An answer that does what the node was told is refused only for what the rule
\* leaves unsaid: the table, where a table is all that the ticket asks for; a value
\* without content inside a field whose keys are spelled out; and a value there
\* that is not an object, where the ticket says that they are.  What is unsaid is
\* never held against an answer that meets it.
Follows(told, a) ==
  /\ told.fields # <<>> =>
       /\ a.json /\ DOMAIN a.fields = Range(told.fields)
       /\ \A f \in DOMAIN a.fields : a.fields[f].filled
       /\ \A n \in told.nested : DOMAIN a.fields[n[1]].inner = n[2]
  /\ told.headings # <<>> =>
       a.sections = [i \in DOMAIN told.headings |-> [heading |-> told.headings[i], filled |-> TRUE]]
  /\ told.columns # <<>> => a.header = told.columns

FollowedIsAccepted ==
  LET c == contract["final"]
      some(n, values) == Range(reply.fields[n[1]].inner) \cap values # {}
      unsaid == {<<"table">> : k \in {Kind(c)} \cap {"columns"}}
                \cup {<<"inner-empty", n[1]>> : n \in {m \in c.nested : some(m, Empty)}}
                \cup {<<"inner-objects", n[1]>> :
                        n \in {m \in c.nested : m[1] \in c.objects /\ some(m, Value \ Objects)}}
  IN  stage = "judged" /\ Follows(Told(c), reply) => verdict \subseteq unsaid

\* What a ticket says in its question, evidence and requirements reaches the
\* nodes that work on it.  They miss a clause only if it became (part of) a
\* heading, shares its line with a format demand and stands behind it, after a
\* verb or on a bullet, or names the mechanics of an execution; and of the
\* format they see what the line pattern does not know.  The final expert sees
\* the format or has it as its contract, unless a dropped clause had hidden it.
WorkReachesNodes ==
  stage \in {"asked", "judged"} =>
    LET task     == BusinessTask(ticket)
        texts(lines) == UNION {TextsOf(l) : l \in Range(lines)}
        headings == Range(MarkdownContract(task))
        beside(l, w) ==
          \/ l.wording # "none" /\ w \in {piece.text : piece \in Range(l.tail)}
          \/ l.wording \in FinalFormat /\ (l.bullet \/ Range(l.lead) \cap Verbal # {})
        dropped  == {l \in Range(ticket.requirements) : IsControl(l)}
    IN  /\ \A w \in texts(FullTask(ticket)) \ texts(seen["internal"]) :
             \/ w \in UNION {Range(h) : h \in headings}
             \/ \E l \in Range(task) : beside(l, w)
             \/ \E l \in dropped : w \in TextsOf(l)
        /\ Kind(Explicit(task)) # "generic" =>
             {l.wording : l \in Range(seen["internal"])}
               \subseteq {"none", "contain", "each", "nested", "objects", "pipe"}
        /\ \/ Kind(contract["final"]) # "generic"
           \/ seen["final"] = task
           \/ \E l \in dropped : l.wording # "none" \/ l.marker # "none" \/ l.number > 0
==============================================================================
