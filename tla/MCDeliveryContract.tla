------------------------- MODULE MCDeliveryContract -------------------------
(* Tickets of up to three lines of every wording, with names well counted,     *)
(* miscounted, missing or followed by more text; one requirement of the same  *)
(* wordings, with and without a word of the execution's mechanics.            *)
EXTENDS DeliveryContract

MCText == {"A", "B", "work", "more", "use", "must", "standby", "ka", "kb", "kc", "out"}
MCIdentifier == {"ka", "kb", "kc"}
MCVerbal == {"use"}
MCControl == {"standby"}
MCOutputs == <<<<"out">>>>

P(glue, text) == [glue |-> glue, text |-> text]
L(text) == P("list", text)
Format(wording, count, tail) ==
  [Plain(<<>>) EXCEPT !.wording = wording, !.count = count, !.tail = tail]
Numbered(n, text) == [Plain(<<text>>) EXCEPT !.number = n]
Led(words, l) == [l EXCEPT !.lead = words]
Bulleted(l) == [l EXCEPT !.bullet = TRUE]
Marked(m, l) == [l EXCEPT !.marker = m]
Chinese(l) == [l EXCEPT !.arabic = FALSE]

AB == <<L("A"), L("B")>>
Formats ==
  {Format("counted", <<2>>, AB),
   Led(<<"work">>, Format("counted", <<2>>, AB \o <<P("stop", "more")>>)),
   Led(<<"use">>, Format("counted", <<2>>, AB \o <<P("require", "must"), L("more")>>)),
   Format("counted", <<3>>, AB),
   Marked("opens", Chinese(Format("counted", <<2>>, <<>>))),
   Led(<<"work">>, Format("counted", <<2>>, <<>>)),
   Led(<<"work">>, Format("inferred", <<>>, AB \o <<P("stop", "more")>>)),
   Chinese(Format("contain", <<2>>, AB)),
   Led(<<"work">>, Format("cue", <<>>, <<>>)),
   Marked("before", Format("each", <<>>, <<>>)),
   Led(<<"work">>, Format("json", <<>>, <<L("ka"), L("kb"), P("stop", "more")>>)),
   Led(<<"kb">>, Format("nested", <<>>, <<L("kc")>>)),
   Led(<<"ka">>, Format("nested", <<>>, <<L("kb"), L("kc"), P("stop", "more")>>)),
   Led(<<"ka">>, Format("objects", <<>>, <<L("kb"), L("kc")>>)),
   Led(<<"use">>, Format("table", <<>>, <<>>)),
   Format("pipe", <<>>, <<L("A"), L("work")>>)}
Others ==
  {Plain(<<"work">>), Plain(<<"A">>), Numbered(1, "A"), Numbered(2, "work"), Numbered(2, "A"),
   Marked("before", Plain(<<"more">>))}
Lines == Formats \cup Others

Requirements ==
  {<<>>} \cup {<<Bulleted(l)>> : l \in Others \cup Formats}
  \cup {<<Bulleted(Led(<<"standby">>, l))>> : l \in Formats \cup {Plain(<<>>)}}
MCTickets ==
  [question : {<<l>> : l \in Lines} \cup {<<l, m>> : l, m \in Lines},
   requirements : Requirements, evidence : {<<>>}]
  \cup [question : {<<l, m, n>> : l, m, n \in Lines}, requirements : {<<>>},
        evidence : {<<>>, <<Plain(<<"more">>)>>}]
  \cup [question : {<<Marked("opens", Format("counted", <<2>>, <<>>)),
                     Numbered(1, "A"), Numbered(2, "work")>>},
         requirements : {<<Bulleted(Numbered(3, "standby"))>>}, evidence : {<<>>}]

Digits(n) == IF n = 0 THEN <<>> ELSE <<n>>
Spelled(n) ==
  LET tens == (n % 100) \div 10
      low  == Digits(n % 10)
  IN  CASE n < 10 -> <<n>>
        [] n \in 10 .. 19 -> <<10>> \o low
        [] n \in 20 .. 99 -> <<tens, 10>> \o low
        [] n = 100 -> <<1, 100>>
        [] n \in 101 .. 109 -> <<1, 100, 0, n % 10>>
        [] OTHER -> <<1, 100, tens, 10>> \o low

\* Every numeral a list may be announced with is read, but 101 to 109.
ASSUME NumeralsRead ==
  \A n \in 0 .. 128 : ChineseInteger(Spelled(n)) = IF n \in 101 .. 109 THEN Unreadable ELSE n

\* No ticket is read while an answer is judged.
ContractIdle ==
  /\ ticket = [question |-> <<>>, requirements |-> <<>>, evidence |-> <<>>]
  /\ stage = "idle"
  /\ contract = [r \in Reader |-> Generic] /\ seen = [r \in Reader |-> <<>>]
  /\ reply = NoReply /\ verdict = {}
===============================================================================
