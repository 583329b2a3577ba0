---------------------------- MODULE MCAnswerGate ----------------------------
(* Two required headings a character apart, two misspelt ones (one of them    *)
(* near both) and one of the model's own; one claim of each sort the gates    *)
(* tell apart; up to three sections of one or two lines, with or without a    *)
(* preamble or blank lines, and some in which a calculation stands just       *)
(* within reach of the threshold it belongs to.  The run has two more ways to  *)
(* start: a ticket whose contract is read, projected and met, and a claim     *)
(* that is looked for in the text of a task.                                  *)
EXTENDS AnswerGate, MCDeliveryContract, MCClaimSupport, TLC

MCHeading == {"A", "B", "A2", "A3", "X"}
MCRequired == <<"A", "B">>
MCOneEdit == {<<"A", "B">>, <<"B", "A">>, <<"A2", "A">>, <<"A2", "B">>, <<"A3", "A">>}

MCClaim == {"given", "rule", "mixed", "policy", "compare", "insight", "alien",
            "sum", "bare", "badsum", "advice", "habit", "title", "title9",
            "blank", "turn", "flip", "aim", "pick"}
MCSupported == {"given", "policy", "flip"}
MCDerived == {"policy", "compare"}
MCNormative == {"rule", "mixed", "policy", "flip"}
MCInferential == {"insight"}
MCParts == "mixed" :> <<"given", "rule">> @@ "flip" :> <<"given", "rule">>
MCIntroducing == {"sum", "bare", "badsum", "title9"}
MCWorked == {"sum", "badsum"}
MCWrongSum == {"badsum"}
MCMarks == [c \in MCClaim |-> CASE c = "advice" -> {"judgment"}
                                [] c = "habit" -> {"experience"}
                                [] c = "sum" -> {"calculated", "audited"}
                                [] c = "flip" -> {"audited"}
                                [] c = "turn" -> {"threshold"}
                                [] c = "aim" -> {"goal"}
                                [] OTHER -> {}]
MCMisdirected == {"badsum"}
MCObligation == {"fact", "judgment", "calculated", "result", "threshold", "goal", "audited"}
Numbers == [c \in MCClaim |-> {c} \cap MCIntroducing]
MCWindow ==
  "threshold" :> [above |-> 1, below |-> 3, first |-> FALSE, needed |-> 1, brings |-> Numbers]
  @@ "goal" :> [above |-> 0, below |-> 3, first |-> TRUE, needed |-> 1,
                brings |-> [c \in MCClaim |-> {c} \cap {"pick"}]]
  @@ "audited" :> [above |-> 0, below |-> 0, first |-> FALSE, needed |-> 1,
                   brings |-> [c \in MCClaim |-> {c} \cap {"sum", "flip"}]]

Task(s, d, e, o) == [strict |-> s, derivation |-> d, experience |-> e, obligations |-> o]
MCTasks ==
  {Task(TRUE, FALSE, FALSE, {"audited"}), Task(TRUE, TRUE, FALSE, {"calculated", "result"}),
   Task(TRUE, FALSE, TRUE, {"fact", "calculated"}), Task(FALSE, FALSE, FALSE, {"fact"}),
   Task(TRUE, TRUE, FALSE, {"fact", "judgment"}),
   Task(FALSE, TRUE, FALSE, {"threshold"}), Task(FALSE, FALSE, FALSE, {"goal"})}
MCNodes == [final : BOOLEAN, explicit : BOOLEAN]

H(k, c) == [key |-> k, label |-> "none", claim |-> c]
B(l, c) == [key |-> NoHeading, label |-> l, claim |-> c]
Hs == {H("A", "title"), H("B", "title"), H("A2", "title"), H("A3", "title"), H("X", "title9")}
Bs == {B("fact", "given"), B("fact", "mixed"), B("fact", "policy"), B("fact", "compare"),
       B("fact", "insight"), B("fact", "alien"), B("boldFact", "insight"),
       B("none", "sum"), B("fact", "sum"), B("none", "bare"), B("none", "badsum"),
       B("none", "advice"), B("none", "habit"), BlankLine}
Reach == {B("none", "turn"), B("fact", "flip"), B("fact", "mixed"), B("fact", "given"),
          B("none", "sum"), B("none", "aim"), B("none", "pick"), BlankLine}

MCAnswers ==
  {<<b>> : b \in Bs \ {BlankLine}}
  \cup {<<h, b, g, c>> : h, g \in {H("A", "title"), H("B", "title")}, b, c \in Bs}
  \cup {<<h, b, g, c>> : h, g \in Hs, b \in Bs,
                         c \in {B("fact", "mixed"), B("none", "bare"), BlankLine}}
  \cup {<<b, h, c, g, c>> : h, g \in Hs, b, c \in {B("fact", "given"), B("none", "bare")}}
  \cup {<<h, b, g>> : h, g \in Hs, b \in Bs}
  \cup {<<h, b, c, g, b>> : h, g \in {H("A", "title"), H("B", "title")}, b \in Bs,
                            c \in {B("fact", "alien"), B("none", "bare")}}
  \cup {<<H("A", "title"), b, c, BlankLine, d, H("B", "title"), B("fact", "given")>> :
            b, c \in Reach, d \in {B("none", "sum"), B("none", "pick"), B("fact", "flip")}}
  \cup {<<H("B", "title"), b, H("A", "title"), c>> : b, c \in Reach}
  \cup {<<h, b, g, b, f, b>> : h, g, f \in Hs, b \in {B("fact", "given"), B("fact", "alien")}}

AnswerIdle ==
  /\ pc = "idle"
  /\ task = (CHOOSE t \in Tasks : TRUE) /\ node = (CHOOSE n \in Nodes : TRUE)
  /\ raw = <<>> /\ truncated = FALSE /\ answer = <<>> /\ raw_answer = <<>>
  /\ normalized = FALSE /\ status = "none" /\ category = "none" /\ gate_reasons = {}

MCInit == \/ ContractIdle /\ ClaimIdle /\ Init
          \/ AnswerIdle /\ ClaimIdle /\ ContractInit
          \/ AnswerIdle /\ ContractIdle /\ ClaimInit
MCNext == \/ Next /\ UNCHANGED <<contractVars, claimVars>>
          \/ NextContract /\ UNCHANGED <<vars, claimVars>>
          \/ NextClaim /\ UNCHANGED <<vars, contractVars>>
MCSpec == MCInit /\ [][MCNext]_<<vars, contractVars, claimVars>>
==============================================================================
