--------------------------- MODULE MCClaimSupport ---------------------------
(* Tasks of one to three units and claims of one or two, over two words that  *)
(* are near each other, a word of one character and one of counting, two      *)
(* places, two quantities that look alike and every separator; some say a     *)
(* place, a word, a denial or a quantity in brackets.                         *)
EXTENDS ClaimSupport

MCWord == {"guard", "watch", "x", "total", "Guard"}
MCBrief == {"x"}
MCMarker == {"total"}
MCPlace == {"east", "west"}
MCQuantity == {"3", "5", "3.0"}
MCStandard == [s \in {"Guard", "3.0"} |-> IF s = "Guard" THEN "guard" ELSE "3"]
MCNear == {<<"guard", "watch">>, <<"watch", "guard">>, <<"east", "west">>, <<"west", "east">>,
           <<"3", "5">>, <<"5", "3">>}
MCClose == {<<"3", "5">>, <<"5", "3">>}

Beside(terms, quantities, asideTerms, asideQuantities) ==
  [terms |-> terms, quantities |-> quantities,
   aside |-> [terms |-> asideTerms, quantities |-> asideQuantities]]
U(terms, quantities) == Beside(terms, quantities, {}, {})
Aside(terms, quantities) == Beside({"guard"}, {"3"}, terms, quantities)
Units ==
  {U({"guard"}, {"3"}), U({"watch"}, {"5"}), U({"east"}, {}), U({"east", "guard"}, {"3"}),
   U({"west", "guard"}, {"5"}), U({"guard", "onsite"}, {"3"}), U({}, {"3"}), U({"x"}, {"5"}),
   U({"negative", "guard"}, {"3"}), U({"absence", "watch"}, {}), U({"total", "guard"}, {"3", "5"})}
\* Seen before another unit only.
Firsts == {U({"east", "guard"}, {"3"}), U({"guard", "onsite"}, {"3"}), U({"x"}, {"5"}),
           U({"total", "guard"}, {"3", "5"})}
ClaimUnits ==
  Units \cup {U({"Guard"}, {"3.0"}), U({}, {}), U({"west", "guard"}, {"3"}),
              U({"unknown", "east", "guard"}, {"3"}), U({"watch", "onsite"}, {"5"}),
              U({"x", "onsite"}, {"5"}),
              U({"guard"}, {"5"}), U({"negative", "east"}, {"5"}), U({"guard", "watch"}, {"3"}),
              U({"negative", "east", "guard"}, {"5"})}
Bracketed == {Aside({"east"}, {}), Aside({"watch"}, {}), Aside({"negative"}, {}), Aside({}, {"5"}),
              Beside({}, {"3"}, {"guard"}, {}), Beside({"guard", "onsite"}, {}, {"watch"}, {"3"}),
              Beside({}, {}, {"east", "guard"}, {"5"})}

One(u) == <<[unit |-> u, sep |-> "stop"]>>
Then(s, t, u) == [t EXCEPT ![Len(t)].sep = s] \o One(u)

Closed(t) == [text |-> t, marks |-> {"closedWorld"}]
MCMatters ==
  {Closed(One(u)) : u \in Units \cup {U({"x", "onsite"}, {"5"})}}
  \cup {Closed(Then(s, One(u), v)) : s \in Separator, u \in Units, v \in Units \ Firsts}
  \cup {Closed(Then(s, Then(r, One(U({"east"}, {})), u), v)) :
          s, r \in Separator, u, v \in {U({"guard"}, {"3"}), U({"west", "guard"}, {"5"}),
                                        U({"negative", "guard"}, {"3"})}}
  \cup {Closed(Then(s, Then("stop", One(U({"negative", "east", "guard"}, {})), U({"east"}, {})),
                    U({"guard"}, {"5"}))) : s \in Separator}
  \cup {Closed(Then(s, One(u), v)) :
          s \in {"stop", "yet", "and"}, u \in Bracketed,
          v \in {U({"west", "guard"}, {"3"}), U({"watch"}, {"5"})} \cup Bracketed}
  \cup {Closed(Then(s, One(U({"east", "guard"}, {"5"})), U({"west", "guard"}, {"3"}))) :
          s \in {"stop", "yet"}}
  \cup {[text |-> One(U({"guard"}, {"3"})), marks |-> m] : m \in SUBSET PolicyMark}

MCClaims ==
  {One(u) : u \in ClaimUnits \cup Bracketed}
  \cup {Then(s, One(u), v) : s \in {"comma", "yet"},
          u, v \in {U({"guard"}, {"3"}), U({"east"}, {}), U({"watch"}, {"5"}),
                    U({"negative", "guard"}, {"3"}), U({"guard", "onsite"}, {"3"})}}

ClaimIdle ==
  /\ matter = (CHOOSE m \in Matters : TRUE) /\ claim = (CHOOSE c \in Claims : TRUE)
  /\ constraints = Compiled({}) /\ source = <<>> /\ rest = {} /\ finding = "idle"

ClaimSpec == ClaimInit /\ [][NextClaim]_claimVars
==============================================================================
