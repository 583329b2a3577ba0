------------------------------- MODULE MCCatalog -------------------------------
(* Two orders of a small market: a model that is listed twice, a routed one,  *)
(* one of a company that governs, one without a price.  A route of model 1    *)
(* has two endpoints, the weaker of which may come first or be insufficient.  *)
EXTENDS Catalog, TLC

Listed(m, context, completion, price, supports) ==
  [model |-> m, context |-> context, completion |-> completion, price |-> price,
   text |-> TRUE, supports |-> supports]
Endpoint(provider, tier, verified, context, completion, price, supports) ==
  [provider |-> provider, tier |-> tier, verified |-> verified, context |-> context,
   completion |-> completion, price |-> price, supports |-> supports]
Needed(m, context, completion) ==
  [model |-> m, context |-> context, completion |-> completion]

MCSorts == <<"popular", "throughput">>
MCRouted == {4}
MCGoverned == 5 .. 8
MCGoverning == [gpt |-> {6, 7}, opus |-> {8}]
MCDirect == [gpt |-> 3, opus |-> 4]
MCProtocol == {"seed"}

Small == Listed(1, 8, 4, 3, {"seed", "tools"})
Other == Listed(2, 6, 0, 5, {"seed"})
Flagship(m) == Listed(m, 9, 9, 9, {})
Big == Listed(3, 9, 4, Unstated, {"seed"})

MCListings ==
  [popular |-> {<<Other, Small, Listed(4, 8, 4, 3, {}), Listed(5, 8, 4, 3, {}), Big, Other, Flagship(7), Flagship(8), Flagship(6)>>,
                <<Small, Other>>},
   throughput |-> {<<[Small EXCEPT !.price = 4], Big, Flagship(8)>>, <<Other, Big, Flagship(6)>>}]

Own(provider, completion) == Endpoint(provider, "standard", FALSE, 0, completion, 1, {"seed", "tools"})

Weak == Endpoint(1, "standard", FALSE, 5, 0, 6, {"seed"})
Strong == Endpoint(1, "standard", FALSE, 9, 3, Unstated, {})
Short == Endpoint(1, "standard", FALSE, 2, 3, 1, {"seed"})
Flex == Endpoint(2, "optional", FALSE, 9, 9, 1, {"seed"})
Vouched == Endpoint(2, "optional", TRUE, 7, 2, 2, {})
Unnamed == Endpoint(Unstated, "standard", FALSE, 9, 9, 1, {})

MCInventories ==
  [m \in 1 .. 8 |->
     CASE m = 1 -> {<<Weak, Strong>>, <<Strong, Short, Weak>>, <<Vouched, Strong>>}
       [] m = 2 -> {<<Flex>>, <<Vouched, Unnamed>>, <<Short>>}
       [] m \in 6 .. 7 -> {<<Own(1, 9), Own(3, 3)>>, <<Own(3, 1)>>}
       [] m = 8 -> {<<Own(4, 3)>>}
       [] OTHER -> {<<>>}]
MCPrivateLists == {(1 .. 3) \X {1, 2, Unstated}, {<<1, 1>>, <<2, 2>>} \cup ((6 .. 8) \X (3 .. 4))}

MCPool == <<Needed(1, 10, 0), Needed(3, 0, 5)>>
MCPlans ==
  {<<>>, <<Needed(3, 4, 4), Needed(1, 1, 9), Needed(3, 12, 1)>>, <<Needed(2, 4, 0), Needed(1, 0, 0)>>}

\* The catalog is handed over or refused.
CatalogOver == phase \in {"done", "raised"} /\ UNCHANGED catalogVars
================================================================================
