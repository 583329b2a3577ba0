-------------------------------- MODULE Lists --------------------------------
(* Lists given by their members and an order, instead of by the loop that     *)
(* makes them.                                                                *)
EXTENDS Naturals, FiniteSets

\* The members of S, in the order that the pairs give.
Sorted(S, pairs) ==
  [n \in 1 .. Cardinality(S) |->
     CHOOSE x \in S : Cardinality({y \in S : <<y, x>> \in pairs}) = n - 1]

\* Numbers from the least up, and pairs of numbers, the first of them first.
Ascending(S) == Sorted(S, {p \in S \X S : p[1] < p[2]})
Lexical(S) ==
  Sorted(S, {p \in S \X S : \/ p[1][1] < p[2][1]
                            \/ p[1][1] = p[2][1] /\ p[1][2] < p[2][2]})
==============================================================================
