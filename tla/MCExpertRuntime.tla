--------------------------- MODULE MCExpertRuntime ---------------------------
(* Graphs on which ExpertRuntime is checked: the constants of the cfg files. *)
EXTENDS ExpertRuntime, TLC

CONSTANTS na, nb, nc, sa, sb, sc, r1, t1, t2

TwoNodes   == {na, nb}
ThreeNodes == {na, nb, nc}
Selection  == na :> sa @@ nb :> sb
Selection3 == na :> sa @@ nb :> sb @@ nc :> sc

OneStage   == <<{na, nb}>>
FanIn      == <<{na, nb}, {nc}>>

(* The two nodes of OneStage are interchangeable together with their models. *)
Mirror   == na :> nb @@ nb :> na @@ sa :> sb @@ sb :> sa
Symmetry == {Mirror} \cup Permutations({t1, t2})
=============================================================================
