---------------------------- MODULE MCRunDelivery ----------------------------
(* Two content nodes and one final node: the constants of the cfg files. *)
EXTENDS RunDelivery, TLC

CONSTANTS na, nb, nf, wa, wb, wf

Assignment == na :> {wa} @@ nb :> {wb} @@ nf :> {wf}
==============================================================================
