------------------------------ MODULE Delivery ------------------------------
(***************************************************************************)
(* What one run of the pipeline promises whoever reads its summary file.   *)
(*                                                                         *)
(* The reader (the terminal step of the ticket workflow) looks at          *)
(* v5-execution-summary.json once the pipeline process is over.  The       *)
(* process may write the file several times, and may be stopped at any     *)
(* time, even in the middle of a write.                                    *)
(***************************************************************************)

VARIABLES
  claim,    \* what the summary on disk says the run achieved
  over      \* the process has ended

deliveryVars == <<claim, over>>

Claims == {"none", "torn", "full", "degraded", "failed"}

\* A first summary may say anything; a later one repeats it or withdraws a
\* success.  A failure is final, and so is the kind of success.
Withdrawable == {"full", "degraded"}

Publish(c) ==
  /\ ~over
  /\ \/ claim = "none"
     \/ claim \in Withdrawable /\ c = "failed"
  /\ claim' = c
  /\ UNCHANGED over

\* The process ends by itself or is stopped; only a stop tears the file.
Stop(c) ==
  /\ ~over
  /\ c \in {claim, "torn"}
  /\ claim' = c
  /\ over' = TRUE

DeliveryInit == claim = "none" /\ over = FALSE

DeliveryNext ==
  \/ \E c \in {"full", "degraded", "failed"} : Publish(c)
  \/ \E c \in Claims : Stop(c)

DeliverySpec == DeliveryInit /\ [][DeliveryNext]_deliveryVars

-----------------------------------------------------------------------------
\* The heading of the terminal comment.  A summary that is no JSON makes the
\* step fail before it posts anything.
Heading(c, artifact_valid) ==
  CASE c = "torn"     -> "none"
    [] c = "full"     -> IF artifact_valid THEN "EXECUTION_COMPLETED"
                                           ELSE "EXECUTION_FAILED"
    [] c = "degraded" -> "EXECUTION_DEGRADED"
    [] OTHER          -> "EXECUTION_FAILED"
=============================================================================
