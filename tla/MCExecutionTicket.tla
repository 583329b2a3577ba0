-------------------------- MODULE MCExecutionTicket --------------------------
(* Two runs, on one issue or on two; the pool of the first issue has two     *)
(* chunks, the first of which may also come in another compression.          *)
EXTENDS ExecutionTicket, TLC

CONSTANTS r1, r2

SameOrOneEach == {r1 :> 1 @@ r2 :> 1, r1 :> 1 @@ r2 :> 2}
ChunkCounts   == <<2, 1>>
ChunkComments == <<{<<1, "z">>, <<2, "z">>, <<1, "y">>}, {<<1, "z">>}>>
==============================================================================
