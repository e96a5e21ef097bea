------------------------ MODULE MCPriorityScheduler ------------------------
(* Three requests of two priorities served by three threads. *)
EXTENDS PriorityScheduler, TLC

CONSTANTS r1, r2, r3
ItemValue == {r1, r2, r3}
PriorityValue == (r1 :> 1) @@ (r2 :> 3) @@ (r3 :> 3)
=============================================================================
