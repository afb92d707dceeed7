--------------------------- MODULE MCRenderQueue ---------------------------
(* Two plans whose renders share a stem directory.  The channels of a station *)
(* are tasks beside each other, and the bumper scripts of each may enqueue.   *)
(* The run has one process, which may enqueue at any step of the sidecar; the *)
(* theorems hold for any number of them at once.                              *)
EXTENDS RenderQueue

MCPlans == 1..2
MCUses  == [p \in MCPlans |-> IF p = 1 THEN {"s"} ELSE {"s", "t"}]
=============================================================================
