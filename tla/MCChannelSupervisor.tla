------------------------ MODULE MCChannelSupervisor ------------------------
(***************************************************************************)
(* The instances of ChannelSupervisor that TLC checks: two titles of two   *)
(* and one units, so that one of them straddles a chunk boundary.          *)
(***************************************************************************)
EXTENDS ChannelSupervisor

MCPair == [p \in 0 .. 2 |-> CASE p = 0 -> 0 [] p = 1 -> 2 [] p = 2 -> 3]

=============================================================================
