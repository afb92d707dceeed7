---------------------------- MODULE MCEventHooks ----------------------------
(* A hook on items and one by the clock (and, for a larger instance, one on   *)
(* sessions).                                                                 *)
EXTENDS EventHooks
MCTrigger(h) == IF h = "items" THEN "playback_item_change" ELSE "viewer_start"
=============================================================================
