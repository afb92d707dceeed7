-------------------------- MODULE ChannelTimeline --------------------------
(***************************************************************************)
(* On a healthy disk the loop of a channel implements Timeline: the line   *)
(* is what the items in the playout folder say, and from the moment a wipe *)
(* is decided on, what the wipe will leave of them.                        *)
(***************************************************************************)
EXTENDS ChannelLoop

Shown(i) == [start |-> i.start, finish |-> i.finish, pos |-> i.pos]

\* The refinement mapping.
Line ==
    {Shown(i) : i \in IF wipe.job = "none" THEN Items
                      ELSE {j \in Items : j.finish <= wipe.cut}}

Promise == INSTANCE Timeline WITH line <- Line, MaxBatch <- ChunkLen + 1

\* Every step of the loop is a step of the timeline or none at all: chunk by chunk, file by file, a
\* viewer only sees a line that goes on, is taken back from behind the programme on screen, or ages
\* (daemon.rs:2747).
KeepsItsPromise == Promise!Spec

=============================================================================
