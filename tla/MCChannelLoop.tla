--------------------------- MODULE MCChannelLoop ---------------------------
(***************************************************************************)
(* The instances of ChannelLoop that TLC checks.                           *)
(***************************************************************************)
EXTENDS ChannelTimeline

\* Four titles of 2 and 3 units: with chunks of three units some straddle a
\* boundary, none is longer than a chunk.
Short == <<2, 5, 7, 10>>
MCShort == [p \in 0 .. 4 |-> IF p = 0 THEN 0 ELSE Short[p]]

\* Two titles of one unit: with an even chunk none straddles.
MCTiles == [p \in 0 .. 2 |-> p]

=============================================================================
