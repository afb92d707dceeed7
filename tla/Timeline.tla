------------------------------ MODULE Timeline ------------------------------
(***************************************************************************)
(* What a channel promises its viewers, with no word of files, chunks,     *)
(* sidecars or passes: a line of programmes that plays a list in order,    *)
(* over and over.  It is extended at its end, where the list goes on; its  *)
(* future may be taken back, never what has begun; what has aired long ago *)
(* is forgotten.                                                           *)
(***************************************************************************)
EXTENDS Integers, FiniteSetsExt

CONSTANTS
    Airtime(_),     \* airtime of the first q items of the endless list
    Title(_),       \* the title of its q-th item
    Titles,         \* the titles of the list
    MaxBatch,       \* the most programmes one step adds
    Retention       \* how long what has aired is kept

VARIABLES now, line

End == Max({now} \cup {i.finish : i \in line})

\* Where the list goes on: after the last programme.
NextTitles ==
    IF line = {} THEN Titles
    ELSE {Title(i.pos + 1) : i \in {j \in line : \A k \in line : k.finish <= j.finish}}

Programmes(p, n, from) ==
    {[start  |-> from + (Airtime(q) - Airtime(p)),
      finish |-> from + (Airtime(q + 1) - Airtime(p)),
      pos    |-> Title(q)] : q \in p .. p + n - 1}

Init == line = {}

\* The list goes on where the line ends.
Extend ==
    /\ \E n \in 1 .. MaxBatch, p \in NextTitles : line' = line \cup Programmes(p, n, End)
    /\ UNCHANGED now

\* The future is taken back from an instant on that no programme on screen reaches.
TakeBack ==
    /\ \E t \in {now} \cup {i.finish : i \in line} :
         /\ \A i \in line : i.start <= now => i.finish <= t
         /\ line' = {i \in line : i.finish <= t}
    /\ UNCHANGED now

Forget ==
    /\ line' \in SUBSET line
    /\ \A i \in line \ line' : i.finish < now - Retention
    /\ UNCHANGED now

Tick == now' > now /\ UNCHANGED line

Next == Extend \/ TakeBack \/ Forget \/ Tick

Spec == Init /\ [][Next]_<<now, line>>

=============================================================================
