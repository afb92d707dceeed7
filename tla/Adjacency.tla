----------------------------- MODULE Adjacency -----------------------------
(* The adjacency pass (order_constrained of constrain.rs): items, in the order*)
(* their block left them, are re-ordered so that none conflicts with another  *)
(* or with what aired.  A greedy pass takes at every place the first item that*)
(* fits, or the first one left when none does; a repair then swaps pairs as   *)
(* long as a swap leaves fewer conflicts.                                     *)
(*                                                                            *)
(* Left out: MAX_REPAIR_ROUNDS, ten thousand, which no list of fewer conflicts*)
(* reaches, as every swap takes one away.                                     *)
EXTENDS Constrain

CONSTANTS
    Ids,            \* the entries items play
    Groups          \* the values of the field blocks separate on

Item == [id: Ids, group: SUBSET Groups, duration: Nat, repeat: Nat, within: Nat, separate: Nat]

VARIABLES
    items,          \* the list as the block left it
    preceding,      \* the tail of what aired, oldest first
    pending,        \* the items not placed yet, by number
    order,          \* the numbers of the items placed, in order
    phase,          \* "idle", "placing", "repairing" or "done"
    unresolved      \* the conflicts the pass reports

inputs == <<items, preceding>>
pass == <<items, preceding, pending, order, phase, unresolved>>

AsItCame == [i \in DOMAIN items |-> i]
Count(ord) == ViolationCount(preceding, items, ord)
Helping == Improvements(preceding, items, order, unresolved)

-----------------------------------------------------------------------------
IdlePass ==
    /\ items = <<>> /\ preceding = <<>>
    /\ pending = {} /\ order = <<>>
    /\ phase = "idle"
    /\ unresolved = 0

\* A generation hands its list over, with what aired before it.
Begin(list, aired) ==
    /\ phase = "idle"
    /\ items' = list /\ preceding' = aired
    /\ pending' = DOMAIN list /\ order' = <<>>
    /\ phase' = "placing"
    /\ unresolved' = 0

\* Nothing limits anything: the list stays as it is.
LeaveAsIs ==
    /\ phase = "placing" /\ IsUnconstrained(Widest(items))
    /\ order' = AsItCame
    /\ pending' = {}
    /\ phase' = "done"
    /\ UNCHANGED <<inputs, unresolved>>

Place ==
    /\ phase = "placing" /\ ~IsUnconstrained(Widest(items)) /\ pending # {}
    /\ LET c == PickOf(preceding, items, order, pending)
       IN  /\ order' = Append(order, c)
           /\ pending' = pending \ {c}
    /\ UNCHANGED <<inputs, phase, unresolved>>

Placed ==
    /\ phase = "placing" /\ ~IsUnconstrained(Widest(items)) /\ pending = {}
    /\ phase' = "repairing"
    /\ unresolved' = Count(order)
    /\ UNCHANGED <<inputs, pending, order>>

Improve ==
    /\ phase = "repairing" /\ unresolved > 0 /\ Helping # {}
    /\ LET s == FirstSwap(Helping)
       IN  /\ order' = Swap(order, s[1], s[2])
           /\ unresolved' = Count(Swap(order, s[1], s[2]))
    /\ UNCHANGED <<inputs, pending, phase>>

Settle ==
    /\ phase = "repairing" /\ (unresolved = 0 \/ Helping = {})
    /\ phase' = "done"
    /\ UNCHANGED <<inputs, pending, order, unresolved>>

\* The generation takes the list back, in its order.
Finish ==
    /\ phase = "done"
    /\ items' = <<>> /\ preceding' = <<>>
    /\ pending' = {} /\ order' = <<>>
    /\ phase' = "idle"
    /\ unresolved' = 0

Reorder == LeaveAsIs \/ Place \/ Placed \/ Improve \/ Settle

\* The pass over any lists, one after another.
PassNext == (\E list, aired \in Seq(Item) : Begin(list, aired)) \/ Reorder \/ Finish
PassSpec == IdlePass /\ [][PassNext]_pass

-----------------------------------------------------------------------------
(* What the pass promises.                                                    *)

GivenItems == items \in Seq(Item) /\ preceding \in Seq(Item)

\* Every item is pending or placed, and placed once: greedy pass and repair move items and
\* neither lose nor repeat one (order_constrained, repair).
Rearranges ==
    /\ GivenItems
    /\ phase \in {"idle", "placing", "repairing", "done"}
    /\ pending \subseteq DOMAIN items
    /\ order \in Seq(DOMAIN items)
    /\ \A i, j \in DOMAIN order : order[i] = order[j] => i = j
    /\ {order[i] : i \in DOMAIN order} = DOMAIN items \ pending
    /\ phase # "placing" => pending = {}

\* The count the channel reports is the number of pairs that conflict, wherever they stand:
\* cutting the walks off at the reach of the limits loses no conflict, within the list or
\* across the seam (axes_exhausted, violation_count).
ReportsEveryConflict ==
    phase = "done" =>
        LET line == Line(preceding, items, order)
            Pairs == {p \in (DOMAIN line) \X (DOMAIN line) :
                        p[1] < p[2] /\ Len(preceding) < p[2] /\ Clash(line, p[1], p[2])}
        IN  unresolved = Cardinality(Pairs)
=============================================================================
