----------------------------- MODULE Constrain -----------------------------
(* How near two items may come (constrain.rs).  An item is a record of the    *)
(* entry it plays, the values of the field its block separates on, how long   *)
(* it runs, and its own limits: "repeat" places or "within" time before its   *)
(* entry may come again, at most one of them not zero, and "separate" places  *)
(* between two items of a group.  Zero switches a limit off.                  *)
EXTENDS SequencesExt, FiniteSets, Integers

\* What has aired has no limits of its own: its order is no longer ours to revisit.
Emitted(item) == [item EXCEPT !.repeat = 0, !.within = 0, !.separate = 0]

\* How far the limits of one item reach, on both axes.
Reach(item) == [positions |-> Max({item.repeat, item.separate}), duration |-> item.within]

\* The widest reach of a list.
Widest(items) ==
    [positions |-> Max({0} \cup {Reach(items[i]).positions : i \in DOMAIN items}),
     duration  |-> Max({0} \cup {Reach(items[i]).duration : i \in DOMAIN items})]

IsUnconstrained(reach) == reach.positions = 0 /\ reach.duration = 0

\* Mutant of AxesExhausted: one axis left behind is enough.
OneAxisExhausted(d, reach) ==
    d.positions > reach.positions \/ (reach.duration > 0 /\ d.elapsed > reach.duration)

\* Both axes are left behind: nothing farther back can be nearer on either.
AxesExhausted(d, reach) ==
    /\ d.positions > reach.positions
    /\ reach.duration = 0 \/ d.elapsed > reach.duration

GapConflict(item, d) ==
    \/ item.repeat > 0 /\ d.positions <= item.repeat
    \/ item.within > 0 /\ d.elapsed <= item.within

\* The stricter of the two limits holds, on either axis.
Conflict(a, b, d) ==
    \/ a.id = b.id /\ (GapConflict(a, d) \/ GapConflict(b, d))
    \/ d.positions <= Max({a.separate, b.separate}) /\ a.group \cap b.group # {}

\* How far place j of a line comes after place i: the items from i up to j play in between.
Distance(line, i, j) ==
    [positions |-> j - i,
     elapsed   |-> SumFunctionOnSet([k \in DOMAIN line |-> line[k].duration], i..(j - 1))]

Within(line, i, j, reach) == ~AxesExhausted(Distance(line, i, j), reach)
Clash(line, i, j) == Conflict(line[j], line[i], Distance(line, i, j))

-----------------------------------------------------------------------------
(* Against what is already emitted.                                           *)

\* The places of a history that a walk back from place j meets before it is out of reach.
WalkBack(line, j, reach) == {k \in 1..(j - 1) : \A q \in k..(j - 1) : Within(line, q, j, reach)}

\* How many of the last items an item of these limits can still conflict with.
HistoryNeeded(history, reach) ==
    IF IsUnconstrained(reach) THEN 0 ELSE Cardinality(WalkBack(history, Len(history) + 1, reach))

\* Would the item conflict with something, coming next?
ConflictsWithRecent(recent, item) ==
    LET line == Append([k \in DOMAIN recent |-> Emitted(recent[k])], item)
    IN  \E k \in WalkBack(line, Len(line), Reach(item)) : Clash(line, k, Len(line))

-----------------------------------------------------------------------------
(* The re-ordering of a list of items after what aired.  An order is a        *)
(* sequence of numbers of items; the line it makes starts with what aired.    *)

Line(aired, items, order) ==
    [k \in DOMAIN aired |-> Emitted(aired[k])] \o [k \in DOMAIN order |-> items[order[k]]]

\* Would item c conflict with something, placed next?  The walk goes back over what is
\* placed as far as any limit reaches, then over what aired as far as its own limits do.
Violates(aired, items, order, c) ==
    LET P == Len(aired)
        line == Append(Line(aired, items, order), items[c])
        j == Len(line)
        Seam(k) == \A q \in k..P : Within(line, q, j, Reach(items[c]))
    IN  \/ \E k \in WalkBack(line, j, Widest(items)) : k > P /\ Clash(line, k, j)
        \/ /\ \A q \in (P + 1)..(j - 1) : Within(line, q, j, Widest(items))
           /\ \E k \in 1..P : Seam(k) /\ Clash(line, k, j)

SeamClashes(P, line, j) ==
    {k \in 1..P : /\ \A q \in k..P : Within(line, q, j, Reach(line[j]))
                  /\ Clash(line, k, j)}

\* The conflicts of an order: the objective of the repair.
ViolationCount(aired, items, order) ==
    LET P == Len(aired)
        line == Line(aired, items, order)
        reach == Widest(items)
        Ahead(i) == {j \in (i + 1)..Len(line) :
                        /\ \A q \in (i + 1)..j : Within(line, i, q, reach)
                        /\ Clash(line, i, j)}
    IN  SumFunction([i \in (P + 1)..Len(line) |->
                        Cardinality(Ahead(i)) + Cardinality(SeamClashes(P, line, i))])

\* The places that conflict with a later one, or across the seam.
ViolatingPositions(aired, items, order) ==
    LET P == Len(aired)
        line == Line(aired, items, order)
        reach == Widest(items)
    IN  {i \in DOMAIN order :
            \/ \E j \in (P + i + 1)..Len(line) : Within(line, P + i, j, reach) /\ Clash(line, P + i, j)
            \/ \E k \in 1..P : Within(line, k, P + i, Reach(line[P + i])) /\ Clash(line, k, P + i)}

Swap(order, i, j) == [order EXCEPT ![i] = order[j], ![j] = order[i]]

\* The swaps the repair tries that leave fewer conflicts.
Improvements(aired, items, order, best) ==
    {s \in ViolatingPositions(aired, items, order) \X (DOMAIN order) :
        s[1] # s[2] /\ ViolationCount(aired, items, Swap(order, s[1], s[2])) < best}

\* The first of them, by the place that conflicts, then by the other.
FirstSwap(swaps) ==
    CHOOSE s \in swaps : \A t \in swaps : s[1] < t[1] \/ (s[1] = t[1] /\ s[2] <= t[2])

\* The first item left that fits, or the first one left.
PickOf(aired, items, order, pending) ==
    LET fitting == {c \in pending : ~Violates(aired, items, order, c)}
    IN  Min(IF fitting # {} THEN fitting ELSE pending)
=============================================================================
