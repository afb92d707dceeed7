------------------------- MODULE MCChannelResolver -------------------------
(* Channels of short lists over days of four minutes and weeks of two days.   *)
EXTENDS ChannelResolver

MCIds    == {"a", "b", "c"}
MCGroups == {"g", "h"}

Entry(id, length) ==
    [id |-> id, group |-> IF id = "c" THEN {"h"} ELSE {"g"}, duration |-> length]

Limit(repeat, within, separate) == [repeat |-> repeat, within |-> within, separate |-> separate]

Under(e, l) ==
    [id |-> e.id, group |-> e.group, duration |-> e.duration,
     repeat |-> l.repeat, within |-> l.within, separate |-> l.separate]

Off    == Limit(0, 0, 0)
Places == Limit(2, 0, 1)
Time   == Limit(0, 3, 0)

Block(es, l, random) == [entries |-> [k \in DOMAIN es |-> Under(es[k], l)], random |-> random]
ListSlot(es, l, random) == Block(es, l, random) @@ [kind |-> "list"]
Rotation(members, select, random, weight, gap) ==
    [kind |-> "rotation", members |-> members, select |-> select, random |-> random,
     weight |-> weight, gap |-> gap, salt |-> 3]
Gap(positions, duration) == [positions |-> positions, duration |-> duration]

Range_(start, end, slot) == [start |-> start, end |-> end, slot |-> slot]
Schedule(dates, weekdays, hours) == [dates |-> dates, weekdays |-> weekdays, hours |-> hours]
Channel(blocks, slots, schedules, aired, watched, rewound) ==
    [blocks |-> blocks, slots |-> slots, schedules |-> schedules, aired |-> aired, watched |-> watched, rewound |-> rewound]

Pair  == <<Entry("a", 1), Entry("b", 2)>>
Three == <<Entry("a", 1), Entry("b", 1), Entry("c", 2)>>
Units == <<Entry("a", 1), Entry("b", 1)>>

-----------------------------------------------------------------------------
\* Four items of three entries, two of them of one group, in two blocks with limits of
\* their own, after at most two items that aired.
Entries == {Entry("a", 1), Entry("a", 2), Entry("b", 1), Entry("c", 2)}
Limits == {Off, Places, Time}
Limited ==
    {Channel(<<Block(<<es[1], es[2]>>, l, FALSE), Block(<<es[3], es[4]>>, m, FALSE)>>, <<>>, <<>>, aired, 0, 0) :
        es \in [1..4 -> Entries], l \in Limits, m \in Limits,
        aired \in {<<>>, <<Under(Entry("b", 1), Places), Under(Entry("a", 1), Places)>>}}

\* Two lists by the day of the week, one over midnight, with a date above them.
Week ==
    Channel(<<Block(Three, Off, FALSE)>>,
            ("late" :> ListSlot(Pair, Off, FALSE)) @@ ("noon" :> ListSlot(Three, Off, FALSE)),
            <<Schedule({}, {}, <<Range_(1, 2, "noon")>>),
              Schedule({}, {0}, <<Range_(3, 1, "late")>>),
              Schedule({1}, {}, <<Range_(1, 3, "late")>>)>>, <<>>, 6, 2)

\* A list under limits in a slot of its own.  Re-ordered, it leaves the state as it was where a
\* short item of its end aired first, and the checkpoint that stands for several places goes
\* with the first rewind: a second one may repeat what aired.
Bound ==
    Channel(<<Block(Units, Off, FALSE)>>,
            ("prime" :> ListSlot(<<Entry("a", 1), Entry("a", 1), Entry("b", 1), Entry("c", 1)>>, Limit(1, 0, 0), FALSE)),
            <<Schedule({}, {}, <<Range_(1, 4, "prime")>>)>>, <<>>, 6, 1)

\* Shuffled lists under a seed that changes.
Dice ==
    Channel(<<Block(Three, Off, TRUE)>>, ("prime" :> ListSlot(Three, Off, FALSE)),
            <<Schedule({}, {}, <<Range_(2, 4, "prime")>>)>>, <<>>, 6, 2)

Lists == ("x" :> ListSlot(Units, Off, FALSE)) @@ ("y" :> ListSlot(Pair, Off, FALSE)) @@ ("z" :> ListSlot(Units, Off, FALSE))
All == <<"x", "y", "z">>
Even == [m \in {"x", "y", "z", "r", "s"} |-> 1]

\* A rotation three times a day; the last item of a placement may run into the next.
Rotating(rotation) ==
    Channel(<<Block(Units, Off, FALSE)>>, ("r" :> rotation) @@ Lists,
            <<Schedule({}, {}, <<Range_(0, 1, "r"), Range_(1, 2, "r"), Range_(2, 4, "r")>>)>>, <<>>, 6, 1)

\* A rotation of rotations.
Nested ==
    Channel(<<Block(Units, Off, FALSE)>>,
            ("r" :> Rotation(<<"s", "z">>, "round_robin", FALSE, Even, Gap(0, 0)))
                @@ ("s" :> Rotation(<<"x", "y">>, "round_robin", TRUE, Even, Gap(1, 0))) @@ Lists,
            <<Schedule({}, {}, <<Range_(0, 1, "r"), Range_(1, 3, "r")>>)>>, <<>>, 6, 2)

Rotated ==
    {Rotating(Rotation(All, "round_robin", FALSE, Even, Gap(0, 0))),
     Rotating(Rotation(All, "round_robin", TRUE, Even, Gap(2, 0))),
     Rotating(Rotation(All, "random", FALSE, [Even EXCEPT !["x"] = 3], Gap(1, 0))),
     Rotating(Rotation(All, "random", FALSE, Even, Gap(0, 3))),
     Rotating(Rotation(All, "round_robin", TRUE, Even, Gap(0, 4)))}

MCChannels == Limited \cup {Week, Bound, Dice, Nested} \cup Rotated
MCSeeds == <<1, 4, 2>>
MCMix(a, b) == (a * 7 + b * 5 + a * b) % 97
=============================================================================
