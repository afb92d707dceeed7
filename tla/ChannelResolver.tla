-------------------------- MODULE ChannelResolver --------------------------
(* What a channel of entries lists airs, generation by generation             *)
(* (resolve_channel_with_resume of resolve.rs).  The calendar names the slot  *)
(* that is on, a rotation draws one of its members for a placement, the list  *)
(* goes on from its position and is cut where the calendar or the seed        *)
(* changes, the adjacency pass orders what is left, and each item is booked   *)
(* with the state a rewind to it restores.                                    *)
(*                                                                            *)
(* Time is in minutes and in the station's zone; a day has DayLen of them and *)
(* a week WeekLen days.  Left out: pattern and sequencer blocks (PatternWalk  *)
(* has the former), queries and filters, estimates of a runtime that the probe*)
(* corrects, files that do not probe, the changes of the clock, config edits. *)
EXTENDS Adjacency

CONSTANTS
    Channels,       \* the channels: records of "blocks", "slots", "schedules", what had "aired"
                    \* before, how long they are "watched" and how often they are "rewound"
    DayLen, WeekLen,
    Seeds, Period,  \* the cycle of a seed, and how long each is in force
    Mix(_, _),      \* mix_seed
    RecentCap,      \* how many draws a rotation remembers at least
    Window          \* how far ahead of the clock a pass lays

VARIABLES
    channel,        \* the channel
    now,
    frontier,       \* how far the schedule is laid
    resume,         \* list positions and rotation draws, as the sidecar has them
    checkpoints,    \* the states to rewind to, oldest first
    ledger,         \* what is on the air and ahead, oldest first
    laying,         \* the generation in flight
    seams,          \* how long the ledger was at each rewind that found no checkpoint
    rewinds

vars == <<pass, channel, now, frontier, resume, checkpoints, ledger, laying, seams, rewinds>>

AnyTime == "any time"

-----------------------------------------------------------------------------
(* The channels that validation lets through (config/validate.rs).            *)

Playlist == Seq(Item) \ {<<>>}
EntryBlock == [entries: Playlist, random: BOOLEAN]
EntrySlot == [entries: Playlist, random: BOOLEAN, kind: {"list"}]
Hours(names) == [start: 0..DayLen, end: 0..DayLen, slot: names]

\* A rotation lists slots, each with a weight above zero, never itself, directly or through others.
ValidRotation(slot, names) ==
    /\ slot.kind = "rotation" /\ slot.select \in {"round_robin", "random"} /\ slot.random \in BOOLEAN
    /\ slot.members \in Seq(names) \ {<<>>} /\ slot.salt \in Nat
    /\ \A m \in ToSet(slot.members) : slot.weight[m] \in Nat \ {0}

ValidRotations(slots) ==
    LET rotations == {s \in DOMAIN slots : slots[s].kind = "rotation"}
    IN  \E height \in [rotations -> 1..Cardinality(rotations)] :
            \A s \in rotations : \A m \in ToSet(slots[s].members) \cap rotations : height[m] < height[s]

Valid(c) ==
    /\ c.blocks \in Seq(EntryBlock) \ {<<>>}
    /\ IsFiniteSet(DOMAIN c.slots) /\ AnyTime \notin DOMAIN c.slots
    /\ \A s \in DOMAIN c.slots : c.slots[s] \in EntrySlot \/ ValidRotation(c.slots[s], DOMAIN c.slots)
    /\ ValidRotations(c.slots)
    /\ c.schedules \in Seq([dates: SUBSET Nat, weekdays: SUBSET (0..(WeekLen - 1)), hours: Seq(Hours(DOMAIN c.slots))])
    /\ c.aired \in Seq(Item) /\ c.watched \in Nat /\ c.rewound \in Nat

ASSUME ResolverAssumption ==
    /\ {DayLen, WeekLen, Period, Window} \subseteq Nat \ {0} /\ RecentCap \in Nat
    /\ Seeds \in Seq(Nat) \ {<<>>}
    /\ \A c \in Channels : Valid(c)

Slots == DOMAIN channel.slots
IsRotation(s) == s \in Slots /\ channel.slots[s].kind = "rotation"
Rotations == {s \in Slots : IsRotation(s)}

-----------------------------------------------------------------------------
(* The calendar (schedule.rs, calendar.rs).                                   *)

\* A dated schedule outranks a weekday one, which outranks one with neither.
Rank(schedule) ==
    IF schedule.dates # {} THEN 2 ELSE IF schedule.weekdays # {} THEN 1 ELSE 0

MatchesDay(schedule, day) ==
    /\ schedule.dates = {} \/ day \in schedule.dates
    /\ schedule.weekdays = {} \/ (day % WeekLen) \in schedule.weekdays

\* Mutant of StartDays: what is left of the night belongs to the day it is on.
StartDaysOfToday(schedule, range, t) ==
    LET day == t \div DayLen
        minute == t % DayLen
        inside == IF range.end < range.start THEN minute >= range.start \/ minute < range.end
                                             ELSE minute >= range.start /\ minute < range.end
    IN  IF MatchesDay(schedule, day) /\ inside THEN {day} ELSE {}

\* The day on which the range that covers t began, if one does: what a range that wraps past
\* midnight leaves of the night belongs to the day before (hit_at).
StartDays(schedule, range, t) ==
    LET day == t \div DayLen
        minute == t % DayLen
        Today(on) == IF on /\ MatchesDay(schedule, day) THEN {day} ELSE {}
        Yesterday(on) == IF on /\ MatchesDay(schedule, day - 1) THEN {day - 1} ELSE {}
    IN  IF range.end < range.start
        THEN Today(minute >= range.start) \cup Yesterday(minute < range.end)
        ELSE Today(minute >= range.start /\ minute < range.end)

Hits(t) ==
    {h \in UNION {{k} \X DOMAIN channel.schedules[k].hours : k \in DOMAIN channel.schedules} :
        StartDays(channel.schedules[h[1]], channel.schedules[h[1]].hours[h[2]], t) # {}}

\* Higher schedules first, then those written first, then earlier ranges.
Above(g, h) ==
    LET G == Rank(channel.schedules[g[1]])
        H == Rank(channel.schedules[h[1]])
    IN  G > H \/ (G = H /\ (g[1] < h[1] \/ (g[1] = h[1] /\ g[2] <= h[2])))

\* The slot on the air at t, and for a rotation when its placement began.
OnAir(t) ==
    IF Hits(t) = {} THEN [slot |-> AnyTime, placement |-> {}]
    ELSE LET h == CHOOSE h \in Hits(t) : \A g \in Hits(t) : Above(h, g)
             schedule == channel.schedules[h[1]]
             range == schedule.hours[h[2]]
         IN  [slot      |-> range.slot,
              placement |-> IF IsRotation(range.slot)
                            THEN {day * DayLen + range.start : day \in StartDays(schedule, range, t)}
                            ELSE {}]

\* Mutant of Changes: two placements of a rotation are no change.
ChangesOfSlot(from, until) == {t \in (from + 1)..(until - 1) : OnAir(t).slot # OnAir(from).slot}

Changes(from, until) == {t \in (from + 1)..(until - 1) : OnAir(t) # OnAir(from)}

-----------------------------------------------------------------------------
(* Seeds (variety.rs) and what they shuffle.                                  *)

SeedAt(t) == Seeds[((t \div Period) % Len(Seeds)) + 1]
NextRollover(t) == ((t \div Period) + 1) * Period

\* From the last place down, each with one at or before it.
Shuffled(list, seed) ==
    LET n == Len(list)
        after[k \in 0..n] ==
            IF k = 0 THEN list
            ELSE Swap(after[k - 1], n - k + 1, (Mix(seed, n - k) % (n - k + 1)) + 1)
    IN  after[n]

Arranged(block, seed) == IF block.random THEN Shuffled(block.entries, seed) ELSE block.entries

\* A block that is shuffled in one pass, on the air or not; a rotation counts as one
\* (lays_seeded_list).
LaysSeededList ==
    \/ \E k \in DOMAIN channel.blocks : channel.blocks[k].random
    \/ \E s \in Slots : channel.slots[s].random

\* The any-time list is every block in a row, a slot's list is its own.
List(slot, seed) ==
    IF slot = AnyTime
    THEN LET upto[k \in 0..Len(channel.blocks)] ==
                 IF k = 0 THEN <<>> ELSE upto[k - 1] \o Arranged(channel.blocks[k], seed)
         IN  upto[Len(channel.blocks)]
    ELSE Arranged(channel.slots[slot], seed)

-----------------------------------------------------------------------------
(* Rotations (rotation.rs).  The state of one is its last draws, the members  *)
(* drawn in this pass, and the number of the pass.                            *)

\* Mutant of IsEligible: the gap is one placement short.
IsEligibleOneShort(recent, gap, m, at) ==
    /\ \A k \in DOMAIN recent : k > Len(recent) - gap.positions + 1 => recent[k].member # m
    /\ \A k \in DOMAIN recent : recent[k].member = m => at < recent[k].at \/ at - recent[k].at >= gap.duration

IsEligible(recent, gap, m, at) ==
    /\ \A k \in DOMAIN recent : k > Len(recent) - gap.positions => recent[k].member # m
    /\ \A k \in DOMAIN recent : recent[k].member = m => at < recent[k].at \/ at - recent[k].at >= gap.duration

\* The place of the last draw of m, or 0.
LastDraw(recent, m) == Max({0} \cup {k \in DOMAIN recent : recent[k].member = m})

\* The first of a set of members, as they are visited.
FirstOf(visits, members) == visits[Min({i \in DOMAIN visits : visits[i] \in members})]

\* The member drawn longest ago, of those that tie the first.
LeastRecent(recent, visits, members) ==
    LET Age(m) == LastDraw(recent, m)
    IN  FirstOf(visits, {m \in members : \A other \in members : Age(m) <= Age(other)})

FirstOrLeast(fitting, recent, visits, members) ==
    IF fitting # {} THEN FirstOf(visits, fitting) ELSE LeastRecent(recent, visits, members)

\* Mutant of RoundRobin: a new pass goes by the members of the last one.
RoundRobinAnyMember(rotation, state, at, base) ==
    LET visits == IF rotation.random THEN Shuffled(rotation.members, Mix(base, state.cycle)) ELSE rotation.members
        fitting == {m \in ToSet(visits) : IsEligible(state.recent, rotation.gap, m, at)}
        pick == FirstOrLeast(fitting, state.recent, visits, ToSet(visits))
    IN  [member |-> pick, drawn |-> state.drawn \cup {pick}, cycle |-> state.cycle + 1]

\* Every member once per pass, the first that the gap allows.
RoundRobin(rotation, state, at, base) ==
    LET through == ToSet(rotation.members) \subseteq state.drawn
        cycle == state.cycle + (IF through THEN 1 ELSE 0)
        drawn == IF through THEN {} ELSE state.drawn
        visits == IF rotation.random THEN Shuffled(rotation.members, Mix(base, cycle)) ELSE rotation.members
        remaining == ToSet(visits) \ drawn
        fitting == {m \in remaining : IsEligible(state.recent, rotation.gap, m, at)}
        pick == FirstOrLeast(fitting, state.recent, visits, remaining)
    IN  [member |-> pick, drawn |-> drawn \cup {pick}, cycle |-> cycle]

\* By weight among the members that the gap allows.
ByWeight(rotation, state, at, base) ==
    LET members == rotation.members
        fitting == {i \in DOMAIN members : IsEligible(state.recent, rotation.gap, members[i], at)}
        Weight(some) == SumFunctionOnSet([i \in DOMAIN members |-> rotation.weight[members[i]]], some)
        roll == Mix(base, at) % Weight(fitting)
        pick == IF fitting = {} THEN LeastRecent(state.recent, members, ToSet(members))
                ELSE members[Min({i \in fitting : roll < Weight({j \in fitting : j <= i})})]
    IN  [member |-> pick, drawn |-> state.drawn, cycle |-> state.cycle]

\* The oldest draws go, but none a gap can still reach.
Trimmed(recent, gap, at) ==
    LET surplus == Len(recent) - RecentCap
        beyond == IF gap.duration > 0
                  THEN {k \in 0..surplus : \A j \in 1..k : recent[j].at < at - gap.duration}
                  ELSE 0..(Len(recent) - Max({RecentCap, gap.positions}))
        gone == Max({0} \cup (beyond \cap (0..surplus)))
    IN  SubSeq(recent, gone + 1, Len(recent))

\* Mutant of Drawn: every generation of a placement draws.
AlreadyNever(state, rotation, at) == {}

\* A placement that has drawn keeps its member.
Already(state, rotation, at) ==
    {k \in DOMAIN state.recent : state.recent[k].at = at /\ state.recent[k].member \in ToSet(rotation.members)}

\* A chain of draws, from the slot the schedule placed to the one that airs.
Draw(at, chain) ==
    LET name == chain.slot
        rotation == channel.slots[name]
        state == chain.rotations[name]
        known == Already(state, rotation, at)
        base == Mix(SeedAt(at), rotation.salt)
        drawn == IF rotation.select = "random" THEN ByWeight(rotation, state, at, base)
                                               ELSE RoundRobin(rotation, state, at, base)
        recent == Append(state.recent, [member |-> drawn.member, at |-> at])
        member == IF known # {} THEN state.recent[Min(known)].member ELSE drawn.member
    IN  [slot      |-> member,
         draws     |-> Append(chain.draws, [rotation |-> name, member |-> member]),
         rotations |-> IF known # {} THEN chain.rotations
                       ELSE [chain.rotations EXCEPT
                                ![name] = [recent |-> Trimmed(recent, rotation.gap, at),
                                           drawn  |-> drawn.drawn, cycle |-> drawn.cycle]]]

\* As many draws as it takes to come to a list: no rotation is among its own members.
Drawn(on, rotations) ==
    LET chain[n \in 0..Cardinality(Rotations)] ==
            IF n = 0 THEN [slot |-> on.slot, draws |-> <<>>, rotations |-> rotations]
            ELSE IF IsRotation(chain[n - 1].slot) THEN Draw(Min(on.placement), chain[n - 1])
            ELSE chain[n - 1]
    IN  chain[Cardinality(Rotations)]

-----------------------------------------------------------------------------
(* Where a list is seated and how much of it is laid (cut_entries_window).    *)

Runtime(list, k) == SumFunctionOnSet([i \in DOMAIN list |-> list[i].duration], 1..k)

Seated(list, start) == SubSeq(list, start + 1, Len(list)) \o SubSeq(list, 1, start)

\* As many items as cover the time, the one that crosses its end included.
ItemsCovering(list, fill) == Min({Len(list)} \cup {k \in DOMAIN list : Runtime(list, k) >= fill})

\* How long a generation may run: to the end of the window, the next seed, the next slot.
Fill(from) ==
    LET until == Min({now + Window} \cup (IF LaysSeededList THEN {NextRollover(from)} ELSE {}))
    IN  Min({until} \cup Changes(from, until)) - from

Aired == channel.aired \o [k \in DOMAIN ledger |-> ledger[k].item]

NoGeneration == [slot |-> AnyTime, draws |-> <<>>, placement |-> {}, rotations |-> <<>>, from |-> 0, start |-> 0, total |-> 0]

-----------------------------------------------------------------------------
Init ==
    /\ channel \in Channels
    /\ now = 0 /\ frontier = 0
    /\ resume = [position  |-> 0, slots |-> <<>>,
                 rotations |-> [s \in Rotations |-> [recent |-> <<>>, drawn |-> {}, cycle |-> 0]]]
    /\ checkpoints = <<>> /\ ledger = <<>>
    /\ laying = NoGeneration
    /\ seams = {} /\ rewinds = 0
    /\ IdlePass

\* A generation up to where the pass begins (pattern_catch_up, resolve_channel_with_resume).
Generate ==
    /\ phase = "idle" /\ frontier < now + Window
    /\ LET on == OnAir(frontier)
           drawn == Drawn(on, resume.rotations)
           list == List(drawn.slot, SeedAt(frontier))
           position == IF drawn.slot = AnyTime THEN resume.position
                       ELSE IF drawn.slot \in DOMAIN resume.slots THEN resume.slots[drawn.slot] ELSE 0
           seated == Seated(list, position % Len(list))
       IN  /\ laying' = [slot |-> drawn.slot, draws |-> drawn.draws, placement |-> on.placement,
                         rotations |-> drawn.rotations, from |-> frontier,
                         start |-> position % Len(list), total |-> Len(list)]
           /\ Begin(SubSeq(seated, 1, ItemsCovering(seated, Fill(frontier))), Aired)
    /\ checkpoints' = Append(checkpoints, [start |-> frontier, state |-> resume])
    /\ UNCHANGED <<channel, now, frontier, resume, ledger, seams, rewinds>>

\* Mutant of After: the position of a slot is left where the any-time list has its own.
AfterInPlace(aired) ==
    [resume EXCEPT !.position = (laying.start + aired) % laying.total, !.rotations = laying.rotations]

\* The positions of the slots, with a slot at a new one.
SeatedAt(slot, position) ==
    [s \in DOMAIN resume.slots \cup {slot} |-> IF s = slot THEN position ELSE resume.slots[s]]

\* Mutant of After: a rewind restores the draws of before the generation.
AfterUndrawn(aired) ==
    LET position == (laying.start + aired) % laying.total
    IN  IF laying.slot = AnyTime THEN [resume EXCEPT !.position = position]
        ELSE [resume EXCEPT !.slots = SeatedAt(laying.slot, position)]

\* The state once the first items of the list have aired; what did not air keeps its own
\* (EntriesSeat::position, carry_unaired_state).
After(aired) ==
    LET position == (laying.start + aired) % laying.total
        drawn == [resume EXCEPT !.rotations = laying.rotations]
    IN  IF laying.slot = AnyTime THEN [drawn EXCEPT !.position = position]
        ELSE [drawn EXCEPT !.slots = SeatedAt(laying.slot, position)]

\* Mutant of Entering: as many items as stand before the place.
EnteringByCount(k) == After(k - 1)

\* The state entering place k: past the furthest item before it (progress_per_item).
Entering(k) == After(Max({0} \cup {order[j] : j \in 1..(k - 1)}))

StartOf(k) == laying.from + Runtime([j \in DOMAIN order |-> items[order[j]]], k - 1)

Row(k) == [start |-> StartOf(k), finish |-> StartOf(k + 1), item |-> items[order[k]],
           slot |-> laying.slot, draws |-> laying.draws, placement |-> laying.placement,
           from |-> laying.from, seat |-> laying.start, total |-> laying.total, offset |-> order[k] - 1,
           bound |-> ~IsUnconstrained(Widest(items))]

\* One more state to rewind to, unless the last one says the same (checkpoint_at).
CheckpointAt(trail, start, state) ==
    IF trail # <<>> /\ (Last(trail).start >= start \/ Last(trail).state = state) THEN trail
    ELSE Append(trail, [start |-> start, state |-> state])

\* The states entering the items, behind those there are.
Trail ==
    LET trail[k \in 0..Len(order)] ==
            IF k = 0 THEN checkpoints ELSE CheckpointAt(trail[k - 1], StartOf(k), Entering(k))
    IN  trail[Len(order)]

\* The members of a sequence that are in a set.
Kept(seq, some) ==
    LET kept[n \in 0..Len(seq)] ==
            IF n = 0 THEN <<>> ELSE IF seq[n] \in some THEN Append(kept[n - 1], seq[n]) ELSE kept[n - 1]
    IN  kept[Len(seq)]

\* The generation is written, booked and adopted (pattern_catch_up, adopt).
Adopt ==
    /\ phase = "done"
    /\ ledger' = ledger \o [k \in DOMAIN order |-> Row(k)]
    /\ frontier' = StartOf(Len(order) + 1)
    /\ checkpoints' = Kept(Trail, {c \in ToSet(Trail) : c.start > now})
    /\ resume' = After(Len(order))
    /\ laying' = NoGeneration
    /\ Finish
    /\ UNCHANGED <<channel, now, seams, rewinds>>

\* The last draws go as long as they are for placements from the cut on (forget_rotation_draws_from).
Forgotten(state, cut) ==
    LET kept == SubSeq(state.recent, 1, Max({0} \cup {k \in DOMAIN state.recent : state.recent[k].at < cut}))
        gone == {state.recent[k].member : k \in (Len(kept) + 1)..Len(state.recent)}
    IN  [state EXCEPT !.recent = kept, !.drawn = @ \ gone]

\* A wipe takes everything from the start of an item on, and from the item on the screen
\* at the earliest (rewind_to_surviving).
Rewind ==
    /\ phase = "idle" /\ rewinds < channel.rewound
    /\ rewinds' = rewinds + 1
    /\ \E k \in DOMAIN ledger :
         LET cut == ledger[k].start
             covering == Max({0} \cup {c \in DOMAIN checkpoints : checkpoints[c].start <= cut})
             earlier == {s \in seams : s < k}
         IN  /\ ledger[k].finish > now
             /\ frontier' = cut
             /\ ledger' = SubSeq(ledger, 1, k - 1)
             /\ IF covering > 0
                THEN /\ resume' = checkpoints[covering].state
                     /\ checkpoints' = SubSeq(checkpoints, 1, covering - 1)
                     /\ seams' = earlier
                ELSE /\ resume' = [resume EXCEPT !.rotations = [s \in Rotations |-> Forgotten(@[s], cut)]]
                     /\ seams' = earlier \cup {k - 1}
                     /\ UNCHANGED checkpoints
    /\ UNCHANGED <<pass, channel, now, laying>>

Elapse ==
    /\ phase = "idle" /\ now < channel.watched /\ now < frontier
    /\ now' = now + 1
    /\ UNCHANGED <<pass, channel, frontier, resume, checkpoints, ledger, laying, seams, rewinds>>

\* The adjacency pass, place by place.
Constrained == Reorder /\ UNCHANGED <<channel, now, frontier, resume, checkpoints, ledger, laying, seams, rewinds>>

Next == Generate \/ Constrained \/ Adopt \/ Rewind \/ Elapse

Spec == Init /\ [][Next]_vars

-----------------------------------------------------------------------------
(* Properties.                                                                *)

TypeOK ==
    /\ channel \in Channels
    /\ now \in Nat /\ frontier \in Nat /\ rewinds \in 0..channel.rewound
    /\ resume.position \in Nat /\ DOMAIN resume.slots \subseteq Slots
    /\ \A k \in DOMAIN ledger : ledger[k].item \in Item /\ ledger[k].finish <= frontier
    /\ seams \subseteq 0..Len(ledger)
    /\ Rearranges

Scheduled(row) == IF row.draws = <<>> THEN row.slot ELSE row.draws[1].rotation

\* The ranges whose own day claims the instant t, with the start of that placement.
Claims(t) ==
    {c \in UNION {{[of |-> <<k, i>>, slot |-> channel.schedules[k].hours[i].slot,
                    start |-> day * DayLen + channel.schedules[k].hours[i].start,
                    finish |-> day * DayLen + channel.schedules[k].hours[i].end
                               + (IF channel.schedules[k].hours[i].end < channel.schedules[k].hours[i].start
                                  THEN DayLen ELSE 0)] :
                      i \in DOMAIN channel.schedules[k].hours,
                      day \in {d \in (-1)..(t \div DayLen) : MatchesDay(channel.schedules[k], d)}} :
                  k \in DOMAIN channel.schedules} :
        c.start <= t /\ t < c.finish}

\* Each item starts while its slot is on by the calendar, however late the one before it ended, and
\* in the period of the seed that shuffled its list, wherever the schedule was cut and laid again
\* (next_change, next_rollover, items_covering).  A list with limits is excepted: the pass may
\* move its longest item forward after the list was cut to the time.
SlotsAir ==
    \A k \in DOMAIN ledger : ~ledger[k].bound =>
        LET row == ledger[k]
            claims == Claims(row.start)
        IN  /\ IF claims = {} THEN Scheduled(row) = AnyTime
               ELSE \E c \in claims :
                       /\ c.slot = Scheduled(row) /\ (row.placement = {} \/ row.placement = {c.start})
                       /\ \A d \in claims : Above(c.of, d.of)
            /\ LaysSeededList => SeedAt(row.start) = SeedAt(row.from)

\* Each list goes on behind the furthest item that aired of it, whatever else aired in between
\* and wherever the schedule was cut and laid again; only a rewind that found no checkpoint
\* may skip (carry_unaired_state, progress_per_item, rewind_to).
ListsGoOn ==
    \A i, j \in DOMAIN ledger :
        LET a == ledger[i]
            b == ledger[j]
            Of(slot, from) == {k \in DOMAIN ledger : ledger[k].slot = slot /\ ledger[k].from = from}
            aired == Max({ledger[k].offset : k \in Of(a.slot, a.from)}) + 1
        IN  /\ i < j /\ a.slot = b.slot /\ a.from # b.from
            /\ \A k \in i..j : ledger[k].slot = a.slot => ledger[k].from \in {a.from, b.from}
            /\ seams \cap i..(j - 1) = {}
            => (b.seat - a.seat - aired) % a.total = 0

\* The draws of a rotation, one for each placement that aired.
Turns(r) ==
    LET Has(row) == \E d \in DOMAIN row.draws : row.draws[d].rotation = r
        First(k) == Has(ledger[k]) /\ \A j \in 1..(k - 1) : ledger[j].placement # ledger[k].placement
        Turn(k) == [at |-> Min(ledger[k].placement),
                    member |-> ledger[k].draws[SelectInSeq(ledger[k].draws, LAMBDA d : d.rotation = r)].member]
        firsts == SelectSeq([k \in DOMAIN ledger |-> k], First)
    IN  [n \in DOMAIN firsts |-> Turn(firsts[n])]

\* All that airs in a placement of a rotation is of one member, across generations and rewinds; a
\* round-robin rotation airs every member once before one comes again; and none comes back within
\* the gap while fewer placements than members lie in it (resolve, draw, is_eligible).
RotationsTurn ==
    /\ \A i, j \in DOMAIN ledger :
         ledger[i].placement # {} /\ ledger[i].placement = ledger[j].placement => ledger[i].draws = ledger[j].draws
    /\ \A r \in Rotations :
             LET turns == Turns(r)
                 rotation == channel.slots[r]
                 n == Len(rotation.members)
                 Near(j) == {i \in 1..(j - 1) : j - i <= rotation.gap.positions \/ turns[j].at - turns[i].at < rotation.gap.duration}
             IN  \A i, j \in DOMAIN turns : i < j =>
                     /\ rotation.select = "round_robin" /\ seams = {} /\ (i - 1) \div n = (j - 1) \div n
                        => turns[i].member # turns[j].member
                     /\ Cardinality(Near(j)) < n /\ i \in Near(j) => turns[i].member # turns[j].member
=============================================================================
