---------------------------- MODULE PatternWalk ----------------------------
(* The walk of a pattern block over its pools (pattern.rs), one build after   *)
(* another, with rewinds in between.  A pool is a list of series; a step of   *)
(* the pattern draws from its pool's series in turn or by a roll.  A build    *)
(* starts from the sidecar (whose turn it is, who had theirs this lap, and    *)
(* where the pattern stands) and from the ledger (what each show aired last); *)
(* the channel loop books what a build draws, keeps a checkpoint of the       *)
(* sidecar at every item, and rewinds to one of them when it throws the       *)
(* future away.                                                               *)
(*                                                                            *)
(* Left out: pools a plugin ranks (their frozen lists, refills, take          *)
(* overrides and the rollover of a list), rotate: span, take ranges, a cursor *)
(* shared by channels, separate_by, and a pattern edited between builds.  A   *)
(* build may stop wherever the code may stop one: the airtime it fills and    *)
(* the number of cycles are not counted.  Every item runs for one unit, and   *)
(* one rewind of a behaviour goes back to a state of before its cut.          *)
EXTENDS Constrain

CONSTANTS
    Channels,           \* the channels: records of "pools", "pattern" and "gap" (rule.no_repeat_within)
    Seeds,              \* the seeds of the rolls
    Roll(_, _, _, _),   \* the roll of a seed, a cycle, a step and a nonce (RollKey)
    RandomRerolls,      \* how many rolls a random draw tries (RANDOM_REROLLS)
    MaxAirings,         \* bound: items booked
    MaxCycle            \* bound: cycles walked

VARIABLES
    channel, seed,      \* inputs: which channel, and its seed
    resume,             \* the sidecar: [turn, lap] of every pool, [cycle, step, done] of the walk
    ledger,             \* what is booked, oldest first: records of [id, show, pool]
    checkpoints,        \* records of [at, resume], oldest first
    pools,              \* the pools of the running build
    history,            \* the channel's recent items (ChannelHistory)
    place,              \* where the walk stands: [cycle, step, done]
    visit,              \* the visit being served
    phase,              \* "idle", "walk" or "serve"
    told,               \* the longest programme ever booked
    redone              \* whether a rewind went back to a state of before its cut

inputs == <<channel, seed>>
vars == <<channel, seed, resume, ledger, checkpoints, pools, history, place, visit, phase, told, redone>>

PoolNames == DOMAIN channel.pools
Cfg(p) == channel.pools[p]

\* The walk may stop inside a cycle, and a visit be resumed, when every pool resumes.
AllResume == \A p \in PoolNames : Cfg(p).advance = "resume"

-----------------------------------------------------------------------------
(* Items with their limits.                                                   *)

Played(id) == [id |-> id, group |-> {}, duration |-> 1, repeat |-> 0, within |-> 0, separate |-> 0]
Limited(id, gap) == [Played(id) EXCEPT !.repeat = gap]
OfPool(p, id) == Limited(id, Cfg(p).gap)

\* The part of a history an item of this gap can still conflict with.
Trim(recent, gap) ==
    LET n == HistoryNeeded(recent, Reach(Limited("", gap)))
    IN  SubSeq(recent, Len(recent) - n + 1, Len(recent))

\* What the ledger tells a build of the airings before it, for a pool and for the channel.
Ids(rows) == [k \in DOMAIN rows |-> Played(rows[k].id)]

\* Mutant of Seam: a build starts with a pool that drew nothing yet.
SeamForgotten(p, rows) == <<>>

Seam(p, rows) ==
    LET own == UNION {ToSet(Cfg(p).series[s].ids) : s \in DOMAIN Cfg(p).series}
    IN  Ids(SelectSeq(rows, LAMBDA row : row.id \in own))

\* The series a show aired last, and where a series that holds that item continues.
LastOf(show, rows) == SelectLastInSeq(rows, LAMBDA row : row.show = show)

-----------------------------------------------------------------------------
(* Series.                                                                    *)

\* The item to play next is number "to"; past the last one the series is finished and starts over.
AdvanceTo(series, to) ==
    [series EXCEPT !.finished = to > Len(series.ids),
                   !.cursor = IF to > Len(series.ids) THEN 1 ELSE to]

Remaining(series) == Len(series.ids) - series.cursor + 1

\* The order of a pool's items after what aired, when the pool has a gap (constrain_pool).
Arranged(p, seam, ids) ==
    LET items == [k \in DOMAIN ids |-> OfPool(p, ids[k])]
        greedy == FoldLeft(LAMBDA order, k :
                              Append(order, PickOf(seam, items, order, (DOMAIN items) \ ToSet(order))),
                           <<>>, ids)
        Better(order) == Improvements(seam, items, order, ViolationCount(seam, items, order))
        repaired == FoldLeft(LAMBDA order, k :
                                IF Better(order) = {} THEN order
                                ELSE LET s == FirstSwap(Better(order)) IN Swap(order, s[1], s[2]),
                             greedy, ids)
    IN  IF Cfg(p).gap = 0 THEN ids ELSE [k \in DOMAIN ids |-> ids[repaired[k]]]

\* The items of a pool, in the order its source gives them, sorted back into series: a series
\* stands where its first item does.
SeriesOf(p, ids) ==
    LET Owner(id) == CHOOSE s \in DOMAIN Cfg(p).series : id \in ToSet(Cfg(p).series[s].ids)
        firsts == SelectSeq(ids, LAMBDA id :
                    \A k \in DOMAIN ids : Owner(ids[k]) = Owner(id) =>
                        SelectInSeq(ids, LAMBDA x : x = id) <= k)
    IN  [n \in DOMAIN firsts |->
            [key      |-> Cfg(p).series[Owner(firsts[n])].key,
             show     |-> Cfg(p).series[Owner(firsts[n])].show,
             ids      |-> SelectSeq(ids, LAMBDA id : Owner(id) = Owner(firsts[n])),
             cursor   |-> 1,
             finished |-> FALSE]]

\* Mutant of Continued: it goes on with what it aired last.
ContinuedAt(series, rows) ==
    LET last == LastOf(series.show, rows)
        pos == IF last = 0 THEN 0 ELSE SelectInSeq(series.ids, LAMBDA id : id = rows[last].id)
    IN  IF pos = 0 THEN series ELSE AdvanceTo(series, pos)

\* A resuming series continues after what its show aired last, if it holds that item.
Continued(series, rows) ==
    LET last == LastOf(series.show, rows)
        pos == IF last = 0 THEN 0 ELSE SelectInSeq(series.ids, LAMBDA id : id = rows[last].id)
    IN  IF pos = 0 THEN series ELSE AdvanceTo(series, pos + 1)

\* A pool as a build finds it (pool_runtime): its series, whose turn it is, what it drew lately
\* and who had a turn this lap.
PoolRuntime(p, rows, saved) ==
    LET seam == Seam(p, rows)
        fresh == SeriesOf(p, Arranged(p, seam, Cfg(p).ids))
        resumes == Cfg(p).advance = "resume"
        series == [s \in DOMAIN fresh |-> IF resumes THEN Continued(fresh[s], rows) ELSE fresh[s]]
        turn == SelectInSeq(series, LAMBDA s : s.key = saved.turn)
    IN  [series |-> series,
         turn   |-> IF resumes /\ turn > 0 THEN turn ELSE 1,
         recent |-> Trim(seam, Cfg(p).gap),
         lap    |-> IF resumes THEN saved.lap ELSE {}]

\* Mutant of PoolResume: the lap is not kept.
ResumeWithoutLap(p) ==
    [turn |-> IF Cfg(p).select = "round_robin" THEN pools[p].series[pools[p].turn].key ELSE "",
     lap  |-> {}]

\* What the sidecar keeps of a pool (to_resume).
PoolResume(p) ==
    [turn |-> IF Cfg(p).select = "round_robin" THEN pools[p].series[pools[p].turn].key ELSE "",
     lap  |-> IF Cfg(p).advance = "resume" THEN pools[p].lap ELSE {}]

\* And of all of them, with the place the next build opens on (pools_resume): it counts for
\* pools that resume only.
ResumeAt(cycle, step, done) ==
    [pools |-> [p \in PoolNames |-> PoolResume(p)],
     place |-> IF \E p \in PoolNames : Cfg(p).advance = "resume"
                 THEN [cycle |-> cycle, step |-> step, done |-> done]
                 ELSE [cycle |-> 0, step |-> 1, done |-> 0]]

-----------------------------------------------------------------------------
(* Which series serves.                                                       *)

SeriesIn(p) == DOMAIN pools[p].series
Next1(p, s) == LET series == pools[p].series[s] IN series.ids[series.cursor]
After(p, s) == (s % Len(pools[p].series)) + 1

\* The first of S from s on, round and round.
FirstFrom(p, s, S) ==
    LET n == Len(pools[p].series)
        d == Min({(k - s + n) % n : k \in S})
    IN  ((s - 1 + d) % n) + 1

OwnAllows(p, s) == ~ConflictsWithRecent(pools[p].recent, OfPool(p, Next1(p, s)))
ChannelAllows(p, s) == ~ConflictsWithRecent(history, Limited(Next1(p, s), channel.gap))

\* Played to its end, a series of more than one item rests until everyone had a turn.
Rested(p, s) ==
    LET series == pools[p].series[s]
    IN  /\ Cfg(p).advance = "resume" /\ Len(series.ids) > 1
        /\ series.finished /\ series.key \in pools[p].lap

Admits(p, s) == ~Rested(p, s) /\ OwnAllows(p, s) /\ ChannelAllows(p, s)

\* Nothing limits a draw: no gap of the pool or the channel, and nobody rests.
Free(p) == Cfg(p).gap = 0 /\ channel.gap = 0 /\ \A s \in SeriesIn(p) : ~Rested(p, s)

\* The first series from s on that may serve.  When none may, the channel's rule gives way,
\* then the rest, then the pool's own: somebody serves.
ScanFrom(p, s) ==
    LET admitted == {k \in SeriesIn(p) : Admits(p, k)}
        awake == {k \in SeriesIn(p) : ~Rested(p, k) /\ OwnAllows(p, k)}
        own == {k \in SeriesIn(p) : OwnAllows(p, k)}
    IN  CASE admitted # {} -> FirstFrom(p, s, admitted)
          [] admitted = {} /\ awake # {} -> FirstFrom(p, s, awake)
          [] admitted = {} /\ awake = {} /\ Cfg(p).gap > 0 /\ own # {} -> FirstFrom(p, s, own)
          [] OTHER -> s

EligibleFrom(p, s) == IF Free(p) THEN s ELSE ScanFrom(p, s)

\* The series a draw opens with: the one whose turn it is, or the one rolled.  A random draw
\* that is turned away rolls again before it moves on to a neighbour.
Rolled(p, nonce) ==
    LET n == Len(pools[p].series)
    IN  (Roll(seed, place.cycle, place.step, nonce) % n) + 1

EligiblePick(p, slot) ==
    LET first == IF Cfg(p).select = "random" THEN Rolled(p, <<slot, 0>>) ELSE pools[p].turn
        rerolls == {k \in 1..RandomRerolls : Admits(p, Rolled(p, <<slot, k>>))}
    IN  CASE Free(p) \/ Admits(p, first) -> first
          [] ~Free(p) /\ ~Admits(p, first) /\ Cfg(p).select = "random" /\ rerolls # {} ->
                Rolled(p, <<slot, Min(rerolls)>>)
          [] OTHER -> ScanFrom(p, first)

-----------------------------------------------------------------------------
Start == [pools |-> [p \in PoolNames |-> [turn |-> "", lap |-> {}]],
          place |-> [cycle |-> 0, step |-> 1, done |-> 0]]

NoVisit == [pool |-> "", slot |-> 0, take |-> 0, at |-> 0, gave |-> <<>>, out |-> <<>>,
            laid |-> <<>>, before |-> Start]

Init ==
    /\ channel \in Channels /\ seed \in Seeds
    /\ resume = Start
    /\ ledger = <<>> /\ told = <<>> /\ checkpoints = <<>>
    /\ pools = <<>> /\ history = <<>> /\ place = Start.place
    /\ visit = NoVisit /\ phase = "idle" /\ redone = FALSE

\* A build takes the sidecar and the ledger as it finds them.
StartBuild ==
    /\ phase = "idle"
    /\ pools' = [p \in PoolNames |-> PoolRuntime(p, ledger, resume.pools[p])]
    /\ history' = Trim(Ids(ledger), channel.gap)
    /\ place' = IF AllResume THEN resume.place ELSE [resume.place EXCEPT !.step = 1, !.done = 0]
    /\ phase' = "walk"
    /\ UNCHANGED <<inputs, resume, ledger, checkpoints, visit, told, redone>>

\* A build may stop before any step when every pool resumes, else between cycles.
EndBuild ==
    /\ phase = "walk" /\ (AllResume \/ place.step = 1) /\ place.done = 0
    /\ resume' = ResumeAt(place.cycle, place.step, 0)
    /\ pools' = <<>> /\ history' = <<>>
    /\ phase' = "idle"
    /\ UNCHANGED <<inputs, ledger, checkpoints, place, visit, told, redone>>

\* The schedule is wiped from some item on: the airings from there on leave the ledger, and the
\* sidecar is what the last checkpoint by then kept.  Inside a visit that cannot be resumed, and
\* where a wipe finds nothing to take away, that is a state of before the cut.
Rewind ==
    /\ phase = "idle" /\ checkpoints # <<>>
    /\ \E cut \in 0..Len(ledger) :
        LET c == SelectLastInSeq(checkpoints, LAMBDA cp : cp.at <= cut)
        IN  /\ c > 0 /\ (checkpoints[c].at = cut \/ ~redone)
            /\ ledger' = SubSeq(ledger, 1, cut)
            /\ resume' = checkpoints[c].resume
            /\ checkpoints' = SubSeq(checkpoints, 1, c - 1)
            /\ redone' = (redone \/ checkpoints[c].at # cut)
    /\ UNCHANGED <<inputs, pools, history, place, visit, phase, told>>

Step == channel.pattern[place.step]
NextPlace ==
    IF place.step = Len(channel.pattern)
      THEN [cycle |-> place.cycle + 1, step |-> 1, done |-> 0]
      ELSE [place EXCEPT !.step = @ + 1, !.done = 0]

\* A step with a chance is left out when its roll says so.
LeftOut == Step.chance /\ Roll(seed, place.cycle, place.step, "chance") % 2 = 0

Skip ==
    /\ phase = "walk" /\ place.cycle < MaxCycle /\ LeftOut
    /\ place' = NextPlace
    /\ UNCHANGED <<inputs, resume, ledger, checkpoints, pools, history, visit, phase, told, redone>>

\* A visit opens: what a rewind to its first item goes back to is noted.
OpenVisit ==
    /\ phase = "walk" /\ place.cycle < MaxCycle /\ Len(ledger) < MaxAirings /\ ~LeftOut
    /\ visit' = [NoVisit EXCEPT
                    !.pool = Step.pool,
                    !.before = IF AllResume \/ place.step = 1
                                 THEN ResumeAt(place.cycle, place.step, place.done)
                                 ELSE ResumeAt(place.cycle + 1, 1, place.done)]
    /\ phase' = "serve"
    /\ UNCHANGED <<inputs, resume, ledger, checkpoints, pools, history, place, told, redone>>

-----------------------------------------------------------------------------
(* A visit: one serving of all it takes, or with rotate: slot one serving of  *)
(* one item for each.                                                         *)

BySlot(p) == Cfg(p).rotate = "slot"
Slots(p) == IF BySlot(p) /\ ~Step.all THEN Step.take ELSE 1

\* How many items a serving wants that opens with series s.
Wanted(p, s) ==
    CASE BySlot(p) -> 1
      [] ~BySlot(p) /\ Step.all -> Remaining(pools[p].series[s])
      [] OTHER -> Max({0, Step.take - place.done})

\* Where "from" seats the cursor of that series.
Seated(series, take) ==
    LET last == Max({1, Len(series.ids) - take + 1})
    IN  CASE Step.from = "start"  -> series.cursor
          [] Step.from = "end"    -> last
          [] Step.from = "random" -> (Roll(seed, place.cycle, place.step, "from") % last) + 1

OpenServing ==
    LET p == visit.pool
        s == EligiblePick(p, visit.slot)
        take == Wanted(p, s)
    IN  /\ phase = "serve"
        /\ visit' = [visit EXCEPT !.at = s, !.take = take, !.out = <<>>,
                                  !.gave = [k \in SeriesIn(p) |-> 0]]
        /\ pools' = [pools EXCEPT ![p].series[s].cursor = Seated(pools[p].series[s], take)]
        /\ phase' = "take"
        /\ UNCHANGED <<inputs, resume, ledger, checkpoints, history, place, told, redone>>

\* The series at hand gives what it has left of what is wanted.
TakeFrom ==
    LET p == visit.pool
        s == visit.at
        series == pools[p].series[s]
        n == Min({visit.take - Len(visit.out), Remaining(series)})
        ids == SubSeq(series.ids, series.cursor, series.cursor + n - 1)
        rows == [k \in 1..n |-> [id |-> ids[k], show |-> series.show, pool |-> p]]
    IN  /\ phase = "take"
        /\ pools' = IF n = 0 THEN pools
                    ELSE [pools EXCEPT ![p].series[s] = AdvanceTo(series, series.cursor + n),
                                       ![p].recent = Trim(@ \o Ids(rows), Cfg(p).gap)]
        /\ history' = Trim(history \o Ids(rows), channel.gap)
        /\ visit' = [visit EXCEPT !.out = @ \o rows, !.gave[s] = @ + n]
        /\ phase' = IF n = 0 \/ Len(visit.out) + n >= visit.take THEN "close" ELSE "pass"
        /\ UNCHANGED <<inputs, resume, ledger, checkpoints, place, told, redone>>

\* The series ran out before the serving was full: the next one that may serve goes on, the
\* same one starts over, or the serving stays short.
PassOn ==
    LET p == visit.pool
        rule == Cfg(p).onShort
    IN  /\ phase = "pass"
        /\ visit' = [visit EXCEPT !.at = IF rule = "next" THEN EligibleFrom(p, After(p, @)) ELSE @]
        /\ phase' = IF rule = "short" THEN "close" ELSE "take"
        /\ UNCHANGED <<inputs, resume, ledger, checkpoints, pools, history, place, told, redone>>

\* Who had a turn this lap, once these had theirs: everyone is no one.
LapAfter(p, keys) ==
    LET lap == pools[p].lap \cup keys
    IN  IF \A s \in SeriesIn(p) : pools[p].series[s].key \in lap THEN {} ELSE lap

\* A serving ends: the series that gave had their turn.  The rotation moves past a series that
\* gave the whole serving or has nothing left, and stays at one that has.
CloseServing ==
    LET p == visit.pool
        s == visit.at
        served == {k \in SeriesIn(p) : visit.gave[k] > 0}
        passes == visit.gave[s] >= visit.take \/ pools[p].series[s].cursor = 1
    IN  /\ phase = "close"
        /\ pools' = [pools EXCEPT
                        ![p].lap = LapAfter(p, {pools[p].series[k].key : k \in served}),
                        ![p].turn = IF served = {} \/ Cfg(p).select = "random" THEN @
                                    ELSE IF passes THEN After(p, s) ELSE s]
        /\ visit' = [visit EXCEPT !.laid = @ \o visit.out, !.slot = @ + 1]
        /\ phase' = IF visit.slot + 1 < Slots(p) THEN "serve" ELSE "book"
        /\ UNCHANGED <<inputs, resume, ledger, checkpoints, history, place, told, redone>>

\* Mutant of Resumable: so can a visit several series served.
ResumableAnyway == AllResume /\ Step.from = "start" /\ ~BySlot(visit.pool)

\* A visit one series served from its start can be resumed after any of its items.
Resumable ==
    /\ AllResume /\ Step.from = "start" /\ ~BySlot(visit.pool)
    /\ Cardinality({s \in SeriesIn(visit.pool) : visit.gave[s] > 0}) = 1

\* The sidecar as it stands if n items of the visit aired and nothing after.
Progress(n) ==
    IF Resumable /\ n > 0 THEN [visit.before EXCEPT !.place.done = place.done + n] ELSE visit.before

\* A checkpoint is not kept twice (checkpoint_at).
Checkpoint(cps, at, state) ==
    IF cps # <<>> /\ (Last(cps).at >= at \/ Last(cps).resume = state)
      THEN cps
      ELSE Append(cps, [at |-> at, resume |-> state])

\* The visit is laid down, with a checkpoint at every item.
Book ==
    /\ phase = "book"
    /\ ledger' = ledger \o visit.laid
    /\ told' = IF Len(ledger') > Len(told) THEN ledger' ELSE told
    /\ checkpoints' = FoldLeft(LAMBDA cps, n : Checkpoint(cps, Len(ledger) + n, Progress(n)),
                               checkpoints, [n \in DOMAIN visit.laid |-> n - 1])
    /\ visit' = NoVisit
    /\ place' = NextPlace
    /\ phase' = "walk"
    /\ UNCHANGED <<inputs, resume, pools, history, redone>>

Next ==
    \/ StartBuild \/ EndBuild \/ Rewind \/ Skip \/ OpenVisit
    \/ OpenServing \/ TakeFrom \/ PassOn \/ CloseServing \/ Book

Spec == Init /\ [][Next]_vars

-----------------------------------------------------------------------------
(* What the walk promises.                                                    *)

\* The ledger and the pools of a build go together, and everything stays within its list.
TypeOK ==
    /\ phase \in {"idle", "walk", "serve", "take", "pass", "close", "book"}
    /\ \A p \in DOMAIN pools :
        /\ pools[p].turn \in SeriesIn(p)
        /\ \A s \in SeriesIn(p) : pools[p].series[s].cursor \in DOMAIN pools[p].series[s].ids
    /\ \A k \in DOMAIN checkpoints : checkpoints[k].at <= Len(ledger)
    /\ Len(told) <= MaxAirings + Len(Cfg(CHOOSE p \in PoolNames : TRUE).ids) * Len(channel.pattern)

\* A rewind loses nothing and repeats nothing: what is booked again after one is what was
\* booked before, at whatever items builds stop, start and rewind (BlockBuild::progress).
\* Not so for pools with a gap, whose list every build orders anew, and for a random visit that is
\* resumed inside: its roll is turned away, or no longer, by what it aired itself (it wrapped and
\* rests, or the channel's gap has moved on).
Reproduces ==
    /\ AllResume /\ ~redone
    /\ \A p \in PoolNames :
        /\ Cfg(p).gap = 0
        /\ Cfg(p).select = "random" => Cfg(p).onShort # "wrap" /\ channel.gap = 0
    => IsPrefix(ledger, told) \/ IsPrefix(told, ledger)

Draws(p) == SelectSeq(ledger, LAMBDA row : row.pool = p)
FromStart(p) == \A k \in DOMAIN channel.pattern : channel.pattern[k].pool = p => channel.pattern[k].from = "start"

\* The episodes of a series air in order, one after another and round again, across builds and
\* rewinds (take_from, pool_runtime).
InSequence ==
    \A p \in PoolNames : Cfg(p).advance = "resume" /\ FromStart(p) =>
        \A s \in DOMAIN Cfg(p).series :
            LET ids == Cfg(p).series[s].ids
                aired == SelectSeq(Draws(p), LAMBDA row : row.id \in ToSet(ids))
            IN  \A k \in DOMAIN aired : aired[k].id = ids[((k - 1) % Len(ids)) + 1]

\* A series that was played through does not come round a third time while another one of its
\* pool waits for its turn (rested).
EveryoneGetsATurn ==
    \A p \in PoolNames :
        ~redone /\ Cfg(p).advance = "resume" /\ FromStart(p) /\ Cfg(p).onShort # "wrap" /\ channel.gap = 0 =>
            \A s, t \in DOMAIN Cfg(p).series :
                LET draws == Draws(p)
                    ids == Cfg(p).series[s].ids
                    Starts == {k \in DOMAIN draws : draws[k].id = ids[1]}
                IN  Len(ids) > 1 /\ s # t =>
                        \A i, j, k \in Starts : i < j /\ j < k =>
                            \E q \in i..k : draws[q].id \in ToSet(Cfg(p).series[t].ids)

\* Within a show and among the shows of a pool, everything comes when it is due, though a turn is kept in
\* the sidecar and a place in the ledger.
TurnsAreTaken == InSequence /\ EveryoneGetsATurn

FilmsOnly(p) == \A s \in DOMAIN Cfg(p).series : Len(Cfg(p).series[s].ids) = 1

\* No film comes back within the gap of its pool, or of the channel, when the pool has more
\* films than the gap: not at a seam between builds, and not after a rewind
\* (eligible_pick, conflicts_with_recent).
FilmsSpaced ==
    \A p \in PoolNames : FilmsOnly(p) =>
        /\ LET draws == Draws(p)
           IN  Len(Cfg(p).ids) > Cfg(p).gap /\ channel.gap = 0 =>
                \A i, j \in DOMAIN draws : i < j /\ j - i <= Cfg(p).gap => draws[i].id # draws[j].id
        /\ Len(Cfg(p).ids) > channel.gap + Cfg(p).gap =>
            \A i, j \in DOMAIN ledger :
                i < j /\ j - i <= channel.gap /\ ledger[j].pool = p => ledger[i].id # ledger[j].id
=============================================================================
