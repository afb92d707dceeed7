---------------------------- MODULE ChannelLoop ----------------------------
(***************************************************************************)
(* The emission loop of one channel: `forward_channel_loop` and            *)
(* `pattern_catch_up` of daemon.rs, with the chunk writer of emit.rs and   *)
(* the resume sidecar of resume.rs.  Each pass sweeps the playout folder,  *)
(* heals a hole in it, and lays generations end to end until the window is *)
(* covered; a config edit, a forced refresh or a lost title first wipes    *)
(* the future and rewinds the sidecar and the play history to what is left.*)
(*                                                                         *)
(* Every write to the disk is a step of its own, so a crash may fall       *)
(* between any two; what happens in memory belongs to the step before or   *)
(* after.  `pc` names the next step of the running call.                   *)
(***************************************************************************)
EXTENDS PlayoutFolder

CONSTANTS
    Window,         \* how far ahead of now the schedule must reach, `window_days`
    Retention,      \* how long an aired file is kept, `retention_days`
    RollInterval,   \* between two passes, `roll_interval`
    MaxGenerations, \* MAX_GENERATIONS_PER_TICK
    GenSizes,       \* the items one generation may lay,
    Misjudged,      \* and the airtime by which it may be sized too long
    ListLen,        \* the titles of the channel's list, which repeats forever
    At,             \* At[p]: airtime of the first p titles
    Anchored,       \* whether the channel has an `anchor`,
    Anchor,         \* and when it lies
    Cursor,         \* what says where the list continues: the sidecar's
                    \* "position" (a flat entries list) or the play history's
                    \* "series" cursor (a pool with advance = resume)
    MaxNow,         \* the bound on the clock
    MaxEdits,       \* bounds on what the environment does: config edits,
    MaxRequests,    \* forced refreshes, titles lost from the library,
    MaxLosses,      \* times the daemon goes down, I/O and resolve errors,
    MaxOutages,     \* playout files deleted behind its back
    MaxFaults,
    MaxDamage,
    MayCrash,       \* whether going down may happen in the middle of a pass
    Timely          \* whether passes are due on time and take no time

ASSUME PassAssumption ==
    /\ {Window, RollInterval, MaxGenerations} \subseteq Nat \ {0}
    /\ Retention \in Nat
    /\ GenSizes \subseteq Nat \ {0} /\ Misjudged \in Nat
    /\ Anchor \in Nat
    /\ Cursor \in {"position", "series"}

ASSUME ListAssumption ==
    /\ ListLen \in Nat \ {0}
    /\ At \in [0 .. ListLen -> Nat]
    /\ At[0] = 0
    /\ \A p, q \in 0 .. ListLen : p < q => At[p] < At[q]

ASSUME BoundAssumption ==
    /\ {MaxNow, MaxEdits, MaxRequests, MaxLosses, MaxOutages, MaxFaults, MaxDamage}
            \subseteq Nat
    /\ {MayCrash, Timely, Anchored} \subseteq BOOLEAN

VARIABLES
    now,        \* the clock
    config,     \* the fingerprint of the configuration on disk
    lost,       \* titles gone from the library: a place and its edition
    marker,     \* whether a forced refresh has been asked for
    files,      \* the playout folder
    sidecar,    \* the .resume file
    history,    \* the channel's rows of the play-history ledger
    pc,         \* the next step of the channel's task
    resume,     \* the loop's resume map
    work,       \* the copy of it a catch-up works on
    seen,       \* the configuration the task was started with
    pass,       \* the running pass
    wipe,       \* the running wipe
    gen,        \* the generation being laid
    tickAt,     \* when the roll interval next fires
    spent       \* how often the environment has acted, by kind

disk   == <<files, sidecar, history>>
memory == <<resume, work, seen, pass, wipe, gen, tickAt>>
world  == <<now, config, lost, marker, spent>>
vars   == <<world, disk, memory, pc>>

-----------------------------------------------------------------------------
(* Items, resume maps and passes *)

Kinds      == {"edits", "requests", "outages", "faults", "damage"}
Bound(k)   == CASE k = "edits"    -> MaxEdits
                [] k = "requests" -> MaxRequests
                [] k = "outages"  -> MaxOutages
                [] k = "faults"   -> MaxFaults
                [] k = "damage"   -> MaxDamage

May(k)   == spent[k] < Bound(k)
Spend(k) == spent' = [spent EXCEPT ![k] = @ + 1]

\* No config has been adopted yet: the `config_id` of a fresh sidecar.
NoConfig == 0

\* ResumeMap::new()
EmptyMap == [pos |-> 0, checkpoints |-> {}, config |-> NoConfig]

\* The position a title was lost at plays another title from then on.
Edition        == Cardinality(lost)
Unplayable(i)  == \E l \in lost : l.pos = i.pos /\ i.edition < l.edition

NoWipe == [job |-> "none", cut |-> 0, doomed |-> {}]
NoGen  == [items |-> {}, rows |-> {}, trail |-> {}, cursor |-> 0, to |-> 0, pos |-> 0]
NoPass == [phase |-> "startup", at |-> 0, from |-> 0, generations |-> 0, fresh |-> FALSE]

Target == pass.at + Window

-----------------------------------------------------------------------------
(* The resume map's operations *)

\* The trail of checkpoints is a list; `nth` is the place in it.
LastNth(trail) == Max({0} \cup {c.nth : c \in trail})

\* ResumeMap::checkpoint
Checkpointed(map, start) ==
    [map EXCEPT !.checkpoints =
        @ \cup {[start |-> start, pos |-> map.pos, nth |-> LastNth(@) + 1]}]

\* ResumeMap::rewind_to: back to the latest checkpoint at or before `instant`,
\* dropping it and every later one; unchanged when none is left that early.
\* (RewoundBefore is the mutant that passes over a checkpoint at the instant.)
RewoundBefore(map, instant) ==
    LET early == {c \in map.checkpoints : c.start < instant}
        back  == CHOOSE c \in early : \A d \in early : d.nth <= c.nth
    IN  IF early = {} THEN map
        ELSE [map EXCEPT !.pos = back.pos,
                         !.checkpoints = {c \in @ : c.nth < back.nth}]
Rewound(map, instant) ==
    LET early == {c \in map.checkpoints : c.start <= instant}
        back  == CHOOSE c \in early : \A d \in early : d.nth <= c.nth
    IN  IF early = {} THEN map
        ELSE [map EXCEPT !.pos = back.pos,
                         !.checkpoints = {c \in @ : c.nth < back.nth}]

\* ResumeMap::adopt: take the state after the generation, add its checkpoints
\* to the trail, forget those of what has aired.
\* (AdoptedSeam is the mutant that keeps the generation's own checkpoint only.)
AdoptedSeam(map, pos, trail, at) ==
    [map EXCEPT !.pos = pos, !.checkpoints = {c \in @ : c.start > at}]
Adopted(map, pos, trail, at) ==
    LET before == LastNth(map.checkpoints)
        added  == {[c EXCEPT !.nth = before + @] : c \in trail}
    IN  [map EXCEPT !.pos = pos,
                    !.checkpoints = {c \in @ \cup added : c.start > at}]

-----------------------------------------------------------------------------
(* One generation *)

\* The airtime of the first q items of the endless list, and an item's title.
Airtime(q) == (q \div ListLen) * At[ListLen] + At[q % ListLen]
Title(q)    == q % ListLen

\* Where the list continues.
NextPositions(map) ==
    IF Cursor = "position" THEN {map.pos}
    ELSE LET latest == {r \in history : \A s \in history : s.start <= r.start}
         IN  IF history = {} THEN {0} ELSE {Title(r.pos + 1) : r \in latest}

\* rule::phase_at: the whole items to skip, and how far into the next one the
\* channel would be, had it played the n items from p since the anchor.
PhaseAt(p, n, t) ==
    IF t <= Anchor THEN [skip |-> 0, into |-> 0]
    ELSE LET lapsed(j) == Airtime(p + j) - Airtime(p)
             rest      == (t - Anchor) % lapsed(n)
             k         == Max({0} \cup {j \in 0 .. n - 1 : lapsed(j) <= rest})
         IN  [skip |-> k, into |-> rest - lapsed(k)]

\* The n items from p laid at `from`, and everything the pass derives from them:
\* the items on disk start `phase.into` early and leave out the first
\* `phase.skip`; the ledger rows are a walk over all n from `from` on; one
\* checkpoint is kept per item that starts after `from`, unless the state it
\* would restore is the one before it (a series cursor is not in the map).
Laid(p, n, from, phase) ==
    LET first    == p + phase.skip
        start(q) == from - phase.into + (Airtime(q) - Airtime(first))
        item(q)  == [start |-> start(q), finish |-> start(q + 1), pos |-> Title(q),
                     config |-> seen, edition |-> Edition]
        inner    == {[start |-> start(first + k), pos |-> Title(first + k), nth |-> k] :
                        k \in 1 .. n - 1 - phase.skip}
    IN  [items  |-> {item(q) : q \in first .. p + n - 1},
         rows   |-> {[start |-> from + (Airtime(q) - Airtime(p)), pos |-> Title(q)] :
                        q \in p .. p + n - 1},
         trail  |-> IF Cursor = "position" THEN inner ELSE {},
         cursor |-> from,
         to     |-> start(p + n),
         pos    |-> IF Cursor = "position" THEN Title(p + n) ELSE 0]

-----------------------------------------------------------------------------
(* Startup *)

Init ==
    /\ now = 0 /\ config = 1 /\ lost = {} /\ marker = FALSE
    /\ files = {} /\ sidecar = EmptyMap /\ history = {}
    /\ pc = "down"
    /\ resume = EmptyMap /\ work = EmptyMap /\ seen = NoConfig
    /\ pass = NoPass /\ wipe = NoWipe /\ gen = NoGen
    /\ tickAt = 0
    /\ spent = [k \in Kinds |-> 0]

StartWipe(job, cut) ==
    /\ wipe' = [job |-> job, cut |-> cut, doomed |-> {}]
    /\ pc' = "wipe"

\* A future that was laid under another configuration, or that a marker asks to
\* replace.  (Asked is the mutant that only honours the marker.)
Asked       == marker
StaleFuture == marker \/ (sidecar.config # NoConfig /\ sidecar.config # config)

\* The sidecar is read, the marker consumed, and a stale future thrown away.
Start ==
    /\ pc = "down"
    /\ resume' = sidecar
    /\ seen' = config
    /\ pass' = [NoPass EXCEPT !.phase = "startup", !.at = now]
    /\ marker' = FALSE
    /\ IF StaleFuture THEN StartWipe("refresh", AiringFinish(files, now))
       ELSE pc' = "config" /\ UNCHANGED wipe
    /\ UNCHANGED <<now, config, lost, spent, disk, work, gen, tickAt>>

AdoptConfig ==
    /\ pc = "config"
    /\ resume' = [resume EXCEPT !.config = seen]
    /\ sidecar' = IF resume.config = seen THEN sidecar ELSE resume'
    /\ pc' = "repair"
    /\ UNCHANGED <<world, files, history, work, seen, pass, wipe, gen, tickAt>>

\* A scheduled title that has left the library: rewind to where it starts.
Repair ==
    LET broken == {i \in ItemsOnDisk(files) : i.start > pass.at /\ Unplayable(i)}
    IN  /\ pc = "repair"
        /\ IF broken = {}
           THEN pc' = "sweep" /\ UNCHANGED wipe
           ELSE \E i \in broken :
                  /\ \A j \in broken : i.start <= j.start
                  /\ StartWipe("repair", i.start)
        /\ UNCHANGED <<world, disk, resume, work, seen, pass, gen, tickAt>>

-----------------------------------------------------------------------------
(* A wipe: wipe_playout_from, then rewind_to_surviving *)

RemoveFile ==
    /\ pc = "wipe"
    /\ \E f \in files :
         /\ f.start >= wipe.cut
         /\ \A g \in files : g.start >= wipe.cut => f.start <= g.start
         /\ files' = files \ {f}
    /\ UNCHANGED <<world, sidecar, history, memory, pc>>

\* Everything past the cut is gone; shorten the files that reach across it.
TruncateFile ==
    /\ pc = "wipe"
    /\ \A f \in files : f.start < wipe.cut
    /\ \E f \in Overrunning(files, wipe.cut) :
         IF \A i \in f.items : i.finish > wipe.cut
         THEN files' = files \ {f} /\ UNCHANGED <<wipe, pc>>
         ELSE /\ files' = Put(files, Truncated(f, wipe.cut))
              /\ wipe' = [wipe EXCEPT !.doomed = {f}]
              /\ pc' = "unlink"
    /\ UNCHANGED <<world, sidecar, history, resume, work, seen, pass, gen, tickAt>>

\* The shortened file has a new name; its predecessor goes.
RemoveTruncated ==
    /\ pc = "unlink"
    /\ files' = files \ wipe.doomed
    /\ wipe' = [wipe EXCEPT !.doomed = {}]
    /\ pc' = "wipe"
    /\ UNCHANGED <<world, sidecar, history, resume, work, seen, pass, gen, tickAt>>

WipeDone ==
    /\ \A f \in files : f.start < wipe.cut
    /\ Overrunning(files, wipe.cut) = {}

\* A refresh and a repair rewind the loop's own map, the two wipes inside a
\* catch-up rewind its copy.
OwnMap == wipe.job \in {"refresh", "repair"}

\* surviving_frontier, then rewind_to.  `wipe.cut` becomes the frontier.
Rewind ==
    /\ pc = "rewind" \/ (pc = "wipe" /\ WipeDone)
    /\ \E frontier \in HighestFinishes(files, wipe.cut) :
         /\ wipe' = [wipe EXCEPT !.cut = frontier]
         /\ IF OwnMap
            THEN resume' = Rewound(resume, frontier) /\ UNCHANGED work
            ELSE work' = Rewound(work, frontier) /\ UNCHANGED resume
    /\ pc' = "forget"
    /\ UNCHANGED <<world, disk, seen, pass, gen, tickAt>>

\* HistoryDb::truncate_from.  (KeepHistory is the mutant that drops no row.)
KeepHistory ==
    /\ pc = "forget"
    /\ pc' = "keep"
    /\ UNCHANGED <<world, disk, memory>>

TruncateHistory ==
    /\ pc = "forget"
    /\ history' = {r \in history : r.start < wipe.cut}
    /\ pc' = "keep"
    /\ UNCHANGED <<world, files, sidecar, memory>>

AfterWipe ==
    CASE wipe.job = "refresh" /\ pass.phase = "startup" -> "config"
      [] wipe.job = "refresh" /\ pass.phase = "roll"    -> "sweep"
      [] wipe.job = "repair" -> "sweep"
      [] wipe.job = "sweep"  -> "heal"
      [] wipe.job = "heal"   -> "plan"

SaveRewind ==
    /\ pc = "keep"
    /\ sidecar' = IF OwnMap THEN resume ELSE work
    /\ wipe' = NoWipe
    /\ pc' = AfterWipe
    /\ UNCHANGED <<world, files, history, resume, work, seen, pass, gen, tickAt>>

-----------------------------------------------------------------------------
(* A catch-up *)

\* The window sweep, at both ends.  A file that cannot be removed is left.
Sweep ==
    LET beyond  == Unreachable(files, UnreachableAfter(now + Window))
        aged    == Elapsed(files, now - Retention)
    IN  /\ pc = "sweep"
        /\ work' = resume
        /\ pass' = [pass EXCEPT !.at = now]
        /\ \E stuck \in SUBSET (aged \cup beyond) :
             /\ IF stuck = {} THEN UNCHANGED spent ELSE May("faults") /\ Spend("faults")
             /\ files' = files \ ((aged \cup beyond) \ stuck)
             /\ IF (beyond \ aged) \subseteq stuck
                THEN pc' = "heal" /\ UNCHANGED wipe
                ELSE /\ wipe' = [job |-> "sweep", cut |-> UnreachableAfter(now + Window),
                                 doomed |-> {}]
                     /\ pc' = "rewind"
        /\ UNCHANGED <<now, config, lost, marker, sidecar, history, resume, seen, gen, tickAt>>

Horizon ==
    IF pass.phase = "startup" THEN Target ELSE pass.at + 2 * RollInterval

\* A hole in what the items cover: wipe from the chunk that should hold it.
Heal ==
    LET gaps == FirstCoverageGap(files, pass.at, Horizon)
    IN  /\ pc = "heal"
        /\ IF gaps = {} THEN pc' = "plan" /\ UNCHANGED wipe
           ELSE \E gap \in gaps :
                \E cut \in RegenFloors(files, ChunkStart(gap)) : StartWipe("heal", cut)
        /\ UNCHANGED <<world, disk, resume, work, seen, pass, gen, tickAt>>

\* Pick up where the schedule on disk ends.
Plan ==
    /\ pc = "plan"
    /\ \E from \in HighestFinishes(files, pass.at) :
         pass' = [pass EXCEPT !.from = from, !.generations = 0, !.fresh = (files = {})]
    /\ pc' = "generate"
    /\ UNCHANGED <<world, disk, resume, work, seen, wipe, gen, tickAt>>

\* (LastChunkOpen is the mutant that stops once it is in the last chunk.)
LastChunkOpen == pass.from + ChunkLen > Target \/ pass.generations >= MaxGenerations
Covered == pass.from >= Target \/ pass.generations >= MaxGenerations

\* A generation is sized to what is left of the window: the item that crosses its
\* end is the last one, as far as the lengths are known beforehand and the
\* pattern does not finish a cycle.
Sized(p, n) == Airtime(p + n - 1) - Airtime(p) < Target - pass.from + Misjudged

Generate ==
    /\ pc = "generate" /\ ~Covered
    /\ work' = Checkpointed(work, pass.from)
    /\ \E p \in NextPositions(work), n \in GenSizes :
         /\ Sized(p, n)
         /\ gen' = Laid(p, n, pass.from,
                        IF Anchored /\ pass.fresh /\ pass.generations = 0
                        THEN PhaseAt(p, n, pass.from)
                        ELSE [skip |-> 0, into |-> 0])
    /\ pc' = "write"
    /\ UNCHANGED <<world, disk, resume, seen, pass, wipe, tickAt>>

\* The chunk that holds the cursor, and what the generation has for it.
Chunk      == ChunkStart(gen.cursor)
ChunkItems == ItemsCovering(gen.items, gen.cursor, ChunkEnd(gen.cursor))

\* One round of emit_window: grow the chunk.
WriteChunk ==
    /\ pc = "write"
    /\ \E existing \in ChunkContents(files, Chunk) :
         files' = Put(files, GrownChunk(Chunk, existing, ChunkItems))
    /\ pc' = "tidy"
    /\ UNCHANGED <<world, sidecar, history, memory>>

\* The next chunk, if the generation reaches into it.  (FirstChunkOnly is the
\* mutant that takes one chunk for the whole generation.)
FirstChunkOnly(cursor) == "record"
AfterChunk(cursor)     == IF cursor < gen.to THEN "write" ELSE "record"

\* Drop the chunk's shorter-named predecessor, or fail to, and go on.
DropOthers ==
    LET others == {f \in files : f.start = Chunk /\ f.finish # NameFinish(Chunk, ChunkItems)}
    IN  /\ pc = "tidy"
        /\ \E stuck \in SUBSET others :
             /\ files' = files \ (others \ stuck)
             /\ IF stuck = {} THEN UNCHANGED spent ELSE May("faults") /\ Spend("faults")
        /\ gen' = [gen EXCEPT !.cursor = ChunkEnd(@)]
        /\ pc' = AfterChunk(gen'.cursor)
        /\ UNCHANGED <<now, config, lost, marker, sidecar, history,
                       resume, work, seen, pass, wipe, tickAt>>

RecordAirings ==
    /\ pc = "record"
    /\ history' = history \cup gen.rows
    /\ pc' = "save"
    /\ UNCHANGED <<world, files, sidecar, memory>>

SaveSidecar ==
    /\ pc = "save"
    /\ work' = Adopted(work, gen.pos, gen.trail, pass.at)
    /\ sidecar' = work'
    /\ pass' = [pass EXCEPT !.from = gen.to, !.generations = @ + 1]
    /\ gen' = NoGen
    /\ pc' = "generate"
    /\ UNCHANGED <<world, files, history, resume, seen, wipe, tickAt>>

\* Back in the loop, which takes the copy for its own.
BackInLoop ==
    /\ resume' = work
    /\ work' = EmptyMap
    /\ pass' = [NoPass EXCEPT !.phase = pass.phase, !.at = pass.at]
    /\ tickAt' = IF pass.phase = "startup" THEN now + RollInterval ELSE tickAt
    /\ pc' = "idle"
    /\ UNCHANGED <<now, config, lost, marker, disk, seen, wipe, gen>>

CaughtUp ==
    /\ pc = "generate" /\ Covered
    /\ BackInLoop
    /\ UNCHANGED spent

\* Every title of the generation was dropped as unreadable: nothing to lay, and
\* the pass stops there.
ZeroLength ==
    /\ pc = "generate" /\ ~Covered
    /\ May("faults") /\ Spend("faults")
    /\ BackInLoop

-----------------------------------------------------------------------------
(* Roll ticks, errors, going down *)

\* At the end of time the interval keeps firing.
RollTick ==
    /\ pc = "idle"
    /\ now >= tickAt \/ now = MaxNow
    /\ tickAt' = now + RollInterval
    /\ pass' = [NoPass EXCEPT !.phase = "roll", !.at = now]
    /\ marker' = FALSE
    /\ IF marker THEN StartWipe("refresh", AiringFinish(files, now))
       ELSE pc' = "sweep" /\ UNCHANGED wipe
    /\ UNCHANGED <<now, config, lost, spent, disk, resume, work, seen, gen>>

Fallible == {"config", "repair", "wipe", "unlink", "rewind", "forget", "keep",
             "heal", "plan", "generate", "write", "record", "save"}

\* What a task that is gone leaves in memory.
Forgotten ==
    /\ resume' = EmptyMap /\ work' = EmptyMap /\ seen' = NoConfig
    /\ pass' = NoPass /\ wipe' = NoWipe /\ gen' = NoGen
    /\ tickAt' = 0

\* A step that fails ends the call it is in.  At startup the task ends; in a
\* roll tick a failed refresh leaves the catch-up still to run, and a failed
\* catch-up leaves the loop the map it had before.
Fail ==
    /\ pc \in Fallible
    /\ May("faults") /\ Spend("faults")
    /\ pc' = CASE pass.phase = "startup" -> "down"
               [] pass.phase = "roll" /\ wipe.job = "refresh" -> "sweep"
               [] OTHER -> "idle"
    /\ IF pc' = "down" THEN Forgotten
       ELSE /\ wipe' = NoWipe /\ gen' = NoGen /\ work' = EmptyMap
            /\ UNCHANGED <<resume, seen, pass, tickAt>>
    /\ UNCHANGED <<now, config, lost, marker, disk>>

\* Shutdown is taken between passes, a crash anywhere.
GoDown ==
    /\ pc = "idle" \/ (MayCrash /\ pc # "down")
    /\ May("outages") /\ Spend("outages")
    /\ pc' = "down"
    /\ Forgotten
    /\ UNCHANGED <<now, config, lost, marker, disk>>

-----------------------------------------------------------------------------
(* The world around the task *)

Clock ==
    /\ now < MaxNow
    /\ Timely => pc = "idle" /\ now < tickAt
    /\ now' = now + 1
    /\ UNCHANGED <<config, lost, marker, spent, disk, memory, pc>>

RequestRefresh ==
    /\ ~marker
    /\ May("requests") /\ Spend("requests")
    /\ marker' = TRUE
    /\ UNCHANGED <<now, config, lost, disk, memory, pc>>

EditConfig ==
    /\ May("edits") /\ Spend("edits")
    /\ config' = config + 1
    /\ UNCHANGED <<now, lost, marker, disk, memory, pc>>

LoseTitle ==
    /\ Cardinality(lost) < MaxLosses
    /\ \E i \in ItemsOnDisk(files) :
         /\ i.start > now
         /\ lost' = lost \cup {[pos |-> i.pos, edition |-> Edition + 1]}
    /\ UNCHANGED <<now, config, marker, spent, disk, memory, pc>>

LoseFile ==
    /\ pc \in {"down", "idle"}
    /\ May("damage") /\ Spend("damage")
    /\ \E f \in files : files' = files \ {f}
    /\ UNCHANGED <<now, config, lost, marker, sidecar, history, memory, pc>>

-----------------------------------------------------------------------------

Task ==
    \/ Start \/ AdoptConfig \/ Repair
    \/ RemoveFile \/ TruncateFile \/ RemoveTruncated
    \/ Rewind \/ TruncateHistory \/ SaveRewind
    \/ Sweep \/ Heal \/ Plan \/ Generate
    \/ WriteChunk \/ DropOthers \/ RecordAirings \/ SaveSidecar
    \/ CaughtUp \/ ZeroLength \/ RollTick

Environment ==
    \/ Clock \/ RequestRefresh \/ EditConfig \/ LoseTitle \/ LoseFile

Next == Task \/ Fail \/ GoDown \/ Environment

Spec == Init /\ [][Next]_vars

-----------------------------------------------------------------------------
(* Properties *)

Titles     == 0 .. ListLen - 1
Item       == [start : Int, finish : Int, pos : Titles, config : Nat, edition : Nat]
File       == [start : Int, finish : Int, items : SUBSET Item]
Rows       == [start : Int, pos : Titles]
Trail      == [start : Int, pos : Titles, nth : Nat]
Map        == [pos : Titles, checkpoints : SUBSET Trail, config : Nat]
Jobs       == {"refresh", "repair", "sweep", "heal"}
WipeSteps  == {"wipe", "unlink", "rewind", "forget", "keep"}
WriteSteps == {"write", "tidy", "record", "save"}

Steps      == {"down", "idle", "config", "repair", "sweep", "heal", "plan", "generate"}
              \cup WipeSteps \cup WriteSteps

WorldOK ==
    /\ now \in Nat /\ config \in Nat /\ marker \in BOOLEAN
    /\ lost \subseteq [pos : Titles, edition : Nat]
    /\ spent \in [Kinds -> Nat]

DiskOK == files \subseteq File /\ sidecar \in Map /\ history \subseteq Rows

MemoryOK ==
    /\ resume \in Map /\ work \in Map
    /\ seen \in Nat /\ tickAt \in Nat
    /\ pass \in [phase : {"startup", "roll"}, at : Nat, from : Int,
                 generations : Nat, fresh : BOOLEAN]
    /\ wipe \in [job : Jobs \cup {"none"}, cut : Int, doomed : SUBSET File]
    /\ gen \in [items : SUBSET Item, rows : SUBSET Rows, trail : SUBSET Trail,
                cursor : Int, to : Int, pos : Titles]

TypeOK == WorldOK /\ DiskOK /\ MemoryOK /\ pc \in Steps

Items    == ItemsOnDisk(files)
Resting  == pc = "idle"

\* Everything the schedule on disk reaches is playable: whichever of the files
\* whose name brackets an instant ErsatzTV-next picks, it holds an item for it.
\* This is what the honest names of ADR 0003 are for: a straddling item in both
\* chunks, a name that claims no empty tail, a rename at every cut.
NoBlackAhead ==
    Resting => \A i \in Items : \A t \in now .. i.finish - 1 : Playable(files, t)

\* The item on screen stays playable at every step of every pass: files are
\* written before their predecessors go.
OnScreenPlayable == Spans(Items, now) => Playable(files, now)

\* Both: no pass, cut, repair or heal leaves a black span on screen or ahead.
NeverBlack == NoBlackAhead /\ OnScreenPlayable

\* The play history tells what is on disk: a row for every item, and no row from
\* the first item on disk onward without one.
Row(i) == [start |-> i.start, pos |-> i.pos]
HistoryMatches ==
    Resting =>
        /\ \A i \in Items : Row(i) \in history
        /\ \A r \in history : (\A i \in Items : i.start > r.start) \/ \E i \in Items : r = Row(i)

\* Every item that has not aired can be cut at, also by the next task: the
\* sidecar holds the checkpoint a wipe there rewinds to, with the list position
\* of that item.
CheckpointEverywhere ==
    Resting /\ Cursor = "position" =>
        \A i \in Items : i.start > pass.at =>
            \E c \in sidecar.checkpoints : c.start = i.start /\ c.pos = i.pos

\* Both: after every pass the ledger and the sidecar agree with the files.
BooksMatch == HistoryMatches /\ CheckpointEverywhere

\* Once a task is up, nothing that is still to air is left from
\* a configuration other than the one it runs.
EditReachesScreen ==
    Resting => \A i \in Items : i.start > now => i.config = seen

\* A generation gets to the disk chunk by chunk: what lies behind the cursor is
\* in a file no later step of the generation removes, and when the ledger and the
\* sidecar are written all of it is on disk.
GenerationOnDisk ==
    /\ pc = "write" => \A i \in gen.items : i.finish <= gen.cursor =>
           \E f \in files : i \in f.items /\ f.start < Chunk
    /\ pc = "tidy" => \A i \in gen.items : i.start < ChunkEnd(gen.cursor) =>
           \E f \in files : /\ i \in f.items
                            /\ \/ f.start < Chunk
                               \/ f.start = Chunk /\ f.finish = NameFinish(Chunk, ChunkItems)
    /\ pc \in {"record", "save"} => gen.items \subseteq Items

\* A step that moves the sidecar past a generation finds all of it on disk, so a
\* crash between two writes of a generation never makes the list skip one.
SidecarFollowsDisk ==
    [][sidecar'.pos # sidecar.pos /\ gen # NoGen => gen.items \subseteq Items]_vars

\* ... and the ledger gains no row for an airing that was not written first.
LedgerFollowsDisk ==
    [][\A r \in history' \ history : \E i \in Items : r = Row(i)]_vars

\* A pass that finds a hole in the span it looks at leaves none there.
HealsInOnePass ==
    pc = "generate" /\ Covered => Holes(files, pass.at, Horizon) = {}

\* Whatever fails on the way, in the end every pass leaves the schedule reaching
\* a window ahead, and passes go on.
WindowCovered ==
    /\ []<>Resting
    /\ <>[](Resting => \E i \in Items : i.finish >= pass.at + Window)

=============================================================================
