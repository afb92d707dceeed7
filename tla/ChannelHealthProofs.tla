------------------------ MODULE ChannelHealthProofs ------------------------
(***************************************************************************)
(* What the emission loop of a channel shows when nothing breaks: no disk  *)
(* error, no file deleted behind its back, no crash in the middle of a     *)
(* pass, passes on time.  Configuration edits, forced refreshes, lost      *)
(* titles and restarts between passes do happen.  The last part shows that *)
(* the loop implements Timeline.                                           *)
(***************************************************************************)
EXTENDS ChannelTimeline, ChannelLoopProofs

\* The hypotheses.  A generation is sized to the window, however many chunks and
\* items that takes; the second one is about its last item, which may overshoot
\* it, though not past what the next window sweep leaves (scan.rs:107): a file
\* laid beyond is removed by the sweep although the item still plays in those
\* before it, and never laid again.
Healthy == MaxFaults = 0 /\ MaxDamage = 0 /\ ~ MayCrash /\ Timely

ShortOvershoot ==
    \A p \in Nat : Airtime(p + 1) - Airtime(p) + Misjudged <= ChunkLen + 2

-----------------------------------------------------------------------------
(* The inductive invariant *)

\* The files of the current chunk that the write has left behind.
LeftBehind == Others(files, Chunk, NameFinish(Chunk, ChunkItems))

\* Passes are on time; only a refresh and a lost title wipe anything, and a sweep
\* finds nothing to remove at the far end.
OnTime ==
    /\ pc # "rewind" /\ wipe.job \in {"none", "refresh", "repair"}
    /\ pc \notin {"down", "idle"} => pass.at = now
    /\ \A f \in files : f.start < UnreachableAfter(now + Window)
    /\ pc \in {"write", "tidy"} => gen.to <= UnreachableAfter(now + Window)

\* The folder between any two steps.
Settled == {"down", "idle", "config", "repair", "sweep", "heal", "plan", "forget", "keep"}

Kept ==
    /\ pc \in Settled => Sound(files, now)
    /\ pc = "wipe" => CutAt(files, now, wipe.cut)
    /\ pc = "unlink" => /\ OnAir(files, now)
                        /\ \E f \in files : /\ wipe.doomed = {f}
                                            /\ CutAt(files \ {f}, now, wipe.cut)
    /\ pc = "generate" => /\ Filled(files, now, pass.from)
                          /\ pass.fresh /\ pass.generations = 0 => files = {}
    /\ pc = "write" => /\ gen.cursor < gen.to
                       /\ Growing(files, gen.items, now, gen.cursor, gen.to)
    /\ pc = "tidy" => /\ OnAir(files, now)
                      /\ ItemsOnDisk(files \ LeftBehind) = Items
                      /\ Growing(files \ LeftBehind, gen.items, now, ChunkEnd(gen.cursor), gen.to)
    /\ pc \in {"record", "save"} => Filled(files, now, gen.to)

HInv == OnTime /\ Kept

-----------------------------------------------------------------------------
(* One generation *)

\* The items of a generation follow each other without overlap or hole.
LEMMA LaysGaplessly ==
    ASSUME NEW p \in Nat, NEW n \in Nat \ {0}, NEW from \in Int,
           NEW skip \in 0 .. n - 1, NEW into \in Nat,
           into < Airtime(p + skip + 1) - Airtime(p + skip),
           NEW g, g = Laid(p, n, from, [skip |-> skip, into |-> into])
    PROVE  /\ Apart(g.items)
           /\ g.cursor = from /\ from < g.to
           /\ g.to <= from + (Airtime(p + n) - Airtime(p))
           /\ \A t \in Int : from <= t /\ t < g.to => Spans(g.items, t)
           /\ into = 0 => \A i \in g.items : from <= i.start
<1> DEFINE first    == p + skip
           last     == p + n - 1
           start(q) == from - into + (Airtime(q) - Airtime(first))
           item(q)  == [start |-> start(q), finish |-> start(q + 1), pos |-> Title(q),
                        config |-> seen, edition |-> Edition]
<1>1. g.items = {item(q) : q \in first .. last} /\ g.cursor = from /\ g.to = start(p + n)
  BY DEF Laid
<1>2. first \in Nat /\ last \in Nat /\ first <= last /\ p <= first /\ last + 1 = p + n
      /\ first + 1 <= p + n /\ p + n \in Nat /\ first + 1 = p + skip + 1
  OBVIOUS
<1>3. \A q \in Nat : Airtime(q) \in Nat
  BY AirtimeGrows
<1>4. \A q, r \in Nat : q < r => Airtime(q) < Airtime(r)
  BY AirtimeGrows
<1>5. \A q, r \in Nat : q <= r => Airtime(q) <= Airtime(r)
  <2> TAKE q, r \in Nat
  <2>1. CASE q = r
    BY <1>3, <2>1
  <2>2. CASE q < r
    BY <1>3, <1>4, <2>2
  <2> QED BY <2>1, <2>2
<1> HIDE DEF first, last
<1>6. \A q \in Nat : start(q) \in Int
  BY <1>2, <1>3
<1>7. \A q, r \in Nat : q <= r => start(q) <= start(r)
  BY <1>2, <1>3, <1>5
<1>8. start(first) = from - into /\ start(first + 1) > from
  <2>1. start(first) = from - into
    BY <1>2, <1>3
  <2>2. into < Airtime(first + 1) - Airtime(first)
    BY <1>2 DEF first
  <2> QED BY <1>2, <1>3, <2>1, <2>2
<1>9. g.to <= from + (Airtime(p + n) - Airtime(p))
  <2>1. Airtime(p) <= Airtime(first)
    BY <1>2, <1>5
  <2> QED BY <1>1, <1>2, <1>3, <2>1
<1>10. from < g.to
  <2>1. start(first + 1) <= start(p + n)
    BY <1>2, <1>7
  <2>2. start(first + 1) \in Int /\ start(p + n) \in Int
    BY <1>2, <1>6
  <2> HIDE DEF start
  <2> QED BY <1>1, <1>8, <2>1, <2>2
<1>11. \A q \in first .. last : /\ q \in Nat /\ q + 1 \in Nat
                                /\ item(q).start = start(q) /\ item(q).finish = start(q + 1)
  BY <1>2
<1> HIDE DEF start
<1>12. Apart(g.items)
  <2>1. ASSUME NEW q \in first .. last, NEW r \in first .. last, q < r
        PROVE  item(q).finish <= item(r).start
    <3>1. q + 1 <= r /\ q + 1 \in Nat /\ r \in Nat
      BY <1>2, <2>1
    <3> QED BY <1>7, <1>11, <3>1
  <2> HIDE DEF item
  <2>2. \A q, r \in first .. last : q < r \/ q = r \/ r < q
    BY <1>2
  <2> QED BY <1>1, <2>1, <2>2 DEF Apart
<1>13. ASSUME NEW t \in Int, from <= t, t < g.to PROVE Spans(g.items, t)
  <2> DEFINE begun == {q \in first .. last : start(q) <= t}
             q     == Max(begun)
  <2>1. begun \in SUBSET Int /\ IsFiniteSet(begun)
    <3>1. IsFiniteSet(first .. last)
      BY <1>2, FS_Interval
    <3>2. begun \in SUBSET (first .. last)
      OBVIOUS
    <3> HIDE DEF begun
    <3>3. IsFiniteSet(begun)
      BY <3>1, <3>2, FS_Subset
    <3> QED BY <1>2, <3>2, <3>3
  <2>2. first \in begun
    <3>1. start(first) <= t
      BY <1>8, <1>13
    <3>2. first \in first .. last
      BY <1>2
    <3> QED BY <3>1, <3>2
  <2>3. q \in begun /\ \A r \in begun : q >= r
    <3> HIDE DEF begun
    <3> QED BY <2>1, <2>2, MaxExists
  <2>4. q \in first .. last /\ start(q) <= t
    BY <2>3
  <2>5. t < start(q + 1)
    <3>1. CASE q = last
      BY <1>1, <1>2, <1>13, <3>1
    <3>2. CASE q # last
      <4>1. q + 1 \in first .. last /\ q + 1 \in Nat
        BY <1>2, <2>4, <3>2
      <4>2. ~ start(q + 1) <= t
        <5> SUFFICES ASSUME start(q + 1) <= t PROVE FALSE
          OBVIOUS
        <5>1. q + 1 \in begun
          BY <4>1
        <5>2. q >= q + 1
          BY <2>3, <5>1
        <5> HIDE DEF q
        <5> QED BY <1>2, <2>4, <5>2
      <4>3. start(q + 1) \in Int
        BY <1>6, <4>1
      <4> QED BY <4>2, <4>3
    <3> QED BY <3>1, <3>2
  <2> HIDE DEF q
  <2>6. item(q) \in g.items /\ item(q).start <= t /\ t < item(q).finish
    <3>1. item(q).start = start(q) /\ item(q).finish = start(q + 1)
      BY <1>11, <2>4
    <3>2. item(q) \in g.items
      BY <1>1, <2>4
    <3> QED BY <2>4, <2>5, <3>1, <3>2
  <2> HIDE DEF item
  <2> QED BY <2>6 DEF Spans
<1>14. ASSUME into = 0, NEW i \in g.items PROVE from <= i.start
  <2>1. PICK q \in first .. last : i = item(q)
    BY <1>1, <1>14
  <2>2. i.start = start(q) /\ q \in Nat /\ first <= q
    BY <1>2, <1>11, <2>1
  <2>3. start(first) <= start(q) /\ start(first) = from
    BY <1>2, <1>7, <1>8, <1>14, <2>2
  <2> QED BY <2>2, <2>3
<1> QED BY <1>1, <1>9, <1>10, <1>12, <1>13, <1>14

\* The far end of the window moves with the clock.
LEMMA ReachGrows ==
    ASSUME NEW t \in Int, NEW u \in Int, t <= u
    PROVE  /\ UnreachableAfter(t) \in Int /\ UnreachableAfter(t) <= UnreachableAfter(u)
           /\ t + ChunkLen + 1 <= UnreachableAfter(t)
<1>1. /\ ChunkStart(t) \in Int /\ t < ChunkStart(t) + ChunkLen /\ ChunkStart(t) <= t
      /\ ChunkStart(u) \in Int /\ u < ChunkStart(u) + ChunkLen /\ ChunkStart(u) <= u
      /\ ChunkStart(ChunkStart(t)) = ChunkStart(t) /\ ChunkStart(ChunkStart(u)) = ChunkStart(u)
      /\ ChunkLen \in Nat
  BY ChunkGrid, OnlyChunk, ChunkLenAssumption DEF ChunkEnd
<1>2. ~ ChunkStart(u) < ChunkStart(t)
  <2> SUFFICES ASSUME ChunkStart(u) < ChunkStart(t) PROVE FALSE
    OBVIOUS
  <2>1. ChunkStart(u) + ChunkLen <= ChunkStart(t)
    BY <1>1, BoundariesApart
  <2> QED BY <1>1, <2>1
<1>3. 2 * ChunkLen = ChunkLen + ChunkLen /\ ChunkLen + ChunkLen \in Nat
  BY <1>1
<1> QED BY <1>1, <1>2, <1>3 DEF UnreachableAfter


-----------------------------------------------------------------------------
(* Every step keeps it *)

LEMMA TimedNow == ASSUME IInv PROVE TimedFolder(files) /\ TimedItems(gen.items) /\ now \in Nat
BY FolderIsTimed DEF IInv, TypeOK, WorldOK

LEMMA TimedThen == ASSUME IInv' PROVE TimedFolder(files') /\ now' \in Nat
BY DEF IInv, TypeOK, WorldOK, DiskOK, Finite, TimedFolder, TimedItems, Timed, File, Item

\* Nothing goes wrong where nothing is allowed to.
LEMMA NoFault == ASSUME Healthy, IInv PROVE ~ May("faults") /\ ~ May("damage")
<1>1. spent["faults"] \in Nat /\ spent["damage"] \in Nat
  BY DEF IInv, TypeOK, WorldOK, Kinds
<1>2. Bound("faults") = 0 /\ Bound("damage") = 0
  BY DEF Bound, Healthy
<1> QED BY <1>1, <1>2 DEF May

\* A step that leaves the folder and the clock alone, from one resting place of
\* the loop to another.
LEMMA RestsOn ==
    ASSUME HInv, UNCHANGED <<files, now>>, pc \in Settled, pc' \in Settled,
           wipe'.job \in {"none", "refresh", "repair"},
           pc' \notin {"down", "idle"} => pass'.at = now
    PROVE  HInv'
BY DEF HInv, OnTime, Kept, Settled

\* ... and one that leaves all of the task alone.
LEMMA WorldKeeps ==
    ASSUME HInv, UNCHANGED <<now, disk, memory, pc>>
    PROVE  HInv'
BY DEF HInv, OnTime, Kept, Settled, LeftBehind, Chunk, ChunkItems, Items, disk, memory

\* A refresh cuts behind the item on screen.
LEMMA RefreshKeeps ==
    ASSUME IInv, HInv, UNCHANGED <<files, now>>, pc \in Settled, pass'.at = now,
           StartWipe("refresh", AiringFinish(files, now))
    PROVE  HInv'
<1>1. CutAt(files, now, AiringFinish(files, now))
  BY TimedNow, CutsBehindScreen DEF HInv, Kept
<1> QED BY <1>1 DEF HInv, OnTime, Kept, Settled, StartWipe

LEMMA StartKeeps == ASSUME IInv, HInv, Start PROVE HInv'
<1>1. pc \in Settled /\ pass'.at = now /\ UNCHANGED <<files, now>>
  BY DEF Start, Settled, NoPass, disk
<1>2. CASE StaleFuture
  BY <1>1, <1>2, RefreshKeeps DEF Start
<1>3. CASE ~ StaleFuture
  BY <1>1, <1>3, RestsOn DEF Start, Settled, HInv, OnTime
<1> QED BY <1>2, <1>3

LEMMA AdoptConfigKeeps == ASSUME HInv, AdoptConfig PROVE HInv'
BY RestsOn DEF AdoptConfig, Settled, HInv, OnTime, world

LEMMA RepairKeeps == ASSUME IInv, HInv, Repair PROVE HInv'
<1>1. pc = "repair" /\ pass.at = now /\ pass' = pass /\ UNCHANGED <<files, now>>
  BY DEF Repair, HInv, OnTime, disk, world
<1>2. CASE pc' = "sweep" /\ wipe' = wipe
  BY <1>1, <1>2, RestsOn DEF Settled, HInv, OnTime
<1>3. ASSUME NEW i \in ItemsOnDisk(files), i.start > now, StartWipe("repair", i.start)
      PROVE  HInv'
  <2>1. CutAt(files, now, i.start)
    BY <1>1, <1>3, TimedNow, CutsBefore DEF HInv, Kept, Settled
  <2> QED BY <1>1, <1>3, <2>1 DEF HInv, OnTime, Kept, Settled, StartWipe
<1> QED BY <1>1, <1>2, <1>3 DEF Repair

LEMMA RemoveFileKeeps == ASSUME IInv, HInv, RemoveFile PROVE HInv'
<1>1. pc = "wipe" /\ pc' = pc /\ UNCHANGED <<now, wipe, pass>>
  BY DEF RemoveFile, world, memory
<1>2. PICK f \in files : f.start >= wipe.cut /\ files' = files \ {f}
  BY DEF RemoveFile
<1>3. wipe.cut \in Int
  BY DEF IInv, TypeOK, MemoryOK
<1>4. CutAt(files', now, wipe.cut)
  BY <1>1, <1>2, <1>3, TimedNow, CutWithout DEF HInv, Kept
<1> QED BY <1>1, <1>2, <1>4 DEF HInv, OnTime, Kept, Settled

LEMMA TruncateFileKeeps == ASSUME IInv, HInv, TruncateFile PROVE HInv'
<1>1. pc = "wipe" /\ UNCHANGED <<now, pass>>
  BY DEF TruncateFile, world
<1>2. PICK f \in Overrunning(files, wipe.cut) :
        IF \A i \in f.items : i.finish > wipe.cut
        THEN files' = files \ {f} /\ UNCHANGED <<wipe, pc>>
        ELSE /\ files' = Put(files, Truncated(f, wipe.cut))
             /\ wipe' = [wipe EXCEPT !.doomed = {f}]
             /\ pc' = "unlink"
  BY DEF TruncateFile
<1>3. wipe.cut \in Int /\ f \in files /\ CutAt(files, now, wipe.cut)
  BY <1>1 DEF IInv, TypeOK, MemoryOK, HInv, Kept, Overrunning
<1>4. CASE \A i \in f.items : i.finish > wipe.cut
  <2>1. CutAt(files', now, wipe.cut)
    BY <1>2, <1>3, <1>4, TimedNow, CutWithout
  <2> QED BY <1>1, <1>2, <1>4, <2>1 DEF HInv, OnTime, Kept, Settled
<1>5. CASE ~ \A i \in f.items : i.finish > wipe.cut
  <2>1. PICK i \in f.items : i.finish <= wipe.cut
    <3>1. \A i \in f.items : i.finish \in Int
      BY <1>3, TimedNow DEF TimedFolder, TimedItems, Timed
    <3> QED BY <1>3, <1>5, <3>1
  <2>2. /\ f \in files' /\ CutAt(files' \ {f}, now, wipe.cut) /\ OnAir(files', now)
        /\ \A h \in files' : \E e \in files : h.start = e.start
    <3>1. files' = Put(files, Truncated(f, wipe.cut))
      BY <1>2, <1>5
    <3>2. TimedFolder(files) /\ now \in Int
      BY TimedNow
    <3>3. f \in Overrunning(files, wipe.cut) /\ \E j \in f.items : j.finish <= wipe.cut
      BY <2>1
    <3>4. f \in files' /\ CutAt(files' \ {f}, now, wipe.cut) /\ OnAir(files', now)
      BY <1>3, <3>1, <3>2, <3>3, CutShortens
    <3>5. \A h \in files' : h \in files \/ h.start = f.start
      BY <3>1 DEF Put, Truncated
    <3> QED BY <1>3, <3>4, <3>5
  <2>3. wipe'.doomed = {f} /\ wipe'.cut = wipe.cut /\ wipe'.job = wipe.job
    BY <1>2, <1>5 DEF IInv, TypeOK, MemoryOK
  <2> QED BY <1>1, <1>2, <1>5, <2>2, <2>3 DEF HInv, OnTime, Kept, Settled
<1> QED BY <1>4, <1>5

LEMMA RemoveTruncatedKeeps == ASSUME IInv, HInv, RemoveTruncated PROVE HInv'
<1>1. pc = "unlink" /\ pc' = "wipe" /\ files' = files \ wipe.doomed /\ UNCHANGED <<now, pass>>
  BY DEF RemoveTruncated, world
<1>2. wipe'.cut = wipe.cut /\ wipe'.job = wipe.job
  BY DEF RemoveTruncated, IInv, TypeOK, MemoryOK
<1> QED BY <1>1, <1>2 DEF HInv, OnTime, Kept, Settled

LEMMA RewindKeeps == ASSUME IInv, HInv, Rewind PROVE HInv'
<1>1. pc = "wipe" /\ WipeDone
  BY DEF Rewind, HInv, OnTime
<1>2. pc' = "forget" /\ UNCHANGED <<files, now, pass>> /\ wipe'.job = wipe.job
  BY DEF Rewind, world, disk, IInv, TypeOK, MemoryOK
<1>3. Sound(files, now)
  <2>1. wipe.cut \in Int
    BY DEF IInv, TypeOK, MemoryOK
  <2> QED BY <1>1, <2>1, TimedNow, CutEnds DEF HInv, Kept, WipeDone
<1> QED BY <1>1, <1>2, <1>3 DEF HInv, OnTime, Kept, Settled

LEMMA TruncateHistoryKeeps == ASSUME HInv, TruncateHistory PROVE HInv'
BY RestsOn DEF TruncateHistory, Settled, HInv, OnTime, world, memory

LEMMA SaveRewindKeeps == ASSUME IInv, HInv, SaveRewind PROVE HInv'
<1>1. pc = "keep" /\ pc' = AfterWipe /\ wipe' = NoWipe /\ UNCHANGED <<files, now, pass>>
  BY DEF SaveRewind, world
<1>2. wipe.job \in {"refresh", "repair"} /\ pass.phase \in {"startup", "roll"}
  BY <1>1 DEF HInv, OnTime, IInv, WipeHasJob, WipeSteps, Jobs, TypeOK, MemoryOK
<1>3. pc' \in {"config", "sweep"}
  BY <1>1, <1>2 DEF AfterWipe
<1> QED BY <1>1, <1>3, RestsOn DEF Settled, NoWipe, HInv, OnTime

\* Nothing lies at the far end for the sweep to take, and nothing keeps it from
\* taking what has aged.
LEMMA SweepsElapsed ==
    ASSUME Healthy, IInv, HInv, Sweep
    PROVE  /\ files' = files \ Elapsed(files, now - Retention)
           /\ pc = "sweep" /\ pc' = "heal" /\ UNCHANGED <<now, wipe>>
<1> DEFINE beyond == Unreachable(files, UnreachableAfter(now + Window))
           aged   == Elapsed(files, now - Retention)
<1>1. PICK stuck \in SUBSET (aged \cup beyond) :
        /\ IF stuck = {} THEN UNCHANGED spent ELSE May("faults") /\ Spend("faults")
        /\ files' = files \ ((aged \cup beyond) \ stuck)
        /\ IF (beyond \ aged) \subseteq stuck
           THEN pc' = "heal" /\ UNCHANGED wipe
           ELSE /\ wipe' = [job |-> "sweep", cut |-> UnreachableAfter(now + Window),
                            doomed |-> {}]
                /\ pc' = "rewind"
  BY DEF Sweep
<1>2. stuck = {}
  BY <1>1, NoFault
<1>3. beyond = {}
  <2>1. \A f \in files : f.start < UnreachableAfter(now + Window) /\ f.start \in Int
    BY TimedNow DEF HInv, OnTime, TimedFolder, Timed
  <2>2. UnreachableAfter(now + Window) \in Int
    BY TimedNow, ReachGrows, PassAssumption
  <2> QED BY <2>1, <2>2 DEF Unreachable
<1>4. files' = files \ aged /\ pc' = "heal" /\ wipe' = wipe
  <2> HIDE DEF aged, beyond
  <2> QED BY <1>1, <1>2, <1>3
<1> QED BY <1>4 DEF Sweep

LEMMA SweepKeeps == ASSUME Healthy, IInv, HInv, Sweep PROVE HInv'
<1>1. /\ files' = files \ Elapsed(files, now - Retention)
      /\ pc = "sweep" /\ pc' = "heal" /\ UNCHANGED <<now, wipe>>
  BY SweepsElapsed
<1>2. pass'.at = now
  BY DEF Sweep, IInv, TypeOK, MemoryOK
<1>3. Sound(files', now)
  <2>1. now - Retention \in Int /\ now - Retention <= now
    BY TimedNow, PassAssumption
  <2>2. Sound(files, now)
    BY <1>1 DEF HInv, Kept, Settled
  <2>3. Sound(files \ Elapsed(files, now - Retention), now)
    BY <2>1, <2>2, TimedNow, AgesSoundly
  <2> QED BY <1>1, <2>3
<1> QED BY <1>1, <1>2, <1>3 DEF HInv, OnTime, Kept, Settled

\* Nothing has made a hole, so there is none to heal.
LEMMA HealKeeps == ASSUME IInv, HInv, Heal PROVE HInv'
<1>1. pc = "heal" /\ pass' = pass /\ UNCHANGED <<files, now>> /\ pass.at = now
  BY DEF Heal, world, disk, HInv, OnTime
<1>2. Horizon \in Int
  BY PassAssumption DEF Horizon, Target, IInv, TypeOK, MemoryOK
<1>3. Holes(files, pass.at, Horizon) = {}
  BY <1>1, <1>2, TimedNow, SoundHasNoHoles DEF HInv, Kept, Settled
<1>4. FirstCoverageGap(files, pass.at, Horizon) = {}
  BY <1>3 DEF FirstCoverageGap
<1>5. pc' = "plan" /\ wipe' = wipe
  BY <1>4 DEF Heal
<1> QED BY <1>1, <1>5, RestsOn DEF Settled, HInv, OnTime

LEMMA PlanKeeps == ASSUME IInv, HInv, Plan PROVE HInv'
<1>1. pc = "plan" /\ pc' = "generate" /\ UNCHANGED <<files, now, wipe>> /\ pass.at = now
  BY DEF Plan, world, disk, HInv, OnTime
<1>2. PICK from \in HighestFinishes(files, pass.at) :
        pass' = [pass EXCEPT !.from = from, !.generations = 0, !.fresh = (files = {})]
  BY DEF Plan
<1>3. pass'.from = from /\ pass'.at = pass.at /\ pass'.fresh = (files = {})
  BY <1>2 DEF IInv, TypeOK, MemoryOK
<1>4. Filled(files, now, from)
  BY <1>1, <1>2, TimedNow, SoundIsFilled DEF HInv, Kept, Settled
<1> QED BY <1>1, <1>3, <1>4 DEF HInv, OnTime, Kept, Settled


LEMMA GenerateKeeps ==
    ASSUME ShortOvershoot, IInv, IInv', HInv, Generate
    PROVE  HInv'
<1> DEFINE from == pass.from
           phase(p, n) == IF Anchored /\ pass.fresh /\ pass.generations = 0
                          THEN PhaseAt(p, n, from)
                          ELSE [skip |-> 0, into |-> 0]
<1>1. pc = "generate" /\ pc' = "write" /\ UNCHANGED <<files, now, wipe, pass>> /\ ~ Covered
  BY DEF Generate, world, disk
<1>2. PICK p \in NextPositions(work), n \in GenSizes :
        Sized(p, n) /\ gen' = Laid(p, n, from, phase(p, n))
  BY DEF Generate
<1>3. p \in Nat /\ n \in Nat \ {0} /\ from \in Int /\ n \in GenSizes
  BY <1>2, ContinuesInList, PassAssumption DEF IInv, TypeOK, MemoryOK
<1>4. PICK skip \in 0 .. n - 1, into \in Nat :
        /\ phase(p, n) = [skip |-> skip, into |-> into]
        /\ into < Airtime(p + skip + 1) - Airtime(p + skip)
        /\ into = 0 \/ files = {}
  <2>1. CASE Anchored /\ pass.fresh /\ pass.generations = 0
    <3>1. /\ PhaseAt(p, n, from).skip \in 0 .. n - 1 /\ PhaseAt(p, n, from).into \in Nat
          /\ PhaseAt(p, n, from).into < Airtime(p + PhaseAt(p, n, from).skip + 1)
                                         - Airtime(p + PhaseAt(p, n, from).skip)
      BY <1>3, JoinsInside
    <3>2. PhaseAt(p, n, from) = [skip |-> PhaseAt(p, n, from).skip, into |-> PhaseAt(p, n, from).into]
      BY DEF PhaseAt
    <3>3. files = {}
      BY <1>1, <2>1 DEF HInv, Kept
    <3> QED BY <2>1, <3>1, <3>2, <3>3
  <2>2. CASE ~ (Anchored /\ pass.fresh /\ pass.generations = 0)
    <3>1. 0 \in 0 .. n - 1 /\ p + 0 + 1 = p + 1 /\ p + 0 = p /\ p + 1 \in Nat
      BY <1>3
    <3>2. Airtime(p) \in Nat /\ Airtime(p + 1) \in Nat /\ Airtime(p) < Airtime(p + 1)
      BY <1>3, <3>1, AirtimeGrows
    <3>3. 0 < Airtime(p + 0 + 1) - Airtime(p + 0)
      BY <3>1, <3>2
    <3> QED BY <2>2, <3>1, <3>3
  <2> QED BY <2>1, <2>2
<1>5. gen' = Laid(p, n, from, [skip |-> skip, into |-> into])
  BY <1>2, <1>4
<1> HIDE DEF phase
<1>6. /\ Apart(gen'.items) /\ gen'.cursor = from /\ from < gen'.to
      /\ gen'.to <= from + (Airtime(p + n) - Airtime(p))
      /\ \A t \in Int : from <= t /\ t < gen'.to => Spans(gen'.items, t)
      /\ into = 0 => \A i \in gen'.items : from <= i.start
  <2> HIDE DEF from
  <2>1. /\ p \in Nat /\ n \in Nat \ {0} /\ from \in Int /\ skip \in 0 .. n - 1 /\ into \in Nat
        /\ into < Airtime(p + skip + 1) - Airtime(p + skip)
    BY <1>3, <1>4
  <2>2. \A g : g = Laid(p, n, from, [skip |-> skip, into |-> into]) =>
          /\ Apart(g.items) /\ g.cursor = from /\ from < g.to
          /\ g.to <= from + (Airtime(p + n) - Airtime(p))
          /\ \A t \in Int : from <= t /\ t < g.to => Spans(g.items, t)
          /\ into = 0 => \A i \in g.items : from <= i.start
    BY <2>1, LaysGaplessly
  <2> QED BY <1>5, <2>2
<1>7. /\ TimedItems(gen'.items) /\ gen'.to \in Int /\ \A i \in gen'.items : i.start < i.finish
  BY DEF IInv, TypeOK, MemoryOK, Finite, Laying, TimedItems, Timed, Item
<1>8. Growing(files, gen'.items, now, from, gen'.to)
  <2>1. files = {} \/ \A i \in gen'.items : from <= i.start
    BY <1>4, <1>6
  <2>2. Filled(files, now, from) /\ from <= gen'.to
    BY <1>1, <1>3, <1>6, <1>7 DEF HInv, Kept
  <2> QED BY <1>3, <1>6, <1>7, <2>1, <2>2, TimedNow, GrowsFromEnd
<1>9. gen'.to <= UnreachableAfter(now + Window)
  <2>1. p + n - 1 \in Nat /\ (p + n - 1) + 1 = p + n /\ p + n \in Nat
        /\ p + n - 1 < p + n /\ p < p + n
    BY <1>3
  <2>2. Airtime(p) \in Nat /\ Airtime(p + n) \in Nat /\ Airtime(p + n - 1) \in Nat
    BY <1>3, <2>1, AirtimeGrows
  <2>3. /\ pass.at = now /\ now \in Int /\ Window \in Int
        /\ ChunkLen \in Int /\ Misjudged \in Int
    BY <1>1, TimedNow, PassAssumption, ChunkLenAssumption DEF HInv, OnTime
  <2>4. Airtime(p + n - 1) - Airtime(p) < (now + Window) - pass.from + Misjudged
    BY <1>2, <1>3, <2>2, <2>3 DEF Sized, Target
  <2>5. Airtime(p + n) - Airtime(p + n - 1) + Misjudged <= ChunkLen + 2
    BY <2>1 DEF ShortOvershoot
  <2>6. UnreachableAfter(now + Window) \in Int
        /\ now + Window + ChunkLen + 1 <= UnreachableAfter(now + Window)
    <3>1. now + Window \in Int /\ now + Window <= now + Window
      BY <2>3
    <3> QED BY <3>1, ReachGrows
  <2>7. gen'.to \in Int /\ gen'.to <= from + (Airtime(p + n) - Airtime(p))
    BY <1>6, <1>7
  <2>8. ASSUME NEW first \in Int, NEW last \in Int, NEW end \in Int, NEW target \in Int,
               NEW start \in Int, NEW to \in Int, NEW reach \in Int, NEW length \in Int,
               NEW margin \in Int,
               last - first < target - start + margin, end - last + margin <= length + 2,
               target + length + 1 <= reach, to <= start + (end - first)
        PROVE  to <= reach
    BY <2>8
  <2>9. now + Window \in Int
    BY <2>3
  <2> QED BY <1>3, <2>2, <2>3, <2>4, <2>5, <2>6, <2>7, <2>8, <2>9
<1> QED BY <1>1, <1>6, <1>8, <1>9 DEF HInv, OnTime, Kept, Settled

LEMMA WriteChunkKeeps == ASSUME IInv, IInv', HInv, WriteChunk PROVE HInv'
<1>1. pc = "write" /\ pc' = "tidy" /\ UNCHANGED <<now, wipe, pass, gen>>
  BY DEF WriteChunk, world, memory
<1>2. PICK existing \in ChunkContents(files, Chunk) :
        files' = Put(files, GrownChunk(Chunk, existing, ChunkItems))
  BY DEF WriteChunk
<1>3. gen.cursor \in Int /\ gen.to \in Int /\ gen.cursor < gen.to
      /\ Growing(files, gen.items, now, gen.cursor, gen.to)
  BY <1>1 DEF IInv, TypeOK, MemoryOK, HInv, Kept
<1>4. \A i \in gen.items : i.start < i.finish /\ i.finish <= gen.to
  BY DEF IInv, Laying
<1> DEFINE G == Put(files, GrownChunk(Chunk, existing, ChunkItems))
           R == G \ Others(G, Chunk, NameFinish(Chunk, ChunkItems))
<1>5. /\ OnAir(G, now)
      /\ Growing(R, gen.items, now, ChunkEnd(gen.cursor), gen.to)
      /\ ItemsOnDisk(R) = ItemsOnDisk(G)
      /\ \A f \in G : f \in files \/ f.start = Chunk
  BY <1>2, <1>3, <1>4, TimedNow, GrowsByChunk DEF Chunk, ChunkItems
<1>6. Chunk' = Chunk /\ ChunkItems' = ChunkItems
  BY <1>1 DEF Chunk, ChunkItems
<1>7. files' = G /\ files' \ LeftBehind' = R /\ Items' = ItemsOnDisk(G)
  BY <1>2, <1>6 DEF LeftBehind, Items
<1> HIDE DEF G, R
<1>8. \A f \in files' : f.start < UnreachableAfter(now + Window)
  <2>1. gen.to <= UnreachableAfter(now + Window) /\ UnreachableAfter(now + Window) \in Int
    BY <1>1, TimedNow, ReachGrows, PassAssumption DEF HInv, OnTime
  <2>2. Chunk <= gen.cursor /\ Chunk \in Int
    BY <1>3, ChunkGrid DEF Chunk
  <2>3. Chunk < UnreachableAfter(now + Window)
    BY <1>3, <2>1, <2>2
  <2> QED BY <1>5, <1>7, <2>3 DEF HInv, OnTime
<1> QED BY <1>1, <1>3, <1>5, <1>7, <1>8 DEF HInv, OnTime, Kept, Settled

LEMMA DropOthersKeeps == ASSUME Healthy, IInv, IInv', HInv, DropOthers PROVE HInv'
<1>1. pc = "tidy" /\ pc' \in {"write", "record"} /\ UNCHANGED <<now, wipe, pass>>
  BY DEF DropOthers, AfterChunk
<1>2. files' = files \ LeftBehind
  <2>1. PICK stuck \in SUBSET LeftBehind :
          /\ files' = files \ (LeftBehind \ stuck)
          /\ IF stuck = {} THEN UNCHANGED spent ELSE May("faults") /\ Spend("faults")
    BY DEF DropOthers, LeftBehind, Others
  <2>2. stuck = {}
    BY <2>1, NoFault
  <2> QED BY <2>1, <2>2
<1>3. gen'.cursor = ChunkEnd(gen.cursor) /\ gen'.items = gen.items /\ gen'.to = gen.to
  BY DEF DropOthers, IInv, TypeOK, MemoryOK
<1>4. Growing(files', gen'.items, now, gen'.cursor, gen'.to)
  BY <1>1, <1>2, <1>3 DEF HInv, Kept
<1>5. gen'.cursor \in Int /\ gen'.to \in Int
  BY DEF IInv, TypeOK, MemoryOK
<1>6. OnTime'
  BY <1>1, <1>2, <1>3 DEF HInv, OnTime
<1>7. CASE gen'.cursor < gen'.to
  <2>1. pc' = "write"
    BY <1>3, <1>7 DEF DropOthers, AfterChunk
  <2> QED BY <1>1, <1>4, <1>6, <1>7, <2>1 DEF HInv, Kept, Settled
<1>8. CASE ~ gen'.cursor < gen'.to
  <2>1. pc' = "record"
    BY <1>3, <1>8 DEF DropOthers, AfterChunk
  <2>2. Filled(files', now, gen'.to)
    BY <1>4, <1>5, <1>8, GrownIsFilled
  <2> QED BY <1>1, <1>6, <2>1, <2>2 DEF HInv, Kept, Settled
<1> QED BY <1>7, <1>8

LEMMA RecordAiringsKeeps == ASSUME HInv, RecordAirings PROVE HInv'
BY DEF RecordAirings, HInv, OnTime, Kept, Settled, world, memory

LEMMA SaveSidecarKeeps == ASSUME IInv, HInv, SaveSidecar PROVE HInv'
<1>1. pc = "save" /\ pc' = "generate" /\ UNCHANGED <<files, now, wipe>>
  BY DEF SaveSidecar, world
<1>2. pass'.from = gen.to /\ pass'.generations = pass.generations + 1 /\ pass'.at = pass.at
      /\ pass.generations \in Nat
  BY DEF SaveSidecar, IInv, TypeOK, MemoryOK
<1>3. ~ pass'.generations = 0
  BY <1>2
<1> QED BY <1>1, <1>2, <1>3 DEF HInv, OnTime, Kept, Settled

LEMMA CaughtUpKeeps == ASSUME IInv, HInv, CaughtUp PROVE HInv'
<1>1. pc = "generate" /\ pc' = "idle" /\ UNCHANGED <<files, now, wipe>>
  BY DEF CaughtUp, BackInLoop, disk
<1>2. Sound(files, now)
  <2>1. pass.from \in Int
    BY DEF IInv, TypeOK, MemoryOK
  <2> QED BY <1>1, <2>1, TimedNow, FilledIsSound DEF HInv, Kept
<1> QED BY <1>1, <1>2 DEF HInv, OnTime, Kept, Settled

LEMMA RollTickKeeps == ASSUME IInv, HInv, RollTick PROVE HInv'
<1>1. pc \in Settled /\ pass'.at = now /\ UNCHANGED <<files, now>>
  BY DEF RollTick, Settled, NoPass, disk
<1>2. CASE marker
  BY <1>1, <1>2, RefreshKeeps DEF RollTick
<1>3. CASE ~ marker
  BY <1>1, <1>3, RestsOn DEF RollTick, Settled, HInv, OnTime
<1> QED BY <1>2, <1>3

LEMMA GoDownKeeps == ASSUME Healthy, HInv, GoDown PROVE HInv'
<1>1. pc \in Settled /\ pc' = "down" /\ wipe' = NoWipe /\ UNCHANGED <<files, now>>
  BY DEF GoDown, Healthy, Settled, Forgotten, disk
<1> QED BY <1>1, RestsOn DEF Settled, NoWipe

\* The clock only moves between passes, and what was sound stays so.
LEMMA ClockKeeps == ASSUME Healthy, IInv, HInv, Clock PROVE HInv'
<1>1. pc = "idle" /\ now' = now + 1 /\ UNCHANGED <<files, memory, pc>>
  BY DEF Clock, Healthy, disk
<1>2. Sound(files, now')
  BY <1>1, TimedNow DEF HInv, Kept, Settled, Sound
<1>3. UnreachableAfter(now + Window) <= UnreachableAfter(now' + Window)
      /\ UnreachableAfter(now + Window) \in Int /\ UnreachableAfter(now' + Window) \in Int
  <2>1. now + Window \in Int /\ now' + Window \in Int /\ now + Window <= now' + Window
    BY <1>1, TimedNow, PassAssumption
  <2> QED BY <2>1, ReachGrows
<1>4. \A f \in files : f.start < UnreachableAfter(now' + Window)
  BY <1>3, TimedNow DEF HInv, OnTime, TimedFolder, Timed
<1> QED BY <1>1, <1>2, <1>4 DEF HInv, OnTime, Kept, Settled, memory

LEMMA InitKept == ASSUME Init PROVE HInv
<1>1. files = {} /\ pc = "down" /\ wipe.job = "none"
  BY DEF Init, NoWipe
<1>2. Sound({}, now)
  BY DEF Sound, Tidy, Apart, ItemsOnDisk
<1> QED BY <1>1, <1>2 DEF HInv, OnTime, Kept, Settled

LEMMA StepsKeep ==
    ASSUME Healthy, ShortOvershoot, IInv, HInv, [Next]_vars
    PROVE  HInv'
<1>1. IInv'
  BY StepsWell
<1>2. CASE Task
  <2>1. ~ ZeroLength
    BY NoFault DEF ZeroLength
  <2> QED BY <1>1, <1>2, <2>1, StartKeeps, AdoptConfigKeeps, RepairKeeps, RemoveFileKeeps,
             TruncateFileKeeps, RemoveTruncatedKeeps, RewindKeeps, TruncateHistoryKeeps,
             SaveRewindKeeps, SweepKeeps, HealKeeps, PlanKeeps, GenerateKeeps, WriteChunkKeeps,
             DropOthersKeeps, RecordAiringsKeeps, SaveSidecarKeeps, CaughtUpKeeps, RollTickKeeps
          DEF Task
<1>3. CASE Fail \/ GoDown
  BY <1>3, NoFault, GoDownKeeps DEF Fail
<1>4. CASE Environment
  <2>1. ~ LoseFile
    BY NoFault DEF LoseFile
  <2>2. (RequestRefresh \/ EditConfig \/ LoseTitle) => UNCHANGED <<now, disk, memory, pc>>
    BY DEF RequestRefresh, EditConfig, LoseTitle
  <2> QED BY <1>4, <2>1, <2>2, ClockKeeps, WorldKeeps DEF Environment
<1>5. CASE UNCHANGED vars
  BY <1>5, WorldKeeps DEF vars, world
<1> QED BY <1>2, <1>3, <1>4, <1>5 DEF Next

-----------------------------------------------------------------------------
(* The theorem *)

\* On a healthy disk no pass, cut, repair or sweep leaves a black span on screen or
\* ahead: whichever file ErsatzTV-next picks for an instant the schedule reaches, it
\* holds an item for it (ADR 0003), and the item on screen stays playable at every
\* step of every pass.
THEOREM NeverGoesBlack ==
    ASSUME Healthy, ShortOvershoot
    PROVE  Spec => []NeverBlack
<1>1. Init => IInv /\ HInv
  BY InitWell, InitKept
<1>2. (IInv /\ HInv) /\ [Next]_vars => (IInv /\ HInv)'
  BY StepsWell, StepsKeep
<1>3. ASSUME IInv, HInv PROVE NeverBlack
  <2>1. NoBlackAhead
    <3> SUFFICES ASSUME pc = "idle", NEW i \in Items, NEW t \in now .. i.finish - 1
                 PROVE  Playable(files, t)
      BY DEF NoBlackAhead, Resting
    <3>1. i.finish \in Int
      BY <1>3, TimedNow DEF Items, ItemsOnDisk, TimedFolder, TimedItems, Timed
    <3>2. t \in Int /\ now <= t /\ t < i.finish
      BY <1>3, <3>1, TimedNow
    <3> QED BY <1>3, <3>2, TimedNow, SoundPlays DEF HInv, Kept, Settled, Items
  <2>2. OnScreenPlayable
    <3>1. OnAir(files, now) => OnScreenPlayable
      BY DEF OnAir, OnScreenPlayable, Items
    <3>2. CASE pc \in Settled
      BY <1>3, <3>1, <3>2, TimedNow, SoundPlays DEF HInv, Kept
    <3>3. CASE pc = "wipe"
      <4>1. wipe.cut \in Int
        BY <1>3 DEF IInv, TypeOK, MemoryOK
      <4> QED BY <1>3, <3>1, <3>3, <4>1, TimedNow, CutPlays DEF HInv, Kept
    <3>4. CASE pc \in {"unlink", "tidy"}
      BY <1>3, <3>1, <3>4 DEF HInv, Kept
    <3>5. CASE pc \in {"generate", "record", "save"}
      <4>1. PICK to \in Int : Filled(files, now, to)
        BY <1>3, <3>5 DEF HInv, Kept, IInv, TypeOK, MemoryOK
      <4> QED BY <1>3, <3>1, <4>1, TimedNow, FilledIsSound, SoundPlays
    <3>6. CASE pc = "write"
      <4>1. gen.cursor \in Int /\ gen.to \in Int
        BY <1>3 DEF IInv, TypeOK, MemoryOK
      <4> QED BY <1>3, <3>1, <3>6, <4>1, TimedNow, GrowingPlays DEF HInv, Kept
    <3> QED BY <1>3, <3>2, <3>3, <3>4, <3>5, <3>6
            DEF Settled, HInv, OnTime, IInv, TypeOK, Steps, WipeSteps, WriteSteps
  <2> QED BY <2>1, <2>2 DEF NeverBlack
<1>4. IInv /\ HInv => NeverBlack
  BY <1>3
<1> QED BY <1>1, <1>2, <1>4, PTL DEF Spec


-----------------------------------------------------------------------------
(* Which configuration the schedule was laid under *)

\* A task that starts on another configuration than the one before is throwing the
\* future away.
Replacing == wipe.job = "refresh" /\ pass.phase = "startup"

\* What is still to air was laid under the configuration of the task, or of the last
\* one while none is up; the loop's map and the sidecar say so.
Configured ==
    /\ config # NoConfig /\ (pc # "down" => seen # NoConfig)
    /\ \A i \in Items \cup gen.items : i.config # NoConfig
    /\ pc = "down" => \A i \in Items : i.start > now => i.config = sidecar.config
    /\ pc # "down" /\ ~ Replacing =>
           \A i \in Items \cup gen.items : i.start > now => i.config = seen
    /\ Replacing \/ pc = "config" => resume.config = sidecar.config
    /\ pc \notin {"down", "config"} /\ ~ Replacing => resume.config = seen /\ sidecar.config = seen
    /\ pc \in {"heal", "plan", "generate"} \cup WriteSteps => work.config = seen

\* A refresh keeps what has begun and nothing else.
Refreshing ==
    /\ pc \notin WipeSteps => wipe.job = "none"
    /\ pc \in {"wipe", "unlink"} /\ wipe.job = "refresh" =>
           \A i \in Items : i.finish <= wipe.cut => i.start <= now
    /\ pc \in {"forget", "keep"} /\ wipe.job = "refresh" => \A i \in Items : i.start <= now

CInv == Configured /\ Refreshing

\* The resume map's operations leave the configuration alone.
LEMMA MapsKeepConfig ==
    ASSUME NEW m \in Map, NEW start, NEW instant, NEW pos, NEW trail, NEW at
    PROVE  /\ Checkpointed(m, start).config = m.config
           /\ Rewound(m, instant).config = m.config
           /\ Adopted(m, pos, trail, at).config = m.config
BY DEF Map, Checkpointed, Rewound, Adopted

LEMMA NothingInHand == ASSUME IInv, pc \notin WriteSteps PROVE gen = NoGen /\ gen.items = {}
BY DEF IInv, Laying, NoGen

\* A step that lays nothing: what is on disk was there, and the map and the sidecar
\* still name the same configuration.
LEMMA ConfigStays ==
    ASSUME IInv, IInv', CInv, pc \notin WriteSteps, pc' \notin WriteSteps,
           pc # "down", pc' # "down", pc # "config" \/ Replacing, pc' # "config", Items' \subseteq Items,
           UNCHANGED <<now, config, seen>>, Replacing' = Replacing,
           resume'.config = resume.config, sidecar'.config = sidecar.config,
           pc' \in {"heal", "plan", "generate"} => work'.config = seen
    PROVE  Configured'
<1>1. gen.items = {} /\ gen'.items = {}
  BY NothingInHand DEF IInv, Laying, NoGen
<1> QED BY <1>1 DEF CInv, Configured

LEMMA StartConfigures == ASSUME IInv, IInv', HInv, CInv, Start PROVE CInv'
<1>1. /\ pc = "down" /\ resume' = sidecar /\ seen' = config /\ pass'.phase = "startup"
      /\ UNCHANGED <<now, config, files, sidecar, gen>> /\ Items' = Items
  BY DEF Start, NoPass, disk, Items
<1>2. gen.items = {} /\ gen'.items = {}
  BY <1>1, NothingInHand DEF WriteSteps
<1>3. wipe.job = "none"
  BY <1>1 DEF CInv, Refreshing, WipeSteps
<1>4. CASE StaleFuture
  <2>1. pc' = "wipe" /\ wipe'.job = "refresh" /\ wipe'.cut = AiringFinish(files, now)
    BY <1>4 DEF Start, StartWipe
  <2>2. \A i \in Items : i.finish <= wipe'.cut => i.start <= now
    BY <1>1, <2>1, TimedNow, CutsBehindScreen DEF HInv, Kept, Settled, Items
  <2> QED BY <1>1, <1>2, <2>1, <2>2
          DEF CInv, Configured, Refreshing, Replacing, WipeSteps, WriteSteps
<1>5. CASE ~ StaleFuture
  <2>1. pc' = "config" /\ wipe'.job = "none"
    BY <1>3, <1>5 DEF Start
  <2>2. \A i \in Items : i.start > now => i.config = config
    BY <1>1, <1>5 DEF StaleFuture, CInv, Configured
  <2> QED BY <1>1, <1>2, <2>1, <2>2
          DEF CInv, Configured, Refreshing, Replacing, WipeSteps, WriteSteps
<1> QED BY <1>4, <1>5

LEMMA AdoptConfigConfigures == ASSUME IInv, IInv', CInv, AdoptConfig PROVE CInv'
<1>1. /\ pc = "config" /\ pc' = "repair" /\ UNCHANGED <<now, config, seen, files, gen, wipe>>
      /\ Items' = Items
  BY DEF AdoptConfig, world, Items
<1>2. resume'.config = seen /\ sidecar'.config = seen
  <2>1. resume' = [resume EXCEPT !.config = seen] /\ resume \in Map
    BY DEF AdoptConfig, IInv, TypeOK, MemoryOK
  <2>2. resume'.config = seen
    BY <2>1 DEF Map
  <2>3. sidecar' = IF resume.config = seen THEN sidecar ELSE resume'
    BY DEF AdoptConfig
  <2> QED BY <1>1, <2>2, <2>3 DEF CInv, Configured
<1>3. wipe.job = "none" /\ gen.items = {}
  BY <1>1, NothingInHand DEF CInv, Refreshing, WipeSteps, WriteSteps
<1> QED BY <1>1, <1>2, <1>3 DEF CInv, Configured, Refreshing, Replacing, WipeSteps, WriteSteps

LEMMA RepairConfigures == ASSUME IInv, IInv', CInv, Repair PROVE CInv'
<1>1. /\ pc = "repair" /\ pc' \in {"sweep", "wipe"} /\ Items' = Items
      /\ UNCHANGED <<now, config, seen, files, sidecar, gen, resume, pass>>
      /\ wipe.job = "none" /\ wipe'.job \in {"none", "repair"}
      /\ pc' = "sweep" => wipe' = wipe
  BY DEF Repair, StartWipe, world, disk, Items, CInv, Refreshing, WipeSteps
<1>2. Configured'
  BY <1>1, ConfigStays DEF Replacing, WriteSteps
<1> QED BY <1>1, <1>2 DEF CInv, Refreshing, WipeSteps

\* A wipe takes files and items away.
LEMMA WipeOnlyTakes ==
    ASSUME IInv, HInv, RemoveFile \/ TruncateFile \/ RemoveTruncated
    PROVE  Items' \subseteq Items
<1>1. CASE RemoveFile \/ RemoveTruncated
  <2>1. files' \subseteq files
    BY <1>1 DEF RemoveFile, RemoveTruncated
  <2> QED BY <2>1 DEF Items, ItemsOnDisk
<1>2. CASE TruncateFile
  <2>1. PICK f \in Overrunning(files, wipe.cut) :
          files' = files \ {f} \/ files' = Put(files, Truncated(f, wipe.cut))
    BY <1>2 DEF TruncateFile
  <2>2. f \in files /\ Truncated(f, wipe.cut).items \subseteq f.items
    BY DEF Overrunning, Truncated
  <2>3. \A g \in files' : g \in files \/ g = Truncated(f, wipe.cut)
    BY <2>1 DEF Put
  <2> QED BY <2>2, <2>3 DEF Items, ItemsOnDisk
<1> QED BY <1>1, <1>2

LEMMA WipeConfigures ==
    ASSUME IInv, IInv', HInv, CInv, RemoveFile \/ TruncateFile \/ RemoveTruncated
    PROVE  CInv'
<1>1. Items' \subseteq Items
  BY WipeOnlyTakes
<1>2. /\ pc \in {"wipe", "unlink"} /\ pc' \in {"wipe", "unlink"}
      /\ UNCHANGED <<now, config, seen, sidecar, resume, pass>>
      /\ wipe'.job = wipe.job /\ wipe'.cut = wipe.cut
  BY DEF RemoveFile, TruncateFile, RemoveTruncated, world, memory, IInv, TypeOK, MemoryOK
<1>3. Configured'
  BY <1>1, <1>2, ConfigStays DEF Replacing, WriteSteps
<1> QED BY <1>1, <1>2, <1>3 DEF CInv, Refreshing, WipeSteps

LEMMA RewindConfigures == ASSUME IInv, IInv', HInv, CInv, Rewind PROVE CInv'
<1>1. pc = "wipe" /\ WipeDone /\ wipe.job \in {"refresh", "repair"}
  BY DEF Rewind, HInv, OnTime, IInv, WipeHasJob, WipeSteps, Jobs
<1>2. /\ pc' = "forget" /\ wipe'.job = wipe.job /\ Items' = Items
      /\ UNCHANGED <<now, config, seen, sidecar, pass>>
  BY DEF Rewind, world, disk, IInv, TypeOK, MemoryOK, Items
<1>3. resume'.config = resume.config
  <2>1. PICK frontier \in HighestFinishes(files, wipe.cut) : resume' = Rewound(resume, frontier)
    BY <1>1 DEF Rewind, OwnMap
  <2> QED BY <2>1, MapsKeepConfig DEF IInv, TypeOK, MemoryOK
<1>4. \A i \in Items : i.finish <= wipe.cut
  <2>1. wipe.cut \in Int
    BY DEF IInv, TypeOK, MemoryOK
  <2> QED BY <1>1, <2>1, TimedNow, CutEnds DEF HInv, Kept, WipeDone, Items
<1>5. Configured'
  BY <1>1, <1>2, <1>3, ConfigStays DEF Replacing, WriteSteps
<1> QED BY <1>1, <1>2, <1>4, <1>5 DEF CInv, Refreshing, WipeSteps

LEMMA TruncateHistoryConfigures == ASSUME IInv, IInv', CInv, TruncateHistory PROVE CInv'
<1>1. /\ pc = "forget" /\ pc' = "keep" /\ Items' = Items
      /\ UNCHANGED <<now, config, seen, sidecar, resume, pass, wipe>>
  BY DEF TruncateHistory, world, memory, Items
<1>2. Configured'
  BY <1>1, ConfigStays DEF Replacing, WriteSteps
<1> QED BY <1>1, <1>2 DEF CInv, Refreshing, WipeSteps

LEMMA SaveRewindConfigures == ASSUME IInv, IInv', HInv, CInv, SaveRewind PROVE CInv'
<1>1. /\ pc = "keep" /\ pc' = AfterWipe /\ wipe'.job = "none" /\ Items' = Items
      /\ UNCHANGED <<now, config, seen, resume, pass>>
  BY DEF SaveRewind, world, Items, NoWipe
<1>2. wipe.job \in {"refresh", "repair"} /\ pass.phase \in {"startup", "roll"}
  BY <1>1 DEF HInv, OnTime, IInv, WipeHasJob, WipeSteps, Jobs, TypeOK, MemoryOK
<1>3. sidecar' = resume
  BY <1>2 DEF SaveRewind, OwnMap
<1>4. CASE Replacing
  <2>1. pc' = "config"
    BY <1>1, <1>4 DEF AfterWipe, Replacing
  <2>2. gen.items = {} /\ gen'.items = {}
    BY <1>1, <2>1, NothingInHand DEF WriteSteps, IInv, Laying, NoGen
  <2>3. now \in Int /\ \A i \in Items : i.start <= now /\ i.start \in Int
    BY <1>1, <1>4, TimedNow
       DEF CInv, Refreshing, Replacing, Items, ItemsOnDisk, TimedFolder, TimedItems, Timed
  <2>4. \A i \in Items' \cup gen'.items : ~ i.start > now
    BY <1>1, <2>2, <2>3
  <2> HIDE DEF CInv
  <2>5. Configured'
    BY <1>1, <1>3, <1>4, <2>1, <2>2, <2>4 DEF CInv, Configured, Replacing, WriteSteps
  <2> QED BY <1>1, <2>1, <2>5 DEF CInv, Refreshing, WipeSteps
<1>5. CASE ~ Replacing
  <2>1. pc' = "sweep"
    BY <1>1, <1>2, <1>5 DEF AfterWipe, Replacing
  <2>2. sidecar'.config = sidecar.config
    BY <1>1, <1>3, <1>5 DEF CInv, Configured
  <2>3. Configured'
    BY <1>1, <1>5, <2>1, <2>2, ConfigStays DEF Replacing, WriteSteps
  <2> QED BY <1>1, <2>1, <2>3 DEF CInv, Refreshing, WipeSteps
<1> QED BY <1>4, <1>5


LEMMA SweepConfigures == ASSUME Healthy, IInv, IInv', HInv, HInv', CInv, Sweep PROVE CInv'
<1>1. /\ pc = "sweep" /\ work' = resume /\ UNCHANGED <<now, config, seen, sidecar, resume>>
      /\ files' \subseteq files /\ pass'.phase = pass.phase
  BY DEF Sweep, IInv, TypeOK, MemoryOK
<1>2. pc' = "heal" /\ wipe'.job = "none" /\ wipe.job = "none"
  <2>1. (pc' = "heal" /\ wipe' = wipe) \/ pc' = "rewind"
    BY DEF Sweep
  <2> QED BY <1>1, <2>1 DEF HInv, OnTime, CInv, Refreshing, WipeSteps
<1>3. Items' \subseteq Items
  BY <1>1 DEF Items, ItemsOnDisk
<1>4. resume.config = seen
  BY <1>1, <1>2 DEF CInv, Configured, Replacing
<1>5. Configured'
  BY <1>1, <1>2, <1>3, <1>4, ConfigStays DEF Replacing, WriteSteps
<1> QED BY <1>2, <1>5 DEF CInv, Refreshing, WipeSteps

LEMMA HealConfigures == ASSUME IInv, IInv', HInv, HInv', CInv, Heal PROVE CInv'
<1>1. /\ pc = "heal" /\ Items' = Items /\ UNCHANGED <<now, config, seen, sidecar, resume, work, pass>>
  BY DEF Heal, world, disk, Items
<1>2. pc' = "plan" /\ wipe'.job = "none" /\ wipe.job = "none"
  <2>1. (pc' = "plan" /\ wipe' = wipe) \/ wipe'.job = "heal"
    BY DEF Heal, StartWipe
  <2> QED BY <1>1, <2>1 DEF HInv, OnTime, CInv, Refreshing, WipeSteps
<1>3. work.config = seen
  BY <1>1 DEF CInv, Configured
<1>4. Configured'
  BY <1>1, <1>2, <1>3, ConfigStays DEF Replacing, WriteSteps
<1> QED BY <1>2, <1>4 DEF CInv, Refreshing, WipeSteps

LEMMA PlanConfigures == ASSUME IInv, IInv', CInv, Plan PROVE CInv'
<1>1. /\ pc = "plan" /\ pc' = "generate" /\ Items' = Items
      /\ UNCHANGED <<now, config, seen, sidecar, resume, work, wipe>> /\ pass'.phase = pass.phase
  BY DEF Plan, world, disk, Items, IInv, TypeOK, MemoryOK
<1>2. work.config = seen /\ wipe.job = "none"
  BY <1>1 DEF CInv, Configured, Refreshing, WipeSteps
<1>3. Configured'
  BY <1>1, <1>2, ConfigStays DEF Replacing, WriteSteps
<1> QED BY <1>1, <1>2, <1>3 DEF CInv, Refreshing, WipeSteps

LEMMA GenerateConfigures == ASSUME IInv, CInv, Generate PROVE CInv'
<1>1. /\ pc = "generate" /\ pc' = "write" /\ Items' = Items
      /\ UNCHANGED <<now, config, seen, sidecar, resume, wipe, pass>>
  BY DEF Generate, world, disk, Items
<1>2. work'.config = work.config
  BY MapsKeepConfig DEF Generate, IInv, TypeOK, MemoryOK
<1>3. \A i \in gen'.items : i.config = seen
  BY DEF Generate, Laid
<1> QED BY <1>1, <1>2, <1>3 DEF CInv, Configured, Refreshing, Replacing, WipeSteps, WriteSteps

\* A step of writing lays no item but the generation's.
LEMMA ConfigStaysWriting ==
    ASSUME CInv, pc \in WriteSteps, pc' \in WriteSteps, Items' \subseteq Items \cup gen.items,
           gen'.items = gen.items,
           UNCHANGED <<now, config, seen, sidecar, resume, work, wipe, pass>>
    PROVE  CInv'
BY DEF CInv, Configured, Refreshing, Replacing, WipeSteps, WriteSteps

LEMMA WriteChunkConfigures == ASSUME IInv, CInv, WriteChunk PROVE CInv'
<1>1. PICK existing \in ChunkContents(files, Chunk) :
        files' = Put(files, GrownChunk(Chunk, existing, ChunkItems))
  BY DEF WriteChunk
<1>2. existing \subseteq Items /\ ChunkItems \subseteq gen.items
  BY DEF ChunkContents, Items, ItemsOnDisk, ChunkItems, ItemsCovering
<1>3. \A f \in files' : f \in files \/ f.items = existing \cup ChunkItems
  BY <1>1 DEF Put, GrownChunk
<1>4. Items' \subseteq Items \cup gen.items
  BY <1>2, <1>3 DEF Items, ItemsOnDisk
<1> QED BY <1>4, ConfigStaysWriting DEF WriteChunk, WriteSteps, world, memory

LEMMA DropOthersConfigures == ASSUME IInv, CInv, DropOthers PROVE CInv'
<1>1. files' \subseteq files /\ gen'.items = gen.items
  BY DEF DropOthers, IInv, TypeOK, MemoryOK
<1>2. Items' \subseteq Items
  BY <1>1 DEF Items, ItemsOnDisk
<1>3. pc = "tidy" /\ pc' \in {"write", "record"}
  BY DEF DropOthers, AfterChunk
<1> QED BY <1>1, <1>2, <1>3, ConfigStaysWriting DEF DropOthers, WriteSteps

LEMMA RecordAiringsConfigures == ASSUME CInv, RecordAirings PROVE CInv'
BY ConfigStaysWriting DEF RecordAirings, WriteSteps, Items, world, memory

LEMMA SaveSidecarConfigures == ASSUME IInv, CInv, SaveSidecar PROVE CInv'
<1>1. /\ pc = "save" /\ pc' = "generate" /\ Items' = Items /\ gen'.items = {}
      /\ UNCHANGED <<now, config, seen, resume, wipe>> /\ pass'.phase = pass.phase
  BY DEF SaveSidecar, world, Items, NoGen, IInv, TypeOK, MemoryOK
<1>2. work'.config = work.config /\ sidecar' = work'
  BY MapsKeepConfig DEF SaveSidecar, IInv, TypeOK, MemoryOK
<1> QED BY <1>1, <1>2 DEF CInv, Configured, Refreshing, Replacing, WipeSteps, WriteSteps

LEMMA CaughtUpConfigures == ASSUME IInv, IInv', CInv, CaughtUp PROVE CInv'
<1>1. /\ pc = "generate" /\ pc' = "idle" /\ Items' = Items /\ resume' = work
      /\ UNCHANGED <<now, config, seen, sidecar, wipe, gen>>
  BY DEF CaughtUp, BackInLoop, disk, Items
<1>2. work.config = seen /\ wipe.job = "none"
  BY <1>1 DEF CInv, Configured, Refreshing, WipeSteps
<1>3. resume.config = seen
  BY <1>1, <1>2 DEF CInv, Configured, Replacing
<1>4. Configured'
  BY <1>1, <1>2, <1>3, ConfigStays DEF Replacing, WriteSteps
<1> QED BY <1>1, <1>2, <1>4 DEF CInv, Refreshing, WipeSteps

LEMMA RollTickConfigures == ASSUME IInv, IInv', HInv, CInv, RollTick PROVE CInv'
<1>1. /\ pc = "idle" /\ pc' \in {"wipe", "sweep"} /\ Items' = Items /\ pass'.phase = "roll"
      /\ UNCHANGED <<now, config, seen, sidecar, resume>>
  BY DEF RollTick, StartWipe, disk, Items, NoPass
<1>2. wipe.job = "none"
  BY <1>1 DEF CInv, Refreshing, WipeSteps
<1>3. Configured'
  BY <1>1, <1>2, ConfigStays DEF Replacing, WriteSteps
<1>4. CASE marker
  <2>1. wipe'.job = "refresh" /\ wipe'.cut = AiringFinish(files, now) /\ pc' = "wipe"
    BY <1>4 DEF RollTick, StartWipe
  <2>2. \A i \in Items : i.finish <= wipe'.cut => i.start <= now
    BY <1>1, <2>1, TimedNow, CutsBehindScreen DEF HInv, Kept, Settled, Items
  <2> QED BY <1>1, <1>3, <2>1, <2>2 DEF CInv, Refreshing, WipeSteps
<1>5. CASE ~ marker
  <2>1. wipe' = wipe /\ pc' = "sweep"
    BY <1>5 DEF RollTick
  <2> QED BY <1>2, <1>3, <2>1 DEF CInv, Refreshing, WipeSteps
<1> QED BY <1>4, <1>5

LEMMA GoDownConfigures == ASSUME Healthy, IInv, CInv, GoDown PROVE CInv'
<1>1. /\ pc = "idle" /\ pc' = "down" /\ Items' = Items /\ gen' = NoGen /\ wipe' = NoWipe
      /\ pass' = NoPass /\ UNCHANGED <<now, config, sidecar>>
  BY DEF GoDown, Healthy, Forgotten, disk, Items
<1>2. wipe'.job = "none" /\ gen'.items = {} /\ wipe.job = "none"
  BY <1>1 DEF NoWipe, NoGen, CInv, Refreshing, WipeSteps
<1> QED BY <1>1, <1>2 DEF CInv, Configured, Refreshing, Replacing, WipeSteps, WriteSteps

LEMMA WorldConfigures ==
    ASSUME Healthy, IInv, CInv, Clock \/ RequestRefresh \/ EditConfig \/ LoseTitle
    PROVE  CInv'
<1>1. UNCHANGED <<disk, memory, pc>> /\ now' >= now /\ now \in Nat /\ now' \in Nat /\ Items' = Items
  BY DEF Clock, RequestRefresh, EditConfig, LoseTitle, IInv, TypeOK, WorldOK, disk, Items
<1>2. Clock => pc = "idle"
  BY DEF Clock, Healthy
<1>3. config' = config \/ config' = config + 1
  BY DEF Clock, RequestRefresh, EditConfig, LoseTitle
<1>4. config' # NoConfig
  BY <1>3 DEF CInv, Configured, NoConfig, IInv, TypeOK, WorldOK
<1>5. now' = now \/ pc = "idle"
  BY <1>2 DEF RequestRefresh, EditConfig, LoseTitle
<1>6. \A i \in Items \cup gen.items : i.start > now' => i.start > now
  <2>1. \A i \in Items \cup gen.items : i.start \in Int
    BY TimedNow DEF Items, ItemsOnDisk, TimedFolder, TimedItems, Timed
  <2> QED BY <1>1, <2>1
<1> QED BY <1>1, <1>4, <1>5, <1>6
        DEF CInv, Configured, Refreshing, Replacing, WipeSteps, disk, memory

LEMMA StepsConfigure ==
    ASSUME Healthy, ShortOvershoot, IInv, HInv, CInv, [Next]_vars
    PROVE  CInv'
<1>1. IInv' /\ HInv'
  BY StepsWell, StepsKeep
<1>2. CASE Task
  <2>1. ~ ZeroLength
    BY NoFault DEF ZeroLength
  <2> QED BY <1>1, <1>2, <2>1, StartConfigures, AdoptConfigConfigures, RepairConfigures,
             WipeConfigures, RewindConfigures, TruncateHistoryConfigures, SaveRewindConfigures,
             SweepConfigures, HealConfigures, PlanConfigures, GenerateConfigures,
             WriteChunkConfigures, DropOthersConfigures, RecordAiringsConfigures,
             SaveSidecarConfigures, CaughtUpConfigures, RollTickConfigures
          DEF Task
<1>3. CASE Fail \/ GoDown
  BY <1>3, NoFault, GoDownConfigures DEF Fail
<1>4. CASE Environment
  BY <1>4, NoFault, WorldConfigures DEF Environment, LoseFile
<1>5. CASE UNCHANGED vars
  BY <1>5 DEF CInv, Configured, Refreshing, Replacing, Items, vars, world, disk, memory
<1> QED BY <1>2, <1>3, <1>4, <1>5 DEF Next

LEMMA InitConfigured == ASSUME Init PROVE CInv
BY DEF Init, CInv, Configured, Refreshing, Replacing, NoConfig, NoWipe, NoGen, NoPass, EmptyMap,
       Items, ItemsOnDisk, WipeSteps, WriteSteps

\* A config edit reaches the screen after the item on it (daemon.rs:1869): once a task
\* is up, nothing that is still to air was laid under a configuration other than the
\* task's, whatever edits, refreshes, lost titles and restarts came in between.
THEOREM EditsReachScreen ==
    ASSUME Healthy, ShortOvershoot
    PROVE  Spec => []EditReachesScreen
<1>1. Init => IInv /\ HInv /\ CInv
  BY InitWell, InitKept, InitConfigured
<1>2. (IInv /\ HInv /\ CInv) /\ [Next]_vars => (IInv /\ HInv /\ CInv)'
  BY StepsWell, StepsKeep, StepsConfigure
<1>3. CInv => EditReachesScreen
  BY DEF CInv, Configured, Refreshing, Replacing, EditReachesScreen, Resting, WipeSteps
<1> QED BY <1>1, <1>2, <1>3, PTL DEF Spec


-----------------------------------------------------------------------------
(* What the play history tells *)

Cutting == {"wipe", "unlink", "forget"}

\* What a wipe has yet to take from the ledger: it goes after the files.
Dropping(t) == pc \in Cutting /\ t >= wipe.cut

\* A wipe takes from the disk what starts at the cut or later, and all of it.
Emptying ==
    /\ pc = "unlink" =>
           \A i \in Items : i \in ItemsOnDisk(files \ wipe.doomed) \/ i.start >= wipe.cut
    /\ pc \in {"forget", "keep"} => \A i \in Items : i.finish <= wipe.cut

\* Every item has its row, except those of a generation that is not recorded yet;
\* every row has its item, except those of what has gone off the disk behind the
\* present and those that the running wipe will take.
Ledger ==
    /\ \A i \in Items : Row(i) \in history \/ (pc \in {"write", "tidy", "record"} /\ i \in gen.items)
    /\ \A r \in history :
         \/ \E i \in Items : r = Row(i)
         \/ r.start < now /\ \A i \in Items \cup gen.items : r.start < i.start
         \/ Dropping(r.start)
    /\ gen.rows = {Row(i) : i \in gen.items}

LInv == Emptying /\ Ledger

\* The rows of a generation are the rows of its items, where it joins nothing.
LEMMA RecordsExactly ==
    ASSUME NEW p \in Nat, NEW n \in Nat \ {0}, NEW from \in Int,
           NEW g, g = Laid(p, n, from, [skip |-> 0, into |-> 0])
    PROVE  g.rows = {Row(i) : i \in g.items}
<1> DEFINE start(q) == from - 0 + (Airtime(q) - Airtime(p + 0))
           item(q)  == [start |-> start(q), finish |-> start(q + 1), pos |-> Title(q),
                        config |-> seen, edition |-> Edition]
           row(q)   == [start |-> from + (Airtime(q) - Airtime(p)), pos |-> Title(q)]
<1>1. /\ g.items = {item(q) : q \in p + 0 .. p + n - 1}
      /\ g.rows = {row(q) : q \in p .. p + n - 1}
  BY DEF Laid
<1>2. p + 0 = p /\ from - 0 = from
  OBVIOUS
<1>3. \A q \in p .. p + n - 1 : Row(item(q)) = row(q)
  BY <1>2 DEF Row
<1>4. g.items = {item(q) : q \in p .. p + n - 1}
  BY <1>1, <1>2
<1> HIDE DEF item, row
<1> QED BY <1>1, <1>3, <1>4

\* Outside the writing of a generation: what leaves the disk is behind the present
\* and before all that stays, or the running wipe will take its row.
LEMMA LedgerStays ==
    ASSUME IInv, IInv', LInv, Emptying', pc \notin WriteSteps, pc' \notin WriteSteps,
           history' = history, now' >= now, Items' \subseteq Items,
           pc \in Cutting => pc' \in Cutting /\ wipe'.cut = wipe.cut,
           \A i \in Items \ Items' :
               \/ pc' \in Cutting /\ i.start >= wipe'.cut
               \/ i.start < now /\ \A j \in Items' : i.start < j.start
    PROVE  LInv'
<1>1. gen.items = {} /\ gen'.items = {} /\ gen'.rows = {}
  BY DEF IInv, Laying, NoGen
<1>2. now \in Int /\ now' \in Int /\ \A r \in history : r.start \in Int
  BY DEF IInv, TypeOK, WorldOK, DiskOK, Rows
<1>3. \A i \in Items : Row(i) \in history
  BY <1>1 DEF LInv, Ledger
<1>4. ASSUME NEW r \in history
      PROVE  \/ \E i \in Items' : r = Row(i)
             \/ r.start < now' /\ \A i \in Items' : r.start < i.start
             \/ pc' \in Cutting /\ r.start >= wipe'.cut
  <2>1. CASE \E i \in Items : r = Row(i)
    <3>1. PICK i \in Items : r = Row(i)
      BY <2>1
    <3>2. r.start = i.start
      BY <3>1 DEF Row
    <3> QED BY <1>2, <3>1, <3>2
  <2>2. CASE r.start < now /\ \A i \in Items : r.start < i.start
    BY <1>2, <2>2
  <2>3. CASE Dropping(r.start)
    BY <2>3 DEF Dropping
  <2> QED BY <2>1, <2>2, <2>3 DEF LInv, Ledger
<1>5. Ledger'
  BY <1>1, <1>3, <1>4 DEF Ledger, Dropping
<1> QED BY <1>5 DEF LInv

\* A step that leaves the folder and the ledger alone.
LEMMA LedgerRests ==
    ASSUME IInv, IInv', LInv, UNCHANGED <<files, history>>, now' >= now,
           pc \notin WriteSteps, pc' \notin WriteSteps,
           pc' \notin {"unlink", "forget", "keep"} \/ UNCHANGED <<pc, wipe>>,
           pc \in Cutting => pc' \in Cutting /\ wipe'.cut = wipe.cut
    PROVE  LInv'
<1>1. Items' = Items
  BY DEF Items
<1>2. Emptying'
  BY <1>1 DEF LInv, Emptying
<1> QED BY <1>1, <1>2, LedgerStays


\* The steps of a task that lay nothing and take nothing away.
LEMMA QuietStepsBook ==
    ASSUME Healthy, IInv, IInv', LInv, Start \/ AdoptConfig \/ Repair \/ Heal \/ Plan \/ CaughtUp \/ RollTick \/ GoDown
    PROVE  LInv'
<1>1. /\ UNCHANGED <<files, history, now>>
      /\ pc \in {"down", "config", "repair", "heal", "plan", "generate", "idle"}
      /\ pc' \in {"wipe", "config", "repair", "sweep", "plan", "generate", "idle", "down"}
  BY DEF Start, AdoptConfig, Repair, Heal, Plan, CaughtUp, BackInLoop, RollTick, GoDown, StartWipe,
         Healthy, world, disk
<1>2. now' >= now
  BY <1>1 DEF IInv, TypeOK, WorldOK
<1> QED BY <1>1, <1>2, LedgerRests DEF WriteSteps, Cutting

\* What a step of a wipe takes from the disk starts at the cut or later.
TakesBehind ==
    /\ pc \in {"wipe", "unlink"} /\ pc' \in {"wipe", "unlink"}
    /\ wipe'.cut = wipe.cut /\ wipe'.job = wipe.job
    /\ UNCHANGED <<now, history, sidecar, resume, pass>>
    /\ Items' \subseteq Items /\ \A i \in Items \ Items' : i.start >= wipe.cut
    /\ Emptying'

LEMMA RemoveFileTakes == ASSUME IInv, HInv, RemoveFile PROVE TakesBehind
<1>1. pc = "wipe" /\ pc' = pc /\ UNCHANGED <<now, wipe, history, sidecar, resume, pass>>
  BY DEF RemoveFile, world, memory
<1>2. PICK f \in files : f.start >= wipe.cut /\ files' = files \ {f}
  BY DEF RemoveFile
<1>3. Items' \subseteq Items
  BY <1>2 DEF Items, ItemsOnDisk
<1>4. ASSUME NEW i \in Items \ Items' PROVE i.start >= wipe.cut
  <2>1. i \in f.items
    BY <1>2 DEF Items, ItemsOnDisk
  <2>2. i.finish > f.start /\ (i.finish <= wipe.cut \/ i.start >= wipe.cut)
    BY <1>1, <2>1 DEF HInv, Kept, CutAt, Tidy, Meets, Items
  <2>3. i.finish \in Int /\ f.start \in Int /\ wipe.cut \in Int
    BY <2>1, TimedNow DEF TimedFolder, TimedItems, Timed, IInv, TypeOK, MemoryOK
  <2> QED BY <1>2, <2>2, <2>3
<1>5. Emptying'
  BY <1>1 DEF Emptying
<1> QED BY <1>1, <1>3, <1>4, <1>5 DEF TakesBehind

LEMMA TruncateFileTakes == ASSUME IInv, HInv, TruncateFile PROVE TakesBehind
<1>1. pc = "wipe" /\ UNCHANGED <<now, history, sidecar, resume, pass>> /\ wipe.cut \in Int
  BY DEF TruncateFile, world, IInv, TypeOK, MemoryOK
<1>2. PICK f \in Overrunning(files, wipe.cut) :
        IF \A i \in f.items : i.finish > wipe.cut
        THEN files' = files \ {f} /\ UNCHANGED <<wipe, pc>>
        ELSE /\ files' = Put(files, Truncated(f, wipe.cut))
             /\ wipe' = [wipe EXCEPT !.doomed = {f}]
             /\ pc' = "unlink"
  BY DEF TruncateFile
<1>3. CutAt(files, now, wipe.cut)
  BY <1>1 DEF HInv, Kept
<1>4. \A i \in Items : i.finish > wipe.cut => i.start >= wipe.cut
  <2>1. \A i \in Items : i.finish \in Int
    BY TimedNow DEF Items, ItemsOnDisk, TimedFolder, TimedItems, Timed
  <2> QED BY <1>1, <1>3, <2>1 DEF CutAt, Items
<1>6. CASE \A i \in f.items : i.finish > wipe.cut
  <2>1. files' = files \ {f} /\ UNCHANGED <<wipe, pc>>
    BY <1>2, <1>6
  <2>2. Items' \subseteq Items /\ \A i \in Items \ Items' : i \in f.items
    BY <2>1 DEF Items, ItemsOnDisk
  <2>3. \A i \in Items \ Items' : i.start >= wipe.cut
    BY <1>4, <1>6, <2>2
  <2>4. Emptying'
    BY <1>1, <2>1 DEF Emptying
  <2> QED BY <1>1, <2>1, <2>2, <2>3, <2>4 DEF TakesBehind
<1>7. CASE ~ \A i \in f.items : i.finish > wipe.cut
  <2>1. files' = Put(files, Truncated(f, wipe.cut)) /\ pc' = "unlink"
        /\ wipe'.doomed = {f} /\ wipe'.cut = wipe.cut /\ wipe'.job = wipe.job
    BY <1>2, <1>7 DEF IInv, TypeOK, MemoryOK
  <2>2. \E i \in f.items : i.finish <= wipe.cut
    <3>1. \A i \in f.items : i.finish \in Int
      BY TimedNow DEF Overrunning, TimedFolder, TimedItems, Timed
    <3> QED BY <1>1, <1>7, <3>1
  <2>3. ItemsOnDisk(files') = ItemsOnDisk(files)
        /\ \A k \in ItemsOnDisk(files) \ ItemsOnDisk(files' \ {f}) : k.finish > wipe.cut
    <3>1. TimedFolder(files) /\ now \in Int
      BY TimedNow
    <3>2. f \in Overrunning(files, wipe.cut) /\ files' = Put(files, Truncated(f, wipe.cut))
      BY <2>1
    <3>3. ItemsOnDisk(files') = ItemsOnDisk(files)
      BY <1>1, <1>3, <2>2, <3>1, <3>2, CutShortens
    <3>4. ASSUME NEW k \in ItemsOnDisk(files) \ ItemsOnDisk(files' \ {f}) PROVE k.finish > wipe.cut
      BY <1>1, <1>3, <2>2, <3>1, <3>2, ShortensBehind
    <3> QED BY <3>3, <3>4
  <2>4. Items' = Items
    BY <2>3 DEF Items
  <2>5. Emptying'
    BY <1>4, <2>1, <2>3, <2>4 DEF Emptying, Items
  <2> QED BY <1>1, <2>1, <2>4, <2>5 DEF TakesBehind
<1> QED BY <1>6, <1>7

LEMMA RemoveTruncatedTakes == ASSUME IInv, LInv, RemoveTruncated PROVE TakesBehind
<1>1. /\ pc = "unlink" /\ pc' = "wipe" /\ files' = files \ wipe.doomed
      /\ UNCHANGED <<now, history, sidecar, resume, pass>> /\ wipe'.cut = wipe.cut /\ wipe'.job = wipe.job
  BY DEF RemoveTruncated, world, IInv, TypeOK, MemoryOK
<1>2. Items' \subseteq Items /\ \A i \in Items \ Items' : i.start >= wipe.cut
  BY <1>1 DEF Items, ItemsOnDisk, LInv, Emptying
<1>3. Emptying'
  BY <1>1 DEF Emptying
<1> QED BY <1>1, <1>2, <1>3 DEF TakesBehind

LEMMA WipeTakes ==
    ASSUME IInv, HInv, LInv, RemoveFile \/ TruncateFile \/ RemoveTruncated
    PROVE  TakesBehind
BY RemoveFileTakes, TruncateFileTakes, RemoveTruncatedTakes

LEMMA WipeBooks == ASSUME IInv, IInv', LInv, TakesBehind PROVE LInv'
<1>1. now' >= now
  BY DEF TakesBehind, IInv, TypeOK, WorldOK
<1> QED BY <1>1, LedgerStays DEF TakesBehind, WriteSteps, Cutting

\* The wipe that ends rewinds to its own cut.
LEMMA RewindsToCut ==
    ASSUME IInv, HInv, Rewind
    PROVE  /\ pc = "wipe" /\ pc' = "forget" /\ wipe'.cut = wipe.cut /\ wipe'.job = wipe.job
           /\ UNCHANGED <<now, disk, pass>> /\ Items' = Items
           /\ \A i \in Items : i.finish <= wipe.cut
           /\ resume' = Rewound(resume, wipe.cut)
<1>1. pc = "wipe" /\ WipeDone /\ wipe.job \in {"refresh", "repair"} /\ wipe.cut \in Int
  BY DEF Rewind, HInv, OnTime, IInv, WipeHasJob, WipeSteps, Jobs, TypeOK, MemoryOK
<1>2. PICK frontier \in HighestFinishes(files, wipe.cut) :
        /\ wipe' = [wipe EXCEPT !.cut = frontier] /\ resume' = Rewound(resume, frontier)
  BY <1>1 DEF Rewind, OwnMap
<1>3. CutAt(files, now, wipe.cut)
  BY <1>1 DEF HInv, Kept
<1>4. frontier = wipe.cut
  BY <1>1, <1>3, TimedNow, CutIsFrontier DEF WipeDone
<1>5. \A i \in Items : i.finish <= wipe.cut
  BY <1>1, <1>3, TimedNow, CutEnds DEF WipeDone, Items
<1>6. wipe'.cut = wipe.cut /\ wipe'.job = wipe.job
  BY <1>2, <1>4 DEF IInv, TypeOK, MemoryOK
<1> QED BY <1>1, <1>2, <1>4, <1>5, <1>6 DEF Rewind, Items, world, disk

LEMMA RewindBooks == ASSUME IInv, IInv', HInv, LInv, Rewind PROVE LInv'
<1>1. Emptying' /\ now' >= now /\ Items' = Items /\ history' = history
  BY RewindsToCut DEF Emptying, disk, IInv, TypeOK, WorldOK
<1> QED BY <1>1, RewindsToCut, LedgerStays DEF WriteSteps, Cutting

\* The ledger loses what the disk has lost.
LEMMA TruncateHistoryBooks == ASSUME IInv, HInv, LInv, TruncateHistory PROVE LInv'
<1>1. /\ pc = "forget" /\ pc' = "keep" /\ Items' = Items /\ UNCHANGED <<now, wipe, gen>>
      /\ history' = {r \in history : r.start < wipe.cut}
  BY DEF TruncateHistory, world, memory, Items
<1>2. wipe.cut \in Int /\ \A r \in history : r.start \in Int
  BY DEF IInv, TypeOK, MemoryOK, DiskOK, Rows
<1>3. \A i \in Items : i.finish <= wipe.cut
  BY <1>1 DEF LInv, Emptying
<1>4. \A i \in Items : Row(i) \in history'
  <2> TAKE i \in Items
  <2>1. Row(i) \in history
    BY <1>1 DEF LInv, Ledger
  <2>2. i.start < i.finish /\ i.start \in Int /\ i.finish \in Int /\ Row(i).start = i.start
    BY <1>1 DEF Items, ItemsOnDisk, HInv, Kept, Settled, Sound, Tidy, Row, IInv, TypeOK, DiskOK, File, Item
  <2> QED BY <1>1, <1>2, <1>3, <2>1, <2>2
<1>5. \A r \in history' : r \in history /\ ~ Dropping(r.start)
  BY <1>1, <1>2 DEF Dropping
<1>6. Ledger'
  BY <1>1, <1>4, <1>5 DEF LInv, Ledger
<1>7. Emptying'
  BY <1>1, <1>3 DEF Emptying
<1> QED BY <1>6, <1>7 DEF LInv


\* Without an anchor a generation starts where the schedule ends, and its rows are
\* its items'.
LEMMA GenerationFollows ==
    ASSUME ~ Anchored, IInv, HInv, Generate
    PROVE  /\ \A i \in gen'.items : i.start \in Int /\ pass.from <= i.start
           /\ gen'.rows = {Row(i) : i \in gen'.items}
           /\ pass.from \in Int /\ now <= pass.from
           /\ \A i \in Items : i.start < pass.from
<1>1. PICK p \in NextPositions(work), n \in GenSizes :
        gen' = Laid(p, n, pass.from, [skip |-> 0, into |-> 0])
  BY DEF Generate
<1>2. p \in Nat /\ n \in Nat \ {0} /\ pass.from \in Int
  BY <1>1, ContinuesInList, PassAssumption DEF IInv, TypeOK, MemoryOK
<1>3. 0 \in 0 .. n - 1 /\ 0 \in Nat /\ 0 < Airtime(p + 0 + 1) - Airtime(p + 0)
  <2>1. p + 0 = p /\ p + 0 + 1 = p + 1 /\ p + 1 \in Nat /\ p < p + 1 /\ 0 \in 0 .. n - 1
    BY <1>2
  <2>2. Airtime(p) \in Nat /\ Airtime(p + 1) \in Nat /\ Airtime(p) < Airtime(p + 1)
    BY <1>2, <2>1, AirtimeGrows
  <2> QED BY <2>1, <2>2
<1>4. \A i \in gen'.items : pass.from <= i.start
  BY <1>1, <1>2, <1>3, LaysGaplessly
<1>5. gen'.rows = {Row(i) : i \in gen'.items}
  BY <1>1, <1>2, RecordsExactly
<1>6. \A i \in gen'.items : i.start \in Int
  <2>1. IInv'
    BY GeneratesWell
  <2> QED BY <2>1 DEF IInv, TypeOK, MemoryOK, Item
<1>7. Filled(files, now, pass.from)
  BY DEF Generate, HInv, Kept
<1>8. \A i \in Items : i.start < i.finish /\ i.start \in Int /\ i.finish \in Int /\ i.finish <= pass.from
  BY <1>7, TimedNow DEF Filled, Tidy, Items, ItemsOnDisk, TimedFolder, TimedItems, Timed
<1> QED BY <1>2, <1>4, <1>5, <1>6, <1>7, <1>8 DEF Filled

LEMMA GenerateBooks == ASSUME ~ Anchored, IInv, HInv, LInv, Generate PROVE LInv'
<1>1. pc = "generate" /\ pc' = "write" /\ Items' = Items /\ UNCHANGED <<now, history, files, wipe>>
  BY DEF Generate, world, disk, Items
<1>2. gen.items = {}
  BY <1>1, NothingInHand DEF WriteSteps
<1>3. \A r \in history : r.start \in Int
  BY DEF IInv, TypeOK, DiskOK, Rows
<1>4. \A r \in history : r.start < now => \A i \in gen'.items : r.start < i.start
  BY <1>3, GenerationFollows, TimedNow
<1>5. Ledger'
  BY <1>1, <1>2, <1>4, GenerationFollows DEF LInv, Ledger, Dropping, Cutting
<1> QED BY <1>1, <1>5 DEF LInv, Emptying

\* A chunk takes all that its former file held.
LEMMA WriteChunkAdds ==
    ASSUME IInv, HInv, WriteChunk
    PROVE  /\ Items \subseteq Items' /\ Items' \subseteq Items \cup gen.items
           /\ Items' = Items \cup ChunkItems
<1>1. PICK existing \in ChunkContents(files, Chunk) :
        files' = Put(files, GrownChunk(Chunk, existing, ChunkItems))
  BY DEF WriteChunk
<1> DEFINE g == GrownChunk(Chunk, existing, ChunkItems)
<1>2. g.start = Chunk /\ g.items = existing \cup ChunkItems
  BY DEF GrownChunk
<1>3. \A f \in files : f.start = Chunk => f.items = existing
  <2>1. \A e, f \in files : e.start = f.start => e = f
    BY DEF WriteChunk, HInv, Kept, Growing, Tidy
  <2>2. existing \in {{}} \/ \E e \in files : e.start = Chunk /\ existing = e.items
    BY DEF ChunkContents
  <2>3. (\E f \in files : f.start = Chunk) => \E e \in files : e.start = Chunk /\ existing = e.items
    BY DEF ChunkContents
  <2> QED BY <2>1, <2>3
<1>4. existing \subseteq Items /\ ChunkItems \subseteq gen.items
  BY DEF ChunkContents, Items, ItemsOnDisk, ChunkItems, ItemsCovering
<1> HIDE DEF g
<1>5. files' = Put(files, g)
  BY <1>1 DEF g
<1>6. \A f \in files' : f \in files \/ f = g
  BY <1>5 DEF Put
<1>7. \A f \in files : f \in files' \/ f.start = Chunk
  BY <1>2, <1>5 DEF Put, SameName
<1>8. g \in files'
  BY <1>5 DEF Put
<1>9. ASSUME NEW i \in Items PROVE i \in Items'
  <2>1. PICK f \in files : i \in f.items
    BY DEF Items, ItemsOnDisk
  <2>2. CASE f \in files'
    BY <2>1, <2>2 DEF Items, ItemsOnDisk
  <2>3. CASE f.start = Chunk
    BY <1>2, <1>3, <1>8, <2>1, <2>3 DEF Items, ItemsOnDisk
  <2> QED BY <1>7, <2>2, <2>3
<1>10. Items' \subseteq Items \cup ChunkItems
  BY <1>2, <1>4, <1>6 DEF Items, ItemsOnDisk
<1>11. ChunkItems \subseteq Items'
  BY <1>2, <1>8 DEF Items, ItemsOnDisk
<1> QED BY <1>4, <1>9, <1>10, <1>11

LEMMA WriteChunkBooks == ASSUME IInv, HInv, LInv, WriteChunk PROVE LInv'
<1>1. pc = "write" /\ pc' = "tidy" /\ UNCHANGED <<now, history, wipe, gen>>
  BY DEF WriteChunk, world, memory
<1>2. Ledger'
  BY <1>1, WriteChunkAdds DEF LInv, Ledger, Dropping, Cutting
<1> QED BY <1>1, <1>2 DEF LInv, Emptying

\* What a chunk leaves behind is in its new file.
LEMMA DropsNothing ==
    ASSUME Healthy, IInv, HInv, DropOthers
    PROVE  /\ Items' = Items /\ gen'.items = gen.items /\ gen'.rows = gen.rows /\ gen'.trail = gen.trail
           /\ files' = files \ LeftBehind /\ gen'.cursor = ChunkEnd(gen.cursor)
           /\ gen'.to = gen.to /\ gen'.pos = gen.pos
<1>1. files' = files \ LeftBehind
  <2>1. PICK stuck \in SUBSET LeftBehind :
          /\ files' = files \ (LeftBehind \ stuck)
          /\ IF stuck = {} THEN UNCHANGED spent ELSE May("faults") /\ Spend("faults")
    BY DEF DropOthers, LeftBehind, Others
  <2>2. stuck = {}
    BY <2>1, NoFault
  <2> QED BY <2>1, <2>2
<1>2. ItemsOnDisk(files \ LeftBehind) = Items
  BY DEF DropOthers, HInv, Kept
<1> QED BY <1>1, <1>2 DEF DropOthers, Items, IInv, TypeOK, MemoryOK

LEMMA DropOthersBooks == ASSUME Healthy, IInv, HInv, LInv, DropOthers PROVE LInv'
<1>1. pc = "tidy" /\ pc' \in {"write", "record"} /\ UNCHANGED <<now, history, wipe>>
  BY DEF DropOthers, AfterChunk
<1>2. Ledger'
  BY <1>1, DropsNothing DEF LInv, Ledger, Dropping, Cutting
<1> QED BY <1>1, <1>2 DEF LInv, Emptying

LEMMA RecordAiringsBooks == ASSUME IInv, LInv, RecordAirings PROVE LInv'
<1>1. /\ pc = "record" /\ pc' = "save" /\ Items' = Items /\ UNCHANGED <<now, wipe, gen>>
      /\ history' = history \cup gen.rows
  BY DEF RecordAirings, world, memory, Items
<1>2. gen.items \subseteq Items
  BY <1>1 DEF IInv, GenerationOnDisk
<1>3. \A i \in gen.items : Row(i) \in history'
  BY <1>1 DEF LInv, Ledger
<1>4. \A r \in gen.rows : \E i \in Items' : r = Row(i)
  BY <1>1, <1>2 DEF LInv, Ledger
<1>5. Ledger'
  BY <1>1, <1>3, <1>4 DEF LInv, Ledger, Dropping, Cutting
<1> QED BY <1>1, <1>5 DEF LInv, Emptying

LEMMA SaveSidecarBooks == ASSUME IInv, LInv, SaveSidecar PROVE LInv'
<1>1. /\ pc = "save" /\ pc' = "generate" /\ Items' = Items /\ UNCHANGED <<now, history, wipe>>
      /\ gen'.items = {} /\ gen'.rows = {}
  BY DEF SaveSidecar, world, Items, NoGen
<1>2. Ledger'
  BY <1>1 DEF LInv, Ledger, Dropping, Cutting
<1> QED BY <1>1, <1>2 DEF LInv, Emptying

\* The sweep takes files that have aired and no other.
LEMMA SweepsAged ==
    ASSUME Healthy, IInv, HInv, HInv', Sweep
    PROVE  /\ pc = "sweep" /\ pc' = "heal" /\ wipe' = wipe /\ UNCHANGED <<now, history, sidecar, resume, gen>>
           /\ work' = resume /\ pass'.at = now /\ Items' \subseteq Items
           /\ \A i \in Items \ Items' : i.start < now /\ \A j \in Items' : i.start < j.start
<1>1. files' = files \ Elapsed(files, now - Retention) /\ pc' = "heal" /\ wipe' = wipe
  BY SweepsElapsed
<1>2. pc = "sweep" /\ Sound(files, now)
  BY DEF Sweep, HInv, Kept, Settled
<1>3. Items' \subseteq Items
  BY <1>1 DEF Items, ItemsOnDisk
<1>4. ASSUME NEW i \in Items \ Items' PROVE i.start < now /\ \A j \in Items' : i.start < j.start
  <2>1. now - Retention \in Int /\ now \in Int /\ now - Retention <= now
    BY TimedNow, PassAssumption
  <2>2. i.start \in Int
    BY TimedNow DEF Items, ItemsOnDisk, TimedFolder, TimedItems, Timed
  <2>3. i \in ItemsOnDisk(files) /\ i \notin ItemsOnDisk(files \ Elapsed(files, now - Retention))
    BY <1>1 DEF Items
  <2>4. /\ i.start < now - Retention
        /\ \A j \in ItemsOnDisk(files \ Elapsed(files, now - Retention)) : i.start < j.start
    BY <1>2, <2>1, <2>3, TimedNow, AgesInOrder
  <2>5. i.start < now
    BY <2>1, <2>2, <2>4, PassAssumption
  <2>6. Items' = ItemsOnDisk(files \ Elapsed(files, now - Retention))
    BY <1>1 DEF Items
  <2>7. \A j \in Items' : i.start < j.start
    BY <2>4, <2>6
  <2> QED BY <2>5, <2>7
<1> QED BY <1>1, <1>2, <1>3, <1>4 DEF Sweep, IInv, TypeOK, MemoryOK

LEMMA SweepBooks == ASSUME Healthy, IInv, IInv', HInv, HInv', LInv, Sweep PROVE LInv'
<1>1. Emptying' /\ now' >= now
  BY SweepsAged DEF Emptying, IInv, TypeOK, WorldOK
<1> QED BY <1>1, SweepsAged, LedgerStays DEF WriteSteps, Cutting

LEMMA SaveRewindBooks == ASSUME IInv, IInv', HInv, LInv, SaveRewind PROVE LInv'
<1>1. /\ pc = "keep" /\ pc' = AfterWipe /\ UNCHANGED <<files, history, now>>
  BY DEF SaveRewind, world
<1>2. wipe.job \in {"refresh", "repair"} /\ pass.phase \in {"startup", "roll"}
  BY <1>1 DEF HInv, OnTime, IInv, WipeHasJob, WipeSteps, Jobs, TypeOK, MemoryOK
<1>3. pc' \in {"config", "sweep"}
  BY <1>1, <1>2 DEF AfterWipe
<1>4. now' >= now
  BY <1>1 DEF IInv, TypeOK, WorldOK
<1> QED BY <1>1, <1>3, <1>4, LedgerRests DEF WriteSteps, Cutting

LEMMA WorldBooks ==
    ASSUME IInv, IInv', LInv, Clock \/ RequestRefresh \/ EditConfig \/ LoseTitle
    PROVE  LInv'
<1>1. UNCHANGED <<disk, memory, pc>> /\ now' >= now /\ now \in Nat /\ now' \in Nat /\ Items' = Items
  BY DEF Clock, RequestRefresh, EditConfig, LoseTitle, IInv, TypeOK, WorldOK, disk, Items
<1>2. \A r \in history : r.start \in Int
  BY DEF IInv, TypeOK, DiskOK, Rows
<1>3. \A r \in history : r.start < now => r.start < now'
  BY <1>1, <1>2
<1> QED BY <1>1, <1>3 DEF LInv, Emptying, Ledger, Dropping, disk, memory


LEMMA StepsBook ==
    ASSUME Healthy, ShortOvershoot, ~ Anchored, IInv, HInv, LInv, [Next]_vars
    PROVE  LInv'
<1>1. IInv' /\ HInv'
  BY StepsWell, StepsKeep
<1>2. CASE Task
  <2>1. ~ ZeroLength
    BY NoFault DEF ZeroLength
  <2> QED BY <1>1, <1>2, <2>1, QuietStepsBook, WipeTakes, WipeBooks, RewindBooks,
             TruncateHistoryBooks, SaveRewindBooks, SweepBooks,
             GenerateBooks, WriteChunkBooks, DropOthersBooks, RecordAiringsBooks, SaveSidecarBooks
          DEF Task
<1>3. CASE Fail \/ GoDown
  BY <1>1, <1>3, NoFault, QuietStepsBook DEF Fail
<1>4. CASE Environment
  BY <1>1, <1>4, NoFault, WorldBooks DEF Environment, LoseFile
<1>5. CASE UNCHANGED vars
  BY <1>5 DEF LInv, Emptying, Ledger, Dropping, Items, vars, world, disk, memory
<1> QED BY <1>2, <1>3, <1>4, <1>5 DEF Next

LEMMA InitBooked == ASSUME Init PROVE LInv
BY DEF Init, LInv, Emptying, Ledger, Items, ItemsOnDisk, NoGen

-----------------------------------------------------------------------------
(* What the resume map tells *)

\* The places of a trail follow the clock.
Ordered(T) ==
    \A c, d \in T : (c.nth < d.nth <=> c.start < d.start) /\ (c.nth = d.nth => c = d)

Mark(T, i) == \E c \in T : c.start = i.start /\ c.pos = i.pos

\* A rewind to a checkpoint restores its position and drops it and what comes after it,
\* and nothing else.
LEMMA RewindsExactly ==
    ASSUME NEW m, FiniteMap(m), Ordered(m.checkpoints), NEW instant \in Int,
           NEW d \in m.checkpoints, d.start = instant
    PROVE  /\ Rewound(m, instant).checkpoints = {c \in m.checkpoints : c.start < instant}
           /\ Rewound(m, instant).pos = d.pos
<1> DEFINE early == {c \in m.checkpoints : c.start <= instant}
           back  == CHOOSE c \in early : \A e \in early : e.nth <= c.nth
<1>1. m \in [pos : Titles, checkpoints : SUBSET Trail, config : Nat]
  BY DEF FiniteMap, Map
<1>2. d \in early /\ early \in SUBSET m.checkpoints /\ early \in SUBSET Trail /\ IsFiniteSet(early)
  BY <1>1, FS_Subset DEF FiniteMap
<1>3. back \in early /\ \A e \in early : e.nth <= back.nth
  <2>1. \E c \in early : \A e \in early : e.nth <= c.nth
    <3> HIDE DEF early
    <3> QED BY <1>2, TrailHasLast
  <2> HIDE DEF early
  <2> QED BY <2>1
<1>4. /\ Rewound(m, instant).checkpoints = {c \in m.checkpoints : c.nth < back.nth}
      /\ Rewound(m, instant).pos = back.pos
  BY <1>1, <1>2 DEF Rewound
<1> HIDE DEF back
<1>5. back \in m.checkpoints /\ back.start <= instant /\ d.nth <= back.nth
  BY <1>2, <1>3
<1>6. \A c \in m.checkpoints : c.start \in Int /\ c.nth \in Nat
  BY <1>1 DEF Trail
<1>7. back.start = instant
  BY <1>5, <1>6 DEF Ordered
<1>8. \A c \in m.checkpoints : c.nth < back.nth <=> c.start < instant
  BY <1>5, <1>7 DEF Ordered
<1>9. back = d
  BY <1>5, <1>6, <1>7 DEF Ordered
<1> QED BY <1>4, <1>8, <1>9

\* Any rewind only drops.
LEMMA RewindsBack ==
    ASSUME NEW m \in Map, NEW instant
    PROVE  Rewound(m, instant).checkpoints \subseteq m.checkpoints
BY DEF Map, Rewound

\* A checkpoint after all others keeps the order.
LEMMA CheckpointsInOrder ==
    ASSUME NEW m, FiniteMap(m), Ordered(m.checkpoints), NEW start \in Int,
           \A c \in m.checkpoints : c.start < start
    PROVE  /\ Ordered(Checkpointed(m, start).checkpoints)
           /\ Checkpointed(m, start).pos = m.pos
           /\ m.checkpoints \subseteq Checkpointed(m, start).checkpoints
           /\ \E c \in Checkpointed(m, start).checkpoints : c.start = start /\ c.pos = m.pos
           /\ \A c \in Checkpointed(m, start).checkpoints : c \in m.checkpoints \/ c.start = start
<1> DEFINE c == [start |-> start, pos |-> m.pos, nth |-> LastNth(m.checkpoints) + 1]
<1>1. m \in [pos : Titles, checkpoints : SUBSET Trail, config : Nat]
  BY DEF FiniteMap, Map
<1>2. LastNth(m.checkpoints) \in Nat /\ \A d \in m.checkpoints : d.nth <= LastNth(m.checkpoints)
  BY <1>1, TrailEnds DEF FiniteMap
<1>3. Checkpointed(m, start) = [m EXCEPT !.checkpoints = m.checkpoints \cup {c}]
  BY DEF Checkpointed
<1>4. c.start = start /\ c.pos = m.pos /\ c.nth = LastNth(m.checkpoints) + 1
  OBVIOUS
<1>5. \A d \in m.checkpoints : d.start \in Int /\ d.nth \in Nat
  BY <1>1 DEF Trail
<1> HIDE DEF c
<1>6. Checkpointed(m, start).checkpoints = m.checkpoints \cup {c} /\ Checkpointed(m, start).pos = m.pos
  BY <1>1, <1>3
<1>7. \A d \in m.checkpoints : d.nth < c.nth /\ d.start < c.start
  BY <1>2, <1>4, <1>5
<1>8. c.nth \in Nat /\ c.start \in Int
  BY <1>2, <1>4
<1>9. Ordered(m.checkpoints \cup {c})
  BY <1>5, <1>7, <1>8 DEF Ordered
<1> QED BY <1>4, <1>6, <1>9

\* So does the trail of a generation that starts after all of them.
LEMMA AdoptsInOrder ==
    ASSUME NEW m, FiniteMap(m), Ordered(m.checkpoints), NEW pos, NEW at,
           NEW T \in SUBSET Trail, Ordered(T), \A c \in T : c.nth > 0,
           \A c \in T : \A d \in m.checkpoints : d.start < c.start
    PROVE  /\ Ordered(Adopted(m, pos, T, at).checkpoints)
           /\ \A d \in m.checkpoints : d.start > at => d \in Adopted(m, pos, T, at).checkpoints
           /\ \A i : Mark(T, i) /\ i.start > at => Mark(Adopted(m, pos, T, at).checkpoints, i)
           /\ \A c \in Adopted(m, pos, T, at).checkpoints :
                  c \in m.checkpoints \/ \E d \in T : c.start = d.start
<1> DEFINE before == LastNth(m.checkpoints)
           moved(c) == [c EXCEPT !.nth = before + c.nth]
           added  == {moved(c) : c \in T}
           kept   == {c \in m.checkpoints \cup added : c.start > at}
<1>1. m \in [pos : Titles, checkpoints : SUBSET Trail, config : Nat]
  BY DEF FiniteMap, Map
<1>2. before \in Nat /\ \A d \in m.checkpoints : d.nth <= before
  BY <1>1, TrailEnds DEF FiniteMap
<1>3. \A c \in T : /\ c.start \in Int /\ c.nth \in Nat
                   /\ moved(c).start = c.start /\ moved(c).pos = c.pos
                   /\ moved(c).nth = before + c.nth
  <2> HIDE DEF before
  <2> QED BY DEF Trail
<1>4. \A d \in m.checkpoints : d.start \in Int /\ d.nth \in Nat
  BY <1>1 DEF Trail
<1>5. Adopted(m, pos, T, at).checkpoints = kept
  <2>1. Adopted(m, pos, T, at) = [m EXCEPT !.pos = pos, !.checkpoints = kept]
    BY DEF Adopted
  <2> HIDE DEF kept
  <2> QED BY <1>1, <2>1
<1> HIDE DEF moved, before
<1>7. \A e \in added : \E c \in T : e = moved(c)
  OBVIOUS
<1>8. \A c \in T : moved(c) \in added
  OBVIOUS
<1> HIDE DEF added
<1>9. ASSUME NEW c \in added, NEW d \in added
      PROVE  (c.nth < d.nth <=> c.start < d.start) /\ (c.nth = d.nth => c = d)
  <2>1. PICK a \in T : c = moved(a)
    BY <1>7
  <2>2. PICK b \in T : d = moved(b)
    BY <1>7
  <2>3. (a.nth < b.nth <=> a.start < b.start) /\ (a.nth = b.nth => a = b)
    BY DEF Ordered
  <2>4. c.start = a.start /\ c.nth = before + a.nth /\ d.start = b.start /\ d.nth = before + b.nth
        /\ a.nth \in Nat /\ b.nth \in Nat
    BY <1>3, <2>1, <2>2
  <2> QED BY <1>2, <2>1, <2>2, <2>3, <2>4
<1>10. ASSUME NEW d \in m.checkpoints, NEW e \in added
       PROVE  d.nth < e.nth /\ d.start < e.start /\ e.nth \in Nat /\ e.start \in Int
  <2>1. PICK c \in T : e = moved(c)
    BY <1>7
  <2> QED BY <1>2, <1>3, <1>4, <2>1
<1>11. Ordered(kept)
  BY <1>4, <1>9, <1>10 DEF Ordered
<1>12. \A i : Mark(T, i) /\ i.start > at => Mark(kept, i)
  BY <1>3, <1>8 DEF Mark
<1>13. \A c \in kept : c \in m.checkpoints \/ \E d \in T : c.start = d.start
  BY <1>3, <1>7
<1> HIDE DEF kept
<1>14. \A d \in m.checkpoints : d.start > at => d \in kept
  BY DEF kept
<1> QED BY <1>5, <1>11, <1>12, <1>13, <1>14


\* Every item of a generation but the first has its checkpoint in the trail, and
\* the trail no other; the first starts where the generation does.
LEMMA LaysTrail ==
    ASSUME Cursor = "position", NEW p \in Titles, NEW n \in Nat \ {0}, NEW from \in Int,
           NEW g, g = Laid(p, n, from, [skip |-> 0, into |-> 0])
    PROVE  /\ Ordered(g.trail)
           /\ \A c \in g.trail : c.nth > 0 /\ c.start > from /\ \E i \in g.items : i.start = c.start
           /\ \E i \in g.items : i.start = from
           /\ \A i \in g.items : (i.start = from /\ i.pos = p) \/ Mark(g.trail, i)
<1> DEFINE start(q) == from - 0 + (Airtime(q) - Airtime(p + 0))
           item(q)  == [start |-> start(q), finish |-> start(q + 1), pos |-> Title(q),
                        config |-> seen, edition |-> Edition]
           point(k) == [start |-> start(p + 0 + k), pos |-> Title(p + 0 + k), nth |-> k]
<1>1. /\ g.items = {item(q) : q \in p + 0 .. p + n - 1}
      /\ g.trail = {point(k) : k \in 1 .. n - 1 - 0}
  BY DEF Laid
<1>2. p \in Nat /\ p + 0 = p /\ n - 1 - 0 = n - 1 /\ Title(p) = p
  <2>1. p \in 0 .. ListLen - 1 /\ ListLen \in Nat \ {0}
    BY ListAssumption DEF Titles
  <2>2. p % ListLen = p
    BY <2>1
  <2> QED BY <2>1, <2>2 DEF Title
<1>3. \A q \in Nat : Airtime(q) \in Nat
  BY AirtimeGrows
<1>4. \A q \in Nat : start(q) \in Int
  BY <1>2, <1>3
<1>5. \A q, r \in Nat : q < r => start(q) < start(r)
  <2> TAKE q, r \in Nat
  <2>1. q < r => Airtime(q) < Airtime(r)
    BY AirtimeGrows
  <2> QED BY <1>2, <1>3, <2>1
<1>6. start(p) = from
  BY <1>2, <1>3
<1> HIDE DEF start
<1>7. /\ \A q \in p .. p + n - 1 : item(q) \in g.items
      /\ \A i \in g.items : \E q \in p .. p + n - 1 : i = item(q)
  <2> HIDE DEF item
  <2> QED BY <1>1, <1>2
<1>8. \A q \in p .. p + n - 1 : item(q).start = start(q) /\ item(q).pos = Title(q)
  OBVIOUS
<1>9. /\ \A k \in 1 .. n - 1 : point(k) \in g.trail
      /\ \A c \in g.trail : \E k \in 1 .. n - 1 : c = point(k)
  <2> HIDE DEF point
  <2> QED BY <1>1, <1>2
<1>10. \A k \in 1 .. n - 1 : /\ point(k).start = start(p + k) /\ point(k).pos = Title(p + k)
                             /\ point(k).nth = k /\ p + k \in Nat /\ p + k \in p .. p + n - 1 /\ p < p + k
  BY <1>2
<1> HIDE DEF item, point
<1>11. Ordered(g.trail)
  <2> SUFFICES ASSUME NEW c \in g.trail, NEW d \in g.trail
               PROVE  (c.nth < d.nth <=> c.start < d.start) /\ (c.nth = d.nth => c = d)
    BY DEF Ordered
  <2>1. PICK j \in 1 .. n - 1 : c = point(j)
    BY <1>9
  <2>2. PICK k \in 1 .. n - 1 : d = point(k)
    BY <1>9
  <2>3. c.nth = j /\ d.nth = k /\ c.start = start(p + j) /\ d.start = start(p + k)
        /\ p + j \in Nat /\ p + k \in Nat
    BY <1>10, <2>1, <2>2
  <2>4. start(p + j) \in Int /\ start(p + k) \in Int
    BY <1>4, <2>3
  <2>5. j < k => start(p + j) < start(p + k)
    BY <1>2, <1>5, <2>3
  <2>6. k <= j => start(p + k) <= start(p + j)
    <3>1. k < j => start(p + k) < start(p + j)
      BY <1>2, <1>5, <2>3
    <3>2. k = j => start(p + k) = start(p + j)
      OBVIOUS
    <3> QED BY <2>4, <3>1, <3>2
  <2> QED BY <2>1, <2>2, <2>3, <2>4, <2>5, <2>6
<1>12. ASSUME NEW c \in g.trail
       PROVE  c.nth > 0 /\ c.start > from /\ \E i \in g.items : i.start = c.start
  <2>1. PICK k \in 1 .. n - 1 : c = point(k)
    BY <1>9
  <2>2. item(p + k) \in g.items /\ item(p + k).start = c.start
    BY <1>7, <1>8, <1>10, <2>1
  <2>3. start(p) < start(p + k)
    BY <1>2, <1>5, <1>10
  <2>4. c.nth = k /\ c.start = start(p + k) /\ start(p + k) \in Int
    BY <1>4, <1>10, <2>1
  <2> QED BY <1>6, <2>2, <2>3, <2>4
<1>13. \E i \in g.items : i.start = from
  <2>1. p \in p .. p + n - 1
    BY <1>2
  <2> QED BY <1>6, <1>7, <1>8, <2>1
<1>14. ASSUME NEW i \in g.items PROVE (i.start = from /\ i.pos = p) \/ Mark(g.trail, i)
  <2>1. PICK q \in p .. p + n - 1 : i = item(q)
    BY <1>7
  <2>2. CASE q = p
    BY <1>2, <1>6, <1>8, <2>1, <2>2
  <2>3. CASE q # p
    <3>1. q - p \in 1 .. n - 1 /\ p + (q - p) = q
      BY <1>2, <2>3
    <3>2. point(q - p) \in g.trail /\ point(q - p).start = i.start /\ point(q - p).pos = i.pos
      BY <1>8, <1>9, <1>10, <2>1, <3>1
    <3> QED BY <3>2 DEF Mark
  <2> QED BY <2>2, <2>3
<1> QED BY <1>11, <1>12, <1>13, <1>14


\* The loop's map, the catch-up's copy of it and the sidecar are one, but for the
\* rewind or the checkpoint that has not been saved yet.
OneMap ==
    /\ pc \in {"idle", "config", "repair", "sweep", "wipe", "unlink"} => resume = sidecar
    /\ pc \in {"heal", "plan", "generate"} => work = sidecar
    /\ pc \in {"forget", "keep"} => resume = Rewound(sidecar, wipe.cut)
    /\ pc \in WriteSteps => work = Checkpointed(sidecar, pass.from)

\* What had not begun when the last pass did.
After == IF pc = "down" THEN now ELSE pass.at

\* Every item that had not begun has its checkpoint in the sidecar, every checkpoint
\* that is not behind the present its item, but for what the running wipe takes away;
\* and a repair can rewind to the very item that it cuts at.
Marked ==
    /\ Ordered(sidecar.checkpoints)
    /\ \A i \in Items \ gen.items : i.start > After => Mark(sidecar.checkpoints, i)
    /\ \A c \in sidecar.checkpoints :
         \/ c.start < now
         \/ \E i \in Items : i.start = c.start
         \/ pc \in WipeSteps /\ c.start >= wipe.cut
    /\ pc \in WipeSteps =>
         \/ \E d \in sidecar.checkpoints : d.start = wipe.cut
         \/ wipe.job = "refresh" /\ \A c \in sidecar.checkpoints : c.start < wipe.cut

\* The trail of the generation being laid goes on where the sidecar's ends.
Trailed ==
    pc \in WriteSteps =>
        /\ \A c \in sidecar.checkpoints : c.start < pass.from
        /\ Ordered(gen.trail)
        /\ \A c \in gen.trail :
               c.nth > 0 /\ c.start > pass.from /\ \E i \in gen.items : i.start = c.start
        /\ \E i \in gen.items : i.start = pass.from
        /\ \A i \in gen.items : (i.start = pass.from /\ i.pos = work.pos) \/ Mark(gen.trail, i)

MInv == OneMap /\ Marked /\ Trailed

\* A pass never runs ahead of the clock.
Past == pc = "idle" => pass.at <= now

\* Outside the writing of a generation, while the sidecar keeps its trail.
LEMMA MarksStay ==
    ASSUME IInv, IInv', MInv, OneMap', pc \notin WriteSteps, pc' \notin WriteSteps,
           sidecar'.checkpoints = sidecar.checkpoints, Items' \subseteq Items,
           now' >= now, After' >= After,
           \A i \in Items \ Items' : i.start < now \/ (pc' \in WipeSteps /\ i.start >= wipe'.cut),
           pc' \in WipeSteps =>
               /\ pc \in WipeSteps => wipe'.cut = wipe.cut /\ wipe'.job = wipe.job
               /\ pc \notin WipeSteps =>
                    \/ \E d \in sidecar.checkpoints : d.start = wipe'.cut
                    \/ wipe'.job = "refresh" /\ \A c \in sidecar.checkpoints : c.start < wipe'.cut,
           pc \in WipeSteps => pc' \in WipeSteps
    PROVE  MInv'
<1>1. gen.items = {} /\ gen'.items = {}
  BY DEF IInv, Laying, NoGen
<1>2. now \in Int /\ now' \in Int /\ After \in Int /\ After' \in Int
  BY DEF After, IInv, TypeOK, WorldOK, MemoryOK
<1>3. (\A i \in Items : i.start \in Int) /\ \A c \in sidecar.checkpoints : c.start \in Int
  BY TimedNow DEF Items, ItemsOnDisk, TimedFolder, TimedItems, Timed, IInv, TypeOK, DiskOK, Map, Trail
<1>4. \A i \in Items' \ gen'.items : i.start > After' => Mark(sidecar'.checkpoints, i)
  BY <1>1, <1>2, <1>3 DEF MInv, Marked
<1>5. ASSUME NEW c \in sidecar.checkpoints
      PROVE  \/ c.start < now'
             \/ \E i \in Items' : i.start = c.start
             \/ pc' \in WipeSteps /\ c.start >= wipe'.cut
  <2>1. CASE c.start < now
    BY <1>2, <1>3, <2>1
  <2>2. CASE \E i \in Items : i.start = c.start
    BY <1>2, <1>3, <2>2
  <2>3. CASE pc \in WipeSteps /\ c.start >= wipe.cut
    BY <2>3
  <2> QED BY <2>1, <2>2, <2>3 DEF MInv, Marked
<1>6. pc' \in WipeSteps =>
        \/ \E d \in sidecar'.checkpoints : d.start = wipe'.cut
        \/ wipe'.job = "refresh" /\ \A c \in sidecar'.checkpoints : c.start < wipe'.cut
  BY DEF MInv, Marked
<1>7. Marked'
  BY <1>4, <1>5, <1>6 DEF MInv, Marked
<1> QED BY <1>7 DEF MInv, Trailed


\* A refresh cuts at the start of an item that has a checkpoint, or behind them all.
LEMMA RefreshMarks ==
    ASSUME IInv, IInv', HInv, MInv, OneMap', UNCHANGED <<files, sidecar, now>>,
           pc \in {"down", "idle"}, After <= now, pass'.at = now,
           StartWipe("refresh", AiringFinish(files, now))
    PROVE  MInv'
<1> DEFINE cut == AiringFinish(files, now)
<1>1. Sound(files, now)
  BY DEF HInv, Kept, Settled
<1>2. gen.items = {}
  BY NothingInHand DEF WriteSteps
<1>3. cut \in Int /\ cut >= now
  BY TimedNow, CutsAfterAiring
<1>4. \A c \in sidecar.checkpoints : c.start \in Int
  BY DEF IInv, TypeOK, DiskOK, Map, Trail
<1>5. \/ \E d \in sidecar.checkpoints : d.start = cut
      \/ \A c \in sidecar.checkpoints : c.start < cut
  <2> SUFFICES ASSUME NEW c \in sidecar.checkpoints, ~ c.start < cut
               PROVE  \E d \in sidecar.checkpoints : d.start = cut
    OBVIOUS
  <2>1. c.start >= cut /\ c.start >= now
    BY <1>3, <1>4, TimedNow
  <2>2. PICK i \in Items : i.start = c.start
    BY <1>4, <2>1, TimedNow DEF MInv, Marked, WipeSteps
  <2>3. i \in ItemsOnDisk(files) /\ i.start >= now /\ i.start >= AiringFinish(files, now)
    BY <2>1, <2>2 DEF Items
  <2>4. PICK k \in ItemsOnDisk(files) : k.start = AiringFinish(files, now) /\ k.start > now
    BY <1>1, <2>3, TimedNow, CutsAtStart
  <2>5. k \in Items /\ k.start > After
    <3>1. After \in Int /\ now \in Int
      BY DEF After, IInv, TypeOK, WorldOK, MemoryOK
    <3> QED BY <1>3, <2>4, <3>1 DEF Items
  <2>6. Mark(sidecar.checkpoints, k)
    BY <1>2, <2>5 DEF MInv, Marked
  <2> QED BY <2>4, <2>6 DEF Mark
<1>6. /\ Items' = Items /\ sidecar'.checkpoints = sidecar.checkpoints /\ now' >= now
      /\ pc' = "wipe" /\ wipe'.cut = cut /\ wipe'.job = "refresh"
  BY DEF Items, StartWipe, IInv, TypeOK, WorldOK
<1>7. After' >= After
  <2>1. After' = now
    BY <1>6 DEF After
  <2>2. After \in Int /\ now \in Int
    BY DEF After, IInv, TypeOK, WorldOK, MemoryOK
  <2> QED BY <2>1, <2>2
<1> HIDE DEF cut
<1> QED BY <1>5, <1>6, <1>7, MarksStay DEF WipeSteps, WriteSteps

\* A step that leaves the folder and the sidecar's trail alone, outside a wipe.
LEMMA MarksRest ==
    ASSUME IInv, IInv', MInv, OneMap', files' = files, sidecar'.checkpoints = sidecar.checkpoints,
           pc \notin WriteSteps \cup WipeSteps, pc' \notin WriteSteps \cup WipeSteps,
           now' >= now, After' >= After
    PROVE  MInv'
<1>1. Items' = Items
  BY DEF Items
<1> QED BY <1>1, MarksStay

LEMMA StartMarks == ASSUME IInv, IInv', HInv, MInv, Start PROVE MInv'
<1>1. /\ pc = "down" /\ pc' \in {"wipe", "config"} /\ resume' = sidecar /\ pass'.at = now
      /\ UNCHANGED <<files, sidecar, now>> /\ now \in Nat
  BY DEF Start, StartWipe, disk, NoPass, IInv, TypeOK, WorldOK
<1>2. OneMap' /\ After = now /\ After' = now
  BY <1>1 DEF OneMap, After, WriteSteps
<1>3. CASE StaleFuture
  <2>1. StartWipe("refresh", AiringFinish(files, now))
    BY <1>3 DEF Start
  <2>2. After <= now
    BY <1>1, <1>2
  <2> QED BY <1>1, <1>2, <2>1, <2>2, RefreshMarks
<1>4. CASE ~ StaleFuture
  <2>1. pc' = "config"
    BY <1>4 DEF Start
  <2>2. now' >= now /\ After' >= After
    BY <1>1, <1>2
  <2> QED BY <1>1, <1>2, <2>1, <2>2, MarksRest DEF WipeSteps, WriteSteps
<1> QED BY <1>3, <1>4

LEMMA RollTickMarks == ASSUME IInv, IInv', HInv, MInv, Past, RollTick PROVE MInv'
<1>1. /\ pc = "idle" /\ pc' \in {"wipe", "sweep"} /\ pass'.at = now
      /\ UNCHANGED <<files, sidecar, now, resume>> /\ now \in Nat /\ pass.at \in Nat
  BY DEF RollTick, StartWipe, disk, NoPass, IInv, TypeOK, WorldOK, MemoryOK
<1>2. OneMap' /\ After = pass.at /\ After' = now /\ pass.at <= now
  BY <1>1 DEF MInv, OneMap, After, WriteSteps, Past
<1>3. CASE marker
  <2>1. StartWipe("refresh", AiringFinish(files, now))
    BY <1>3 DEF RollTick
  <2>2. After <= now
    BY <1>1, <1>2
  <2> QED BY <1>1, <1>2, <2>1, <2>2, RefreshMarks
<1>4. CASE ~ marker
  <2>1. pc' = "sweep"
    BY <1>4 DEF RollTick
  <2>2. now' >= now /\ After' >= After
    BY <1>1, <1>2
  <2> QED BY <1>1, <1>2, <2>1, <2>2, MarksRest DEF WipeSteps, WriteSteps
<1> QED BY <1>3, <1>4

LEMMA AdoptConfigMarks == ASSUME IInv, IInv', MInv, AdoptConfig PROVE MInv'
<1>1. /\ pc = "config" /\ pc' = "repair" /\ UNCHANGED <<files, now, pass>> /\ now \in Nat /\ pass.at \in Nat
  BY DEF AdoptConfig, world, IInv, TypeOK, WorldOK, MemoryOK
<1>2. resume = sidecar /\ resume \in Map
  BY <1>1 DEF MInv, OneMap, IInv, TypeOK, MemoryOK
<1>3. /\ resume' = [resume EXCEPT !.config = seen]
      /\ sidecar' = IF resume.config = seen THEN sidecar ELSE resume'
  BY DEF AdoptConfig
<1>4. resume.config = seen => resume' = resume
  BY <1>2, <1>3 DEF Map
<1>5. resume' = sidecar' /\ sidecar'.checkpoints = sidecar.checkpoints
  BY <1>2, <1>3, <1>4 DEF Map
<1>6. OneMap' /\ now' >= now /\ After' >= After
  BY <1>1, <1>5 DEF OneMap, After, WriteSteps
<1> QED BY <1>1, <1>5, <1>6, MarksRest DEF WipeSteps, WriteSteps

\* A repair cuts at an item that has not begun, so at one with a checkpoint.
LEMMA RepairMarks == ASSUME IInv, IInv', MInv, Repair PROVE MInv'
<1>1. /\ pc = "repair" /\ pc' \in {"sweep", "wipe"} /\ UNCHANGED <<files, now, pass, sidecar, resume>>
      /\ now \in Nat /\ pass.at \in Nat
  BY DEF Repair, StartWipe, world, disk, IInv, TypeOK, WorldOK, MemoryOK
<1>2. OneMap' /\ now' >= now /\ After' >= After /\ After = pass.at
  BY <1>1 DEF MInv, OneMap, After, WriteSteps
<1>3. CASE pc' = "sweep"
  BY <1>1, <1>2, <1>3, MarksRest DEF WipeSteps, WriteSteps
<1>4. ASSUME NEW i \in ItemsOnDisk(files), i.start > pass.at, StartWipe("repair", i.start)
      PROVE  MInv'
  <2>1. gen.items = {}
    BY <1>1, NothingInHand DEF WriteSteps
  <2>2. Mark(sidecar.checkpoints, i)
    BY <1>2, <1>4, <2>1 DEF MInv, Marked, Items
  <2>3. \E d \in sidecar.checkpoints : d.start = i.start
    BY <2>2 DEF Mark
  <2>4. Items' = Items /\ pc' = "wipe" /\ wipe'.cut = i.start
    BY <1>1, <1>4 DEF Items, StartWipe
  <2> QED BY <1>1, <1>2, <2>3, <2>4, MarksStay DEF WipeSteps, WriteSteps
<1> QED BY <1>3, <1>4 DEF Repair

LEMMA WipeMarks == ASSUME IInv, IInv', MInv, TakesBehind PROVE MInv'
<1>1. /\ OneMap' /\ now' >= now /\ After' >= After
  BY DEF TakesBehind, MInv, OneMap, After, WriteSteps, IInv, TypeOK, WorldOK, MemoryOK
<1> QED BY <1>1, MarksStay DEF TakesBehind, WipeSteps, WriteSteps

LEMMA RewindMarks == ASSUME IInv, IInv', HInv, MInv, Rewind PROVE MInv'
<1>1. /\ pc = "wipe" /\ pc' = "forget" /\ wipe'.cut = wipe.cut /\ wipe'.job = wipe.job
      /\ Items' = Items /\ UNCHANGED <<now, sidecar, pass>> /\ resume' = Rewound(resume, wipe.cut)
  BY RewindsToCut DEF disk
<1>2. resume = sidecar
  BY <1>1 DEF MInv, OneMap
<1>3. OneMap' /\ now' >= now /\ After' >= After
  BY <1>1, <1>2 DEF OneMap, After, WriteSteps, IInv, TypeOK, WorldOK, MemoryOK
<1> QED BY <1>1, <1>3, MarksStay DEF WipeSteps, WriteSteps

LEMMA TruncateHistoryMarks == ASSUME IInv, IInv', MInv, TruncateHistory PROVE MInv'
<1>1. /\ pc = "forget" /\ pc' = "keep" /\ Items' = Items /\ UNCHANGED <<now, wipe, sidecar, pass, resume>>
  BY DEF TruncateHistory, world, memory, Items
<1>2. OneMap' /\ now' >= now /\ After' >= After
  BY <1>1 DEF MInv, OneMap, After, WriteSteps, IInv, TypeOK, WorldOK, MemoryOK
<1> QED BY <1>1, <1>2, MarksStay DEF WipeSteps, WriteSteps


\* The sidecar keeps the checkpoint of every item the wipe has left, except where it
\* has left none that had not begun.
LEMMA SaveRewindMarks == ASSUME IInv, IInv', HInv, CInv, LInv, MInv, SaveRewind PROVE MInv'
<1>1. /\ pc = "keep" /\ pc' = AfterWipe /\ Items' = Items /\ UNCHANGED <<now, resume, pass, gen>>
  BY DEF SaveRewind, world, Items
<1>2. wipe.job \in {"refresh", "repair"} /\ pass.phase \in {"startup", "roll"} /\ wipe.cut \in Int
  BY <1>1 DEF HInv, OnTime, IInv, WipeHasJob, WipeSteps, Jobs, TypeOK, MemoryOK
<1>3. pc' \in {"config", "sweep"}
  BY <1>1, <1>2 DEF AfterWipe
<1>4. sidecar' = resume /\ resume = Rewound(sidecar, wipe.cut)
  BY <1>1, <1>2 DEF SaveRewind, OwnMap, MInv, OneMap
<1> DEFINE old == sidecar.checkpoints
           new == sidecar'.checkpoints
<1>5. FiniteMap(sidecar) /\ Ordered(old) /\ \A c \in old : c.start \in Int
  BY DEF FiniteMap, IInv, Finite, TypeOK, DiskOK, MInv, Marked, Map, Trail
<1>6. new \subseteq old
  BY <1>4, <1>5, RewindsBack DEF FiniteMap
<1>7. \/ new = {c \in old : c.start < wipe.cut}
      \/ wipe.job = "refresh" /\ \A c \in old : c.start < wipe.cut
  <2>1. \/ \E d \in old : d.start = wipe.cut
        \/ wipe.job = "refresh" /\ \A c \in old : c.start < wipe.cut
    BY <1>1 DEF MInv, Marked, WipeSteps
  <2>2. ASSUME NEW d \in old, d.start = wipe.cut PROVE new = {c \in old : c.start < wipe.cut}
    BY <1>2, <1>4, <1>5, <2>2, RewindsExactly
  <2> QED BY <2>1, <2>2
<1> HIDE DEF old, new
<1>8. \A c \in new : c \in old /\ c.start < wipe.cut
  BY <1>6, <1>7
<1>9. gen.items = {}
  BY <1>1, NothingInHand DEF WriteSteps
<1>10. \A i \in Items : i.start < wipe.cut /\ i.start \in Int
  <2> TAKE i \in Items
  <2>1. i.finish <= wipe.cut
    BY <1>1 DEF LInv, Emptying
  <2>2. i.start < i.finish /\ i.start \in Int /\ i.finish \in Int
    BY <1>1, TimedNow
       DEF Items, ItemsOnDisk, TimedFolder, TimedItems, Timed, HInv, Kept, Settled, Sound, Tidy
  <2> QED BY <1>2, <2>1, <2>2
<1>11. After = pass.at /\ After' = pass.at /\ pass.at = now /\ now \in Int
  BY <1>1, <1>3 DEF After, HInv, OnTime, IInv, TypeOK, WorldOK
<1>12. ASSUME NEW i \in Items, i.start > pass.at PROVE Mark(new, i)
  <2>1. wipe.job # "refresh"
    BY <1>1, <1>10, <1>11, <1>12 DEF CInv, Refreshing
  <2>2. PICK c \in old : c.start = i.start /\ c.pos = i.pos
    BY <1>9, <1>11, <1>12 DEF MInv, Marked, Mark, old
  <2>3. c \in new
    BY <1>7, <1>10, <2>1, <2>2
  <2> QED BY <2>2, <2>3 DEF Mark
<1>13. \A c \in new : c.start < now \/ \E i \in Items : i.start = c.start
  <2> TAKE c \in new
  <2>1. c.start \in Int /\ c \in old /\ ~ c.start >= wipe.cut
    BY <1>2, <1>5, <1>8
  <2> QED BY <1>1, <2>1 DEF MInv, Marked, old
<1>14. Ordered(new)
  BY <1>5, <1>6 DEF Ordered
<1>15. Marked'
  BY <1>1, <1>3, <1>9, <1>11, <1>12, <1>13, <1>14 DEF Marked, WipeSteps, new
<1>16. OneMap'
  BY <1>1, <1>3, <1>4 DEF OneMap, WriteSteps
<1> QED BY <1>3, <1>15, <1>16 DEF MInv, Trailed, WriteSteps

LEMMA SweepMarks == ASSUME Healthy, IInv, IInv', HInv, HInv', MInv, Sweep PROVE MInv'
<1>1. /\ pc = "sweep" /\ pc' = "heal" /\ wipe' = wipe /\ UNCHANGED <<now, sidecar, resume, gen>>
      /\ work' = resume /\ pass'.at = now /\ Items' \subseteq Items
      /\ \A i \in Items \ Items' : i.start < now
  BY SweepsAged
<1>2. pass.at = now /\ now \in Nat
  BY <1>1 DEF HInv, OnTime, IInv, TypeOK, WorldOK
<1>3. OneMap' /\ now' >= now /\ After' >= After
  BY <1>1, <1>2 DEF MInv, OneMap, After, WriteSteps
<1> QED BY <1>1, <1>3, MarksStay DEF WipeSteps, WriteSteps

LEMMA HealMarks == ASSUME IInv, IInv', HInv, HInv', MInv, Heal PROVE MInv'
<1>1. /\ pc = "heal" /\ UNCHANGED <<files, now, sidecar, resume, work, pass>>
      /\ now \in Nat /\ pass.at \in Nat
  BY DEF Heal, world, disk, IInv, TypeOK, WorldOK, MemoryOK
<1>2. pc' = "plan"
  <2>1. pc' = "plan" \/ wipe'.job = "heal"
    BY DEF Heal, StartWipe
  <2> QED BY <2>1 DEF HInv, OnTime
<1>3. OneMap' /\ now' >= now /\ After' >= After
  BY <1>1, <1>2 DEF MInv, OneMap, After, WriteSteps
<1> QED BY <1>1, <1>2, <1>3, MarksRest DEF WipeSteps, WriteSteps

LEMMA PlanMarks == ASSUME IInv, IInv', MInv, Plan PROVE MInv'
<1>1. /\ pc = "plan" /\ pc' = "generate" /\ UNCHANGED <<files, now, sidecar, resume, work>>
      /\ pass'.at = pass.at /\ now \in Nat /\ pass.at \in Nat
  BY DEF Plan, world, disk, IInv, TypeOK, WorldOK, MemoryOK
<1>2. OneMap' /\ now' >= now /\ After' >= After
  BY <1>1 DEF MInv, OneMap, After, WriteSteps
<1> QED BY <1>1, <1>2, MarksRest DEF WipeSteps, WriteSteps

LEMMA CaughtUpMarks == ASSUME IInv, IInv', MInv, CaughtUp PROVE MInv'
<1>1. /\ pc = "generate" /\ pc' = "idle" /\ resume' = work /\ UNCHANGED <<files, now, sidecar>>
      /\ pass'.at = pass.at /\ now \in Nat /\ pass.at \in Nat
  BY DEF CaughtUp, BackInLoop, disk, NoPass, IInv, TypeOK, WorldOK, MemoryOK
<1>2. OneMap' /\ now' >= now /\ After' >= After
  BY <1>1 DEF MInv, OneMap, After, WriteSteps
<1> QED BY <1>1, <1>2, MarksRest DEF WipeSteps, WriteSteps

LEMMA GoDownMarks == ASSUME Healthy, IInv, IInv', MInv, Past, GoDown PROVE MInv'
<1>1. /\ pc = "idle" /\ pc' = "down" /\ UNCHANGED <<files, now, sidecar>>
      /\ now \in Nat /\ pass.at \in Nat /\ pass.at <= now
  BY DEF GoDown, Healthy, disk, IInv, TypeOK, WorldOK, MemoryOK, Past
<1>2. OneMap' /\ now' >= now /\ After' >= After
  BY <1>1 DEF OneMap, After, WriteSteps
<1> QED BY <1>1, <1>2, MarksRest DEF WipeSteps, WriteSteps

LEMMA WorldMarks ==
    ASSUME Healthy, IInv, MInv, Clock \/ RequestRefresh \/ EditConfig \/ LoseTitle
    PROVE  MInv'
<1>1. UNCHANGED <<disk, memory, pc>> /\ now' >= now /\ now \in Nat /\ now' \in Nat /\ Items' = Items
  BY DEF Clock, RequestRefresh, EditConfig, LoseTitle, IInv, TypeOK, WorldOK, disk, Items
<1>2. now' = now \/ pc = "idle"
  BY DEF Clock, RequestRefresh, EditConfig, LoseTitle, Healthy
<1>3. \A c \in sidecar.checkpoints : c.start \in Int
  BY DEF IInv, TypeOK, DiskOK, Map, Trail
<1>4. \A c \in sidecar.checkpoints : c.start < now => c.start < now'
  BY <1>1, <1>3
<1>5. After' = After
  BY <1>1, <1>2 DEF After, memory
<1>6. Marked'
  BY <1>1, <1>4, <1>5 DEF MInv, Marked, disk, memory
<1> QED BY <1>1, <1>6 DEF MInv, OneMap, Trailed, disk, memory


\* A generation starts behind every checkpoint.
LEMMA GenerateMarks ==
    ASSUME ~ Anchored, Cursor = "position", IInv, HInv, MInv, Generate
    PROVE  MInv'
<1>1. /\ pc = "generate" /\ pc' = "write" /\ Items' = Items
      /\ UNCHANGED <<now, sidecar, resume, pass, wipe>> /\ work' = Checkpointed(work, pass.from)
  BY DEF Generate, world, disk, Items
<1>2. PICK p \in NextPositions(work), n \in GenSizes :
        gen' = Laid(p, n, pass.from, [skip |-> 0, into |-> 0])
  BY DEF Generate
<1>3. work = sidecar
  BY <1>1 DEF MInv, OneMap
<1>4. p = work.pos /\ p \in Titles /\ n \in Nat \ {0} /\ pass.from \in Int
  BY <1>2, PassAssumption DEF NextPositions, IInv, TypeOK, MemoryOK, Map
<1>5. /\ Ordered(gen'.trail)
      /\ \A c \in gen'.trail : c.nth > 0 /\ c.start > pass.from /\ \E i \in gen'.items : i.start = c.start
      /\ \E i \in gen'.items : i.start = pass.from
      /\ \A i \in gen'.items : (i.start = pass.from /\ i.pos = p) \/ Mark(gen'.trail, i)
  BY <1>2, <1>4, LaysTrail
<1>6. gen.items = {}
  BY <1>1, NothingInHand DEF WriteSteps
<1>7. \A c \in sidecar.checkpoints : c.start < pass.from
  <2> TAKE c \in sidecar.checkpoints
  <2>1. c.start < now \/ \E i \in Items : i.start = c.start
    BY <1>1 DEF MInv, Marked, WipeSteps
  <2>2. /\ now <= pass.from /\ now \in Int /\ c.start \in Int
        /\ \A i \in Items : i.start < pass.from
    BY GenerationFollows, TimedNow DEF IInv, TypeOK, DiskOK, Map, Trail
  <2> QED BY <1>4, <2>1, <2>2
<1>8. work'.pos = work.pos
  BY <1>1 DEF Checkpointed, IInv, TypeOK, MemoryOK, Map
<1>9. Trailed'
  BY <1>1, <1>4, <1>5, <1>7, <1>8 DEF Trailed
<1>10. Marked'
  BY <1>1, <1>6 DEF MInv, Marked, After, WipeSteps
<1>11. OneMap'
  BY <1>1, <1>3 DEF OneMap, WriteSteps
<1> QED BY <1>9, <1>10, <1>11 DEF MInv

\* While the generation reaches the disk the sidecar stays what it was.
LEMMA MarksWriting ==
    ASSUME MInv, pc \in WriteSteps, pc' \in WriteSteps,
           Items \subseteq Items', Items' \subseteq Items \cup gen.items,
           gen'.items = gen.items, gen'.trail = gen.trail,
           UNCHANGED <<now, sidecar, resume, work, pass>>
    PROVE  MInv'
<1>1. /\ pc \notin WipeSteps /\ pc' \notin WipeSteps /\ pc # "down" /\ pc' # "down"
      /\ pc' \notin {"heal", "plan", "generate"}
      /\ pc' \notin {"idle", "config", "repair", "sweep", "wipe", "unlink", "forget", "keep"}
  BY DEF WipeSteps, WriteSteps
<1>2. After' = After
  BY <1>1 DEF After
<1>3. OneMap'
  BY <1>1 DEF MInv, OneMap
<1>4. Marked'
  BY <1>1, <1>2 DEF MInv, Marked
<1>5. Trailed'
  BY DEF MInv, Trailed
<1> QED BY <1>3, <1>4, <1>5 DEF MInv

LEMMA WritingMarks ==
    ASSUME Healthy, IInv, HInv, MInv, WriteChunk \/ DropOthers \/ RecordAirings
    PROVE  MInv'
<1>1. CASE WriteChunk
  BY <1>1, WriteChunkAdds, MarksWriting DEF WriteChunk, WriteSteps, world, memory
<1>2. CASE DropOthers
  <2>1. pc = "tidy" /\ pc' \in {"write", "record"} /\ UNCHANGED <<now, sidecar, resume, work, pass>>
    BY <1>2 DEF DropOthers, AfterChunk
  <2> QED BY <1>2, <2>1, DropsNothing, MarksWriting DEF WriteSteps
<1>3. CASE RecordAirings
  BY <1>3, MarksWriting DEF RecordAirings, WriteSteps, Items, world, memory
<1> QED BY <1>1, <1>2, <1>3

\* The sidecar takes the generation's checkpoints with its position.
LEMMA SaveSidecarMarks == ASSUME IInv, MInv, SaveSidecar PROVE MInv'
<1>1. /\ pc = "save" /\ pc' = "generate" /\ Items' = Items /\ UNCHANGED <<now, resume, wipe>>
      /\ gen'.items = {} /\ work' = Adopted(work, gen.pos, gen.trail, pass.at) /\ sidecar' = work'
      /\ pass'.at = pass.at
  BY DEF SaveSidecar, world, Items, NoGen, IInv, TypeOK, MemoryOK
<1> DEFINE old == sidecar.checkpoints
           mid == work.checkpoints
           new == sidecar'.checkpoints
<1>2. work = Checkpointed(sidecar, pass.from) /\ pass.from \in Int /\ pass.at \in Nat
  BY <1>1 DEF MInv, OneMap, WriteSteps, IInv, TypeOK, MemoryOK
<1>3. /\ \A c \in old : c.start < pass.from /\ c.start \in Int
      /\ Ordered(gen.trail)
      /\ \A c \in gen.trail : /\ c.nth > 0 /\ c.start > pass.from /\ c.start \in Int
                              /\ \E i \in gen.items : i.start = c.start
      /\ \E i \in gen.items : i.start = pass.from
      /\ \A i \in gen.items : (i.start = pass.from /\ i.pos = work.pos) \/ Mark(gen.trail, i)
  BY <1>1 DEF MInv, Trailed, WriteSteps, IInv, TypeOK, DiskOK, MemoryOK, Map, Trail
<1>4. FiniteMap(sidecar) /\ FiniteMap(work) /\ Ordered(old)
  BY DEF FiniteMap, IInv, Finite, TypeOK, DiskOK, MemoryOK, MInv, Marked
<1>5. /\ Ordered(mid) /\ work.pos = sidecar.pos /\ old \subseteq mid
      /\ \E c \in mid : c.start = pass.from /\ c.pos = sidecar.pos
      /\ \A c \in mid : c \in old \/ c.start = pass.from
  BY <1>2, <1>3, <1>4, CheckpointsInOrder
<1>6. gen.trail \in SUBSET Trail /\ \A c \in gen.trail : \A d \in mid : d.start < c.start
  <2>1. gen.trail \in SUBSET Trail
    BY DEF IInv, TypeOK, MemoryOK
  <2> HIDE DEF old, mid
  <2>2. \A c \in gen.trail : \A d \in mid : d.start < c.start
    BY <1>2, <1>3, <1>5
  <2> QED BY <2>1, <2>2
<1>7. /\ Ordered(new)
      /\ \A d \in mid : d.start > pass.at => d \in new
      /\ \A c \in new : c \in mid \/ \E d \in gen.trail : c.start = d.start
  BY <1>1, <1>3, <1>4, <1>5, <1>6, AdoptsInOrder
<1>8. \A i : Mark(gen.trail, i) /\ i.start > pass.at => Mark(new, i)
  BY <1>1, <1>3, <1>4, <1>5, <1>6, AdoptsInOrder
<1>9. gen.items \subseteq Items
  BY <1>1 DEF IInv, GenerationOnDisk
<1>10. After = pass.at /\ After' = pass.at
  BY <1>1 DEF After
<1>11. \A i \in Items \ gen.items : i.start > pass.at => Mark(old, i)
  BY <1>10 DEF MInv, Marked
<1>12. \A c \in old : c.start < now \/ \E i \in Items : i.start = c.start
  BY <1>1 DEF MInv, Marked, WipeSteps
<1> HIDE DEF old, mid, new
<1>13. ASSUME NEW i \in Items, i.start > pass.at PROVE Mark(new, i)
  <2>1. CASE i \in gen.items
    <3>1. CASE Mark(gen.trail, i)
      BY <1>8, <1>13, <3>1
    <3>2. CASE i.start = pass.from /\ i.pos = work.pos
      BY <1>5, <1>7, <1>13, <3>2 DEF Mark
    <3> QED BY <1>3, <2>1, <3>1, <3>2
  <2>2. CASE i \notin gen.items
    BY <1>5, <1>7, <1>11, <1>13, <2>2 DEF Mark
  <2> QED BY <2>1, <2>2
<1>14. ASSUME NEW c \in new PROVE c.start < now \/ \E i \in Items : i.start = c.start
  <2>1. c \in old \/ c.start = pass.from \/ \E d \in gen.trail : c.start = d.start
    BY <1>5, <1>7
  <2>2. CASE c \in old
    BY <1>12, <2>2
  <2>3. CASE c.start = pass.from
    BY <1>3, <1>9, <2>3
  <2>4. CASE \E d \in gen.trail : c.start = d.start
    BY <1>3, <1>9, <2>4
  <2> QED BY <2>1, <2>2, <2>3, <2>4
<1>15. Marked'
  BY <1>1, <1>7, <1>10, <1>13, <1>14 DEF Marked, WipeSteps, new
<1>16. OneMap' /\ Trailed'
  BY <1>1 DEF OneMap, Trailed, WriteSteps
<1> QED BY <1>15, <1>16 DEF MInv

LEMMA StepsMark ==
    ASSUME Healthy, ShortOvershoot, ~ Anchored, Cursor = "position",
           IInv, HInv, CInv, LInv, Past, MInv, [Next]_vars
    PROVE  MInv'
<1>1. IInv' /\ HInv'
  BY StepsWell, StepsKeep
<1>2. CASE Task
  <2>1. ~ ZeroLength
    BY NoFault DEF ZeroLength
  <2> QED BY <1>1, <1>2, <2>1, StartMarks, AdoptConfigMarks, RepairMarks, WipeTakes, WipeMarks,
             RewindMarks, TruncateHistoryMarks, SaveRewindMarks, SweepMarks, HealMarks, PlanMarks,
             GenerateMarks, WritingMarks, SaveSidecarMarks, CaughtUpMarks, RollTickMarks
          DEF Task
<1>3. CASE Fail \/ GoDown
  BY <1>1, <1>3, NoFault, GoDownMarks DEF Fail
<1>4. CASE Environment
  BY <1>1, <1>4, NoFault, WorldMarks DEF Environment, LoseFile
<1>5. CASE UNCHANGED vars
  BY <1>5 DEF MInv, OneMap, Marked, Trailed, After, Items, vars, world, disk, memory
<1> QED BY <1>2, <1>3, <1>4, <1>5 DEF Next

LEMMA StepsPast ==
    ASSUME Healthy, IInv, HInv, Past, [Next]_vars
    PROVE  Past'
<1>1. now \in Nat /\ pass.at \in Nat
  BY DEF IInv, TypeOK, WorldOK, MemoryOK
<1>2. CASE CaughtUp
  <2>1. pc = "generate" /\ pass'.at = pass.at /\ now' = now
    BY <1>2 DEF CaughtUp, BackInLoop
  <2> QED BY <1>1, <2>1 DEF Past, HInv, OnTime
<1>3. CASE Clock
  BY <1>1, <1>3 DEF Clock, Past, memory
<1>4. CASE UNCHANGED <<pc, pass, now>>
  BY <1>4 DEF Past
<1>5. CASE pc' # "idle"
  BY <1>5 DEF Past
<1>6. CASE SaveRewind
  <2>1. wipe.job \in Jobs /\ pass.phase \in {"startup", "roll"} /\ pc' = AfterWipe
    BY <1>6 DEF SaveRewind, IInv, WipeHasJob, WipeSteps, TypeOK, MemoryOK
  <2>2. AfterWipe # "idle"
    BY <2>1 DEF AfterWipe, Jobs
  <2> QED BY <1>5, <2>1, <2>2
<1>7. CASE Start \/ RollTick
  <2>1. pc' \in {"wipe", "config", "sweep"}
    BY <1>7 DEF Start, RollTick, StartWipe
  <2> QED BY <1>5, <2>1
<1>8. CASE AdoptConfig \/ Repair \/ Rewind \/ TruncateHistory \/ Sweep \/ Heal \/ Plan \/ Generate
  <2>1. pc' # "idle"
    BY <1>8 DEF AdoptConfig, Repair, Rewind, TruncateHistory, Sweep, Heal, Plan, Generate, StartWipe
  <2> QED BY <1>5, <2>1
<1>9. CASE RemoveFile \/ TruncateFile \/ RemoveTruncated
  <2>1. pc' # "idle"
    BY <1>9 DEF RemoveFile, TruncateFile, RemoveTruncated
  <2> QED BY <1>5, <2>1
<1>10. CASE WriteChunk \/ DropOthers \/ RecordAirings \/ SaveSidecar
  <2>1. pc' # "idle"
    BY <1>10 DEF WriteChunk, DropOthers, AfterChunk, RecordAirings, SaveSidecar
  <2> QED BY <1>5, <2>1
<1>11. CASE ZeroLength \/ Fail \/ LoseFile
  BY <1>11, NoFault DEF ZeroLength, Fail, LoseFile
<1>12. CASE GoDown
  BY <1>5, <1>12 DEF GoDown
<1>13. CASE RequestRefresh \/ EditConfig \/ LoseTitle \/ UNCHANGED vars
  BY <1>4, <1>13 DEF RequestRefresh, EditConfig, LoseTitle, vars, memory, world
<1> QED BY <1>2, <1>3, <1>6, <1>7, <1>8, <1>9, <1>10, <1>11, <1>12, <1>13
        DEF Next, Task, Environment

LEMMA InitMarked == ASSUME Init PROVE Past /\ MInv
BY DEF Init, Past, MInv, OneMap, Marked, Trailed, Ordered, Items, ItemsOnDisk, NoPass, EmptyMap,
       WipeSteps, WriteSteps

\* After every pass the play history has a row for every item on disk and, from the
\* first of them on, no other, and the sidecar a checkpoint, with its list position,
\* for every item that has not aired, so that a repair of any of them can rewind to
\* it (resume.rs:456): for a channel that joins its list at no anchor, whose history
\* also tells of what it joined past (daemon.rs:3464).
THEOREM BooksAgree ==
    ASSUME Healthy, ShortOvershoot, ~ Anchored
    PROVE  Spec => []BooksMatch
<1> DEFINE Inv == /\ IInv /\ HInv /\ CInv /\ LInv /\ Past
                  /\ Cursor = "position" => MInv
<1>1. Init => Inv
  BY InitWell, InitKept, InitConfigured, InitBooked, InitMarked
<1>2. Inv /\ [Next]_vars => Inv'
  BY StepsWell, StepsKeep, StepsConfigure, StepsBook, StepsPast, StepsMark
<1>3. ASSUME Inv PROVE BooksMatch
  <2>1. HistoryMatches
    <3> SUFFICES ASSUME pc = "idle" PROVE HistoryMatches
      BY DEF HistoryMatches, Resting
    <3>1. gen.items = {}
      BY <1>3, NothingInHand DEF WriteSteps
    <3> QED BY <1>3, <3>1 DEF LInv, Ledger, Dropping, Cutting, HistoryMatches
  <2>2. CheckpointEverywhere
    <3> SUFFICES ASSUME pc = "idle", Cursor = "position" PROVE CheckpointEverywhere
      BY DEF CheckpointEverywhere, Resting
    <3>1. gen.items = {}
      BY <1>3, NothingInHand DEF WriteSteps
    <3> QED BY <1>3, <3>1 DEF MInv, Marked, After, Mark, CheckpointEverywhere
  <2> QED BY <2>1, <2>2 DEF BooksMatch
<1>4. Inv => BooksMatch
  BY <1>3
<1> HIDE DEF Inv
<1>5. Spec => []BooksMatch
  BY <1>1, <1>2, <1>4, PTL DEF Spec
<1> QED BY <1>5

-----------------------------------------------------------------------------
(* The endless list *)

\* Every place is so many rounds of the list and so many titles.
LEMMA Rounds ==
    ASSUME NEW b \in Nat
    PROVE  /\ b \div ListLen \in Nat /\ b % ListLen \in 0 .. ListLen - 1
           /\ b = ListLen * (b \div ListLen) + (b % ListLen)
<1>1. ListLen \in Nat /\ ListLen > 0
  BY ListAssumption
<1> QED BY <1>1

\* The list repeats: from a place on it goes as from the title at that place.
LEMMA Repeats ==
    ASSUME NEW a \in Nat, NEW k \in Nat
    PROVE  /\ Title(a) \in Nat /\ Title(a + k) = Title(Title(a) + k)
           /\ Airtime(a + k) - Airtime(a) = Airtime(Title(a) + k) - Airtime(Title(a))
<1> DEFINE T  == At[ListLen]
           d  == a \div ListLen
           t  == a % ListLen
           e  == (t + k) \div ListLen
           u  == (t + k) % ListLen
<1>1. ListLen \in Nat /\ ListLen > 0 /\ At \in [0 .. ListLen -> Nat] /\ At[0] = 0
  BY ListAssumption
<1>2. d \in Nat /\ t \in 0 .. ListLen - 1 /\ a = ListLen * d + t
  BY <1>1
<1>3. t + k \in Nat /\ e \in Nat /\ u \in 0 .. ListLen - 1 /\ t + k = ListLen * e + u
  <2>1. t + k \in Nat
    BY <1>2
  <2> HIDE DEF t
  <2> QED BY <2>1, Rounds
<1>4. a + k = ListLen * (d + e) + u
  <2>1. ListLen * (d + e) = ListLen * d + ListLen * e
    BY <1>1, <1>2, <1>3
  <2> HIDE DEF d, t, e, u
  <2> QED BY <1>1, <1>2, <1>3, <2>1
<1>5. (a + k) \div ListLen = d + e /\ (a + k) % ListLen = u
  <2> HIDE DEF d, t, e, u
  <2>1. d + e \in Nat
    BY <1>2, <1>3
  <2> DEFINE b == a + k
             f == d + e
  <2>2. b \in Nat /\ f \in Nat /\ b = ListLen * f + u /\ u \in 0 .. ListLen - 1
    BY <1>2, <1>3, <1>4, <2>1
  <2>3. b \div ListLen \in Nat /\ b % ListLen \in 0 .. ListLen - 1
        /\ b = ListLen * (b \div ListLen) + (b % ListLen)
    <3> HIDE DEF b
    <3> QED BY <2>2, Rounds
  <2> DEFINE x == b \div ListLen
             y == b % ListLen
  <2> HIDE DEF b, f, x, y
  <2>4. x \in Nat /\ y \in 0 .. ListLen - 1 /\ ListLen * x + y = ListLen * f + u
    BY <2>2, <2>3 DEF x, y
  <2>5. x = f
    <3>1. CASE x < f
      <4>1. x + 1 <= f
        BY <2>2, <2>4, <3>1
      <4>2. ListLen * (x + 1) <= ListLen * f
        BY <1>1, <2>2, <2>4, <4>1
      <4>3. ListLen * (x + 1) = ListLen * x + ListLen
        BY <1>1, <2>4
      <4> QED BY <1>1, <2>2, <2>4, <4>2, <4>3
    <3>2. CASE f < x
      <4>1. f + 1 <= x
        BY <2>2, <2>4, <3>2
      <4>2. ListLen * (f + 1) <= ListLen * x
        BY <1>1, <2>2, <2>4, <4>1
      <4>3. ListLen * (f + 1) = ListLen * f + ListLen
        BY <1>1, <2>2
      <4> QED BY <1>1, <2>2, <2>4, <4>2, <4>3
    <3> QED BY <2>2, <2>4, <3>1, <3>2
  <2>6. y = u
    BY <1>1, <2>2, <2>4, <2>5
  <2> QED BY <2>5, <2>6 DEF x, y, b, f
<1>6. t \div ListLen = 0 /\ t % ListLen = t
  <2> HIDE DEF t
  <2> QED BY <1>1, <1>2
<1>7. Title(a) = t /\ Title(a + k) = u /\ Title(Title(a) + k) = u
  BY <1>5 DEF Title
<1>8. /\ Airtime(a + k) = (d + e) * T + At[u]
      /\ Airtime(a) = d * T + At[t]
      /\ Airtime(t + k) = e * T + At[u]
      /\ Airtime(t) = 0 * T + At[t]
  BY <1>5, <1>6 DEF Airtime
<1>9. T \in Nat /\ At[u] \in Nat /\ At[t] \in Nat
  BY <1>1, <1>2, <1>3
<1> HIDE DEF T, d, t, e, u
<1>10. (d + e) * T = d * T + e * T /\ d * T \in Nat /\ e * T \in Nat /\ 0 * T = 0
  BY <1>2, <1>3, <1>9
<1>11. Airtime(a + k) - Airtime(a) = Airtime(t + k) - Airtime(t)
  BY <1>8, <1>9, <1>10
<1> QED BY <1>2, <1>7, <1>11

\* The title after the one at a place is the one at the next place.
LEMMA GoesOn ==
    ASSUME NEW a \in Nat
    PROVE  Title(a + 1) = Title(Title(a) + 1) /\ (a \in Titles => Title(a) = a)
<1>1. Title(a + 1) = Title(Title(a) + 1)
  BY Repeats
<1>2. ASSUME a \in Titles PROVE Title(a) = a
  BY <1>2, ListAssumption DEF Titles, Title
<1> QED BY <1>1, <1>2

\* Every title takes a unit of time at least.
LEMMA TakesTime ==
    ASSUME NEW a \in Nat, NEW m \in Nat
    PROVE  Airtime(a) + m <= Airtime(a + m)
<1> DEFINE S == {k \in 0 .. m : Airtime(a) + k <= Airtime(a + k)}
           z == Max(S)
<1>1. \A k \in Nat : Airtime(a + k) \in Nat /\ Airtime(a + k) + 1 <= Airtime(a + (k + 1))
  <2> TAKE k \in Nat
  <2>1. a + k \in Nat /\ a + (k + 1) \in Nat /\ a + k < a + (k + 1)
    OBVIOUS
  <2>2. /\ Airtime(a + k) \in Nat /\ Airtime(a + (k + 1)) \in Nat
        /\ Airtime(a + k) < Airtime(a + (k + 1))
    BY <2>1, AirtimeGrows
  <2> QED BY <2>2
<1>2. a + 0 = a /\ Airtime(a) \in Nat /\ 0 \in S
  <2>1. a + 0 = a
    OBVIOUS
  <2>2. Airtime(a + 0) \in Nat
    BY <1>1
  <2> QED BY <2>1, <2>2
<1>3. S \in SUBSET Int /\ IsFiniteSet(S)
  <2>1. IsFiniteSet(0 .. m) /\ S \in SUBSET (0 .. m)
    BY FS_Interval
  <2> HIDE DEF S
  <2>2. IsFiniteSet(S)
    BY <2>1, FS_Subset
  <2> QED BY <2>1, <2>2
<1>4. z \in S /\ \A k \in S : z >= k
  <2> HIDE DEF S
  <2> QED BY <1>2, <1>3, MaxExists
<1>5. z \in 0 .. m /\ Airtime(a) + z <= Airtime(a + z)
  BY <1>4
<1>6. z = m
  <2> SUFFICES ASSUME z # m PROVE FALSE
    OBVIOUS
  <2> HIDE DEF z
  <2>1. z \in Nat /\ z + 1 \in 0 .. m
    BY <1>5
  <2>2. Airtime(a) + (z + 1) <= Airtime(a + (z + 1))
    BY <1>1, <1>2, <1>5, <2>1
  <2>3. z + 1 \in S
    BY <2>1, <2>2
  <2>4. z >= z + 1
    BY <1>4, <2>3
  <2> QED BY <2>1, <2>4
<1> QED BY <1>5, <1>6

\* A finite set of places has a first.
LEMMA MinExists ==
    ASSUME NEW S \in SUBSET Int, IsFiniteSet(S), S # {}
    PROVE  \E a \in S : \A x \in S : a <= x
<1> DEFINE N == {0 - x : x \in S}
           z == Max(N)
           f == [x \in S |-> 0 - x]
<1>1. N \in SUBSET Int /\ N # {} /\ IsFiniteSet(N)
  <2>1. f \in Surjection(S, N)
    BY DEF Surjection
  <2>2. N \in SUBSET Int /\ N # {}
    <3>1. \A x \in S : 0 - x \in Int
      OBVIOUS
    <3>2. PICK x \in S : TRUE
      OBVIOUS
    <3>3. 0 - x \in N
      BY <3>2
    <3>4. \A y \in N : y \in Int
      BY <3>1
    <3> QED BY <3>3, <3>4
  <2> HIDE DEF f, N
  <2> QED BY <2>1, <2>2, FS_Surjection
<1>2. z \in N /\ \A y \in N : z >= y
  <2> HIDE DEF N
  <2> QED BY <1>1, MaxExists
<1>3. PICK a \in S : z = 0 - a
  BY <1>2
<1> HIDE DEF z
<1>4. ASSUME NEW x \in S PROVE a <= x
  <2>1. 0 - x \in N /\ x \in Int /\ a \in Int
    OBVIOUS
  <2>2. 0 - a >= 0 - x
    BY <1>2, <1>3, <2>1
  <2> QED BY <2>1, <2>2
<1> QED BY <1>4

-----------------------------------------------------------------------------
(* The hypothesis, for a channel that keeps its place in the sidecar *)

\* A pass can cover the window, and the item that airs last is still to begin when
\* the next pass is due: a refresh that finds nothing left but the item on screen
\* rewinds to that item's own checkpoint and airs its title again (resume.rs:456).
Reaches(least, most) ==
    /\ \A p \in Nat, n \in GenSizes : Airtime(p + n) - Airtime(p) >= least
    /\ \A p \in Nat : Airtime(p + 1) - Airtime(p) <= most
    /\ MaxGenerations * least >= Window
    /\ RollInterval + most < Window

ReachesAhead == \E least, most \in Nat : Reaches(least, most)

-----------------------------------------------------------------------------
(* The inductive invariant *)

\* The items the line tells of.
Staying == IF wipe.job = "none" THEN Items ELSE {i \in Items : i.finish <= wipe.cut}

\* The list goes on at `pos` after the last of the items S.
Following(S, pos) == \A i \in S : (\A j \in S : j.finish <= i.finish) => pos = Title(i.pos + 1)

\* The items S end where the generation starts.
EndsHere(S) ==
    /\ now <= pass.from /\ \A i \in S : i.finish <= pass.from
    /\ pass.from = now \/ \E i \in S : i.finish = pass.from

\* What a viewer sees of the q-th item of the list, in a generation from p on.
StartOf(p, q)   == pass.from + (Airtime(q) - Airtime(p))
Programme(p, q) == [start |-> StartOf(p, q), finish |-> StartOf(p, q + 1), pos |-> Title(q)]

\* The generation being laid is a stretch of the list that starts where the schedule
\* before it ends, with the title that follows.
Batch(p, n) ==
    /\ {Shown(i) : i \in gen.items} = {Programme(p, q) : q \in p .. p + n - 1}
    /\ gen.to = StartOf(p, p + n)
    /\ Cursor = "position" => gen.pos = Title(p + n)
    /\ Following(Items \ gen.items, p)

\* It reaches the disk up to the end of the chunk that was written last.
Reached(cursor) == \A i \in gen.items : i \in Items <=> i.start < cursor

Extending ==
    /\ pc = "generate" => EndsHere(Items)
    /\ pc \in WriteSteps => /\ EndsHere(Items \ gen.items)
                            /\ \E p \in Titles, n \in GenSizes : Batch(p, n)
    /\ pc = "write" => Reached(gen.cursor)
    /\ pc = "tidy" => Reached(ChunkEnd(gen.cursor))

\* The chunk in which an item ends has it, so it outlives the files before it.
Ended(F, S) == \A i \in S : \E f \in F : f.start = ChunkStart(i.finish - 1) /\ i \in f.items

Written(cursor) == {i \in Items : i \notin gen.items \/ i.finish <= cursor}

Whole ==
    /\ pc \notin {"wipe", "unlink", "write", "tidy"} => Ended(files, Items)
    /\ pc = "wipe" => Ended(files, Staying)
    /\ pc = "unlink" => Ended(files \ wipe.doomed, Staying)
    /\ pc = "write" => Ended(files, Written(gen.cursor))
    /\ pc = "tidy" => Ended(files \ LeftBehind, Written(ChunkEnd(gen.cursor)))

TInv == Extending /\ Whole

\* Of a channel with a position: items that meet are neighbours in the list; the
\* sidecar says, or will once the running wipe has rewound it, where the list goes on;
\* and there is always something left to begin.
InTurn == \A i, j \in Items \cup gen.items : i.finish = j.start => j.pos = Title(i.pos + 1)

NextPos == IF wipe.job = "none" THEN sidecar.pos ELSE Rewound(sidecar, wipe.cut).pos
KnowsNext == pc \notin WriteSteps => Following(Staying, NextPos)

Ahead(least, most) ==
    /\ \A i \in Items \cup gen.items : i.finish - i.start <= most
    /\ pc = "idle" => now <= tickAt /\ \E i \in Items : i.start > tickAt
    /\ pc = "down" => Items = {} \/ \E i \in Items : i.start > now
    /\ pass.phase = "roll" /\ pc # "idle" => tickAt = pass.at + RollInterval
    /\ pc \in {"generate"} \cup WriteSteps => pass.from >= pass.at + least * pass.generations
    /\ pc \in WriteSteps => gen.to >= pass.from + least

PInv(least, most) == InTurn /\ KnowsNext /\ Ahead(least, most)

-----------------------------------------------------------------------------
(* Steps of the line *)

LEMMA LineShows == Line = {Shown(i) : i \in Staying}
BY DEF Line, Staying

LEMMA ItemsAre == ASSUME IInv PROVE Items \subseteq Item /\ gen.items \subseteq Item /\ now \in Nat /\ wipe.cut \in Int
BY DEF IInv, TypeOK, WorldOK, DiskOK, MemoryOK, Items, ItemsOnDisk, File

LEMMA StandsStill ==
    ASSUME now' = now, Staying' = Staying
    PROVE  UNCHANGED <<now, Line>>
<1>1. Line' = {Shown(i) : i \in Staying'}
  BY DEF Line, Staying, Shown, Items, ItemsOnDisk
<1> QED BY <1>1, LineShows

\* The line is taken back to an instant.
LEMMA IsTakenBack ==
    ASSUME now' = now, NEW t, t = now \/ \E i \in Staying : i.finish = t,
           \A i \in Staying : i.start <= now => i.finish <= t,
           Staying' = {i \in Staying : i.finish <= t}
    PROVE  Promise!Next
<1>1. Line' = {Shown(i) : i \in Staying'}
  BY DEF Line, Staying, Shown, Items, ItemsOnDisk
<1>2. Line' = {x \in Line : x.finish <= t}
  BY <1>1, LineShows DEF Shown
<1>3. t \in {now} \cup {x.finish : x \in Line}
  <2>1. \A i \in Staying : Shown(i) \in Line /\ Shown(i).finish = i.finish
    BY LineShows DEF Shown
  <2>2. ASSUME NEW i \in Staying, i.finish = t PROVE t \in {x.finish : x \in Line}
    BY <2>1, <2>2
  <2> QED BY <2>2
<1>4. \A x \in Line : x.start <= now => x.finish <= t
  BY LineShows DEF Shown
<1> QED BY <1>2, <1>3, <1>4 DEF Promise!Next, Promise!TakeBack

\* Some of it is forgotten.
LEMMA IsForgotten ==
    ASSUME now' = now, Staying' \subseteq Staying,
           \A i \in Staying \ Staying' : i.finish < now - Retention
    PROVE  Promise!Next
<1>1. Line' = {Shown(i) : i \in Staying'}
  BY DEF Line, Staying, Shown, Items, ItemsOnDisk
<1>2. Line' \in SUBSET Line
  BY <1>1, LineShows
<1>3. \A x \in Line \ Line' : x.finish < now - Retention
  BY <1>1, LineShows DEF Shown
<1> QED BY <1>2, <1>3 DEF Promise!Next, Promise!Forget

\* The wipes cut where an item ends, unless there is none before the cut ahead.
LEMMA EndsAtCut ==
    ASSUME NEW F, TimedFolder(F), NEW t0 \in Int, NEW cut \in Int, CutAt(F, t0, cut), t0 < cut,
           NEW i \in ItemsOnDisk(F), i.start >= cut, Sound(F, t0)
    PROVE  \E k \in ItemsOnDisk(F) : k.finish = cut
<1>1. i.start \in Int /\ i.finish \in Int /\ i.start < i.finish
  BY DEF TimedFolder, TimedItems, Timed, ItemsOnDisk, Sound, Tidy
<1>2. cut - 1 \in Int /\ t0 <= cut - 1 /\ cut - 1 < i.finish
  BY <1>1
<1>3. Holds(F, cut - 1)
  BY <1>2 DEF Sound
<1>4. PICK f \in F : \E k \in f.items : k.start <= cut - 1 /\ cut - 1 < k.finish
  BY <1>3 DEF Holds, Spans
<1>5. PICK k \in f.items : k.start <= cut - 1 /\ cut - 1 < k.finish
  BY <1>4
<1>6. k \in ItemsOnDisk(F) /\ k.start \in Int /\ k.finish \in Int
  BY <1>5 DEF ItemsOnDisk, TimedFolder, TimedItems, Timed
<1>7. k.finish <= cut \/ k.start >= cut
  BY <1>6 DEF CutAt
<1>8. k.finish = cut
  BY <1>5, <1>6, <1>7
<1> QED BY <1>6, <1>8

\* A refresh takes back what has not begun.
LEMMA RefreshTakesBack ==
    ASSUME IInv, HInv, pc \in Settled, wipe.job = "none", UNCHANGED <<files, now>>,
           StartWipe("refresh", AiringFinish(files, now))
    PROVE  Promise!Next
<1> DEFINE t    == AiringFinish(files, now)
           near == {f \in files : f.start <= now /\ f.finish >= now}
           S    == {j \in ItemsOnDisk(near) : j.start <= now}
<1>1. t = Max({now} \cup Finishes(S))
  BY DEF AiringFinish, Finishes
<1>2. near \in SUBSET files /\ S \in SUBSET ItemsOnDisk(near) /\ S \subseteq Items
  BY DEF ItemsOnDisk, Items
<1>3. TimedItems(S) /\ now \in Int
  <2> HIDE DEF near, S
  <2> QED BY <1>2, TimedNow, SomeItems
<1>4. t = now \/ \E i \in S : t = i.finish
  <2> HIDE DEF S, t
  <2> QED BY <1>1, <1>3, LatestFinish
<1>5. CutAt(files, now, t)
  BY TimedNow, CutsBehindScreen DEF HInv, Kept
<1>6. Staying = Items /\ Staying' = {i \in Items : i.finish <= t}
  BY DEF Staying, StartWipe, Items
<1> HIDE DEF t, S
<1>7. \A i \in Items : i.start <= now => i.finish <= t
  <2>1. \A i \in Items : i.start \in Int
    BY ItemsAre DEF Item
  <2> QED BY <1>3, <1>5, <2>1 DEF CutAt, Items
<1> QED BY <1>2, <1>4, <1>6, <1>7, IsTakenBack

\* A repair takes back the lost title and all that comes after it.
LEMMA RepairTakesBack ==
    ASSUME IInv, HInv, pc = "repair", wipe.job = "none", UNCHANGED <<files, now>>,
           NEW i \in Items, i.start > now, StartWipe("repair", i.start)
    PROVE  Promise!Next
<1>1. Sound(files, now) /\ TimedFolder(files) /\ now \in Int /\ i \in ItemsOnDisk(files)
  BY TimedNow DEF HInv, Kept, Settled, Items
<1>2. CutAt(files, now, i.start)
  BY <1>1, CutsBefore
<1>3. \A j \in Items : j.start \in Int /\ j.finish \in Int
  BY ItemsAre DEF Item
<1>4. \E k \in Items : k.finish = i.start
  <2>1. i.start \in Int /\ now < i.start /\ i.start >= i.start
    BY <1>1, <1>3
  <2> QED BY <1>1, <1>2, <2>1, EndsAtCut DEF Items
<1>5. Staying = Items /\ Staying' = {j \in Items : j.finish <= i.start}
  BY DEF Staying, StartWipe, Items
<1>6. \A j \in Items : j.start <= now => j.finish <= i.start
  BY <1>1, <1>2, <1>3 DEF CutAt, Items
<1> QED BY <1>4, <1>5, <1>6, IsTakenBack

-----------------------------------------------------------------------------
(* A chunk extends the line *)

\* A stretch of a generation goes on from its first title as the list does.
LEMMA Stretch ==
    ASSUME NEW p \in Nat, NEW a \in Nat, NEW z \in Nat, a <= z, pass.from \in Int
    PROVE  {Programme(p, q) : q \in a .. z}
               = Promise!Programmes(Title(a), z - a + 1, Programme(p, a).start)
<1> DEFINE b    == Title(a)
           m    == z - a + 1
           f    == Programme(p, a).start
           P(r) == [start  |-> f + (Airtime(r) - Airtime(b)),
                    finish |-> f + (Airtime(r + 1) - Airtime(b)),
                    pos    |-> Title(r)]
<1>1. Promise!Programmes(b, m, f) = {P(r) : r \in b .. b + m - 1}
  BY DEF Promise!Programmes
<1>2. b \in Nat /\ m \in Nat /\ m >= 1 /\ f = pass.from + (Airtime(a) - Airtime(p))
  BY Repeats DEF Programme, StartOf
<1>3. \A q \in Nat : Airtime(q) \in Nat
  BY AirtimeGrows
<1>4. ASSUME NEW k \in Nat PROVE P(b + k) = Programme(p, a + k)
  <2>1. /\ Title(a + k) = Title(b + k)
        /\ Airtime(a + k) - Airtime(a) = Airtime(b + k) - Airtime(b)
    BY Repeats
  <2>2. Airtime(a + (k + 1)) - Airtime(a) = Airtime(b + (k + 1)) - Airtime(b)
    <3>1. k + 1 \in Nat
      OBVIOUS
    <3> QED BY <3>1, Repeats
  <2>3. a + (k + 1) = a + k + 1 /\ b + (k + 1) = b + k + 1
        /\ {a + k, b + k, a + k + 1, b + k + 1, a, b, p} \subseteq Nat
    BY <1>2
  <2>4. /\ Airtime(a + k) \in Nat /\ Airtime(b + k) \in Nat
        /\ Airtime(a + k + 1) \in Nat /\ Airtime(b + k + 1) \in Nat
        /\ Airtime(a) \in Nat /\ Airtime(b) \in Nat /\ Airtime(p) \in Nat
    BY <1>3, <2>3
  <2>5. f + (Airtime(b + k) - Airtime(b)) = pass.from + (Airtime(a + k) - Airtime(p))
    BY <1>2, <2>1, <2>4
  <2>6. f + (Airtime(b + k + 1) - Airtime(b)) = pass.from + (Airtime(a + k + 1) - Airtime(p))
    BY <1>2, <2>2, <2>3, <2>4
  <2> HIDE DEF b, f
  <2> QED BY <2>1, <2>5, <2>6 DEF Programme, StartOf
<1> HIDE DEF P, b, f
<1>5. ASSUME NEW q \in a .. z PROVE Programme(p, q) \in {P(r) : r \in b .. b + m - 1}
  <2>1. q - a \in Nat /\ b + (q - a) \in b .. b + m - 1 /\ a + (q - a) = q
    BY <1>2
  <2>2. P(b + (q - a)) = Programme(p, q)
    BY <1>4, <2>1
  <2> QED BY <2>1, <2>2
<1>6. ASSUME NEW r \in b .. b + m - 1 PROVE P(r) \in {Programme(p, q) : q \in a .. z}
  <2>1. r - b \in Nat /\ a + (r - b) \in a .. z /\ b + (r - b) = r
    BY <1>2
  <2>2. P(r) = Programme(p, a + (r - b))
    BY <1>4, <2>1
  <2> QED BY <2>1, <2>2
<1>7. {Programme(p, q) : q \in a .. z} = {P(r) : r \in b .. b + m - 1}
  BY <1>5, <1>6
<1> QED BY <1>1, <1>7 DEF b, f

LEMMA StretchRuns ==
    ASSUME NEW p \in Nat, pass.from \in Int
    PROVE  /\ \A q \in Nat : StartOf(p, q) \in Int
           /\ \A q, r \in Nat : q < r => StartOf(p, q) < StartOf(p, r)
           /\ \A q, r \in Nat : q <= r => StartOf(p, q) <= StartOf(p, r)
           /\ StartOf(p, p) = pass.from
           /\ \A q, k \in Nat : StartOf(p, q) + k <= StartOf(p, q + k)
<1>1. \A q \in Nat : Airtime(q) \in Nat
  BY AirtimeGrows
<1>2. \A q, r \in Nat : q < r => StartOf(p, q) < StartOf(p, r)
  BY <1>1, AirtimeGrows DEF StartOf
<1>3. ASSUME NEW q \in Nat, NEW k \in Nat PROVE StartOf(p, q) + k <= StartOf(p, q + k)
  <2>1. Airtime(q) + k <= Airtime(q + k) /\ q + k \in Nat
    BY TakesTime
  <2>2. Airtime(q) \in Nat /\ Airtime(q + k) \in Nat /\ Airtime(p) \in Nat
    BY <1>1, <2>1
  <2> QED BY <2>1, <2>2 DEF StartOf
<1>4. (\A q \in Nat : StartOf(p, q) \in Int) /\ StartOf(p, p) = pass.from
  BY <1>1 DEF StartOf
<1>5. ASSUME NEW q \in Nat, NEW r \in Nat, q <= r PROVE StartOf(p, q) <= StartOf(p, r)
  <2>1. r - q \in Nat /\ q + (r - q) = r
    BY <1>5
  <2>2. StartOf(p, q) + (r - q) <= StartOf(p, r)
    BY <1>3, <2>1
  <2> QED BY <1>4, <2>1, <2>2
<1> QED BY <1>2, <1>3, <1>4, <1>5

\* A generation is what its batch says, item by item.
LEMMA BatchIs ==
    ASSUME IInv, NEW p \in Titles, NEW n \in GenSizes, Batch(p, n)
    PROVE  /\ p \in Nat /\ n \in Nat \ {0} /\ pass.from \in Int /\ Title(p) = p
           /\ \A i \in gen.items : \E q \in p .. p + n - 1 : Shown(i) = Programme(p, q)
           /\ \A q \in p .. p + n - 1 : \E i \in gen.items : Shown(i) = Programme(p, q)
           /\ \A i, q : Shown(i) = Programme(p, q) =>
                  i.start = StartOf(p, q) /\ i.finish = StartOf(p, q + 1) /\ i.pos = Title(q)
<1>1. p \in Nat /\ n \in Nat \ {0} /\ pass.from \in Int
  BY PassAssumption, ListAssumption DEF Titles, IInv, TypeOK, MemoryOK
<1>2. Title(p) = p
  BY <1>1, GoesOn
<1>3. {Shown(i) : i \in gen.items} = {Programme(p, q) : q \in p .. p + n - 1}
  BY DEF Batch
<1>4. ASSUME NEW i \in gen.items PROVE \E q \in p .. p + n - 1 : Shown(i) = Programme(p, q)
  <2>1. Shown(i) \in {Shown(j) : j \in gen.items}
    OBVIOUS
  <2> QED BY <1>3, <2>1
<1>5. ASSUME NEW q \in p .. p + n - 1 PROVE \E i \in gen.items : Shown(i) = Programme(p, q)
  <2>1. Programme(p, q) \in {Programme(p, r) : r \in p .. p + n - 1}
    OBVIOUS
  <2> QED BY <1>3, <2>1
<1>6. \A i, q : Shown(i) = Programme(p, q) =>
        i.start = StartOf(p, q) /\ i.finish = StartOf(p, q + 1) /\ i.pos = Title(q)
  BY DEF Shown, Programme
<1> QED BY <1>1, <1>2, <1>4, <1>5, <1>6

\* A chunk adds what starts before its end.
LEMMA ChunkAdds ==
    ASSUME IInv, HInv, TInv, WriteChunk
    PROVE  /\ Items' = Items \cup {i \in gen.items : gen.cursor <= i.start /\ i.start < ChunkEnd(gen.cursor)}
           /\ \A i \in gen.items : i \in Items' <=> i.start < ChunkEnd(gen.cursor)
<1>1. pc = "write" /\ Items' = Items \cup ChunkItems
  BY WriteChunkAdds DEF WriteChunk
<1>2. \A i \in gen.items : i \in Items <=> i.start < gen.cursor
  BY <1>1 DEF TInv, Extending, Reached
<1>3. gen.cursor \in Int /\ \A i \in gen.items : i.start \in Int /\ i.finish \in Int /\ i.start < i.finish
  BY DEF IInv, TypeOK, MemoryOK, Laying, Item
<1>4. gen.cursor < ChunkEnd(gen.cursor) /\ ChunkEnd(gen.cursor) \in Int
  BY <1>3, ChunkGrid
<1>5. \A i \in gen.items :
        i \in ChunkItems <=> i.start < ChunkEnd(gen.cursor) /\ i.finish > gen.cursor
  BY DEF ChunkItems, ItemsCovering
<1>6. ChunkItems \subseteq gen.items
  BY DEF ChunkItems, ItemsCovering
<1> HIDE DEF ChunkItems
<1>7. \A i \in gen.items : i \in Items' <=> i.start < ChunkEnd(gen.cursor)
  BY <1>1, <1>2, <1>3, <1>4, <1>5
<1>8. Items' = Items \cup {i \in gen.items : gen.cursor <= i.start /\ i.start < ChunkEnd(gen.cursor)}
  BY <1>1, <1>2, <1>3, <1>5, <1>6
<1> QED BY <1>7, <1>8

\* The stretch of the batch that starts in the chunk, if any of it does, is added at
\* the end of the line with the title that comes next.
LEMMA ChunkExtends ==
    ASSUME IInv, HInv, CInv, TInv, WriteChunk
    PROVE  Promise!Next \/ UNCHANGED <<now, Line>>
<1>1. pc = "write" /\ UNCHANGED <<now, wipe, gen, pass>>
  BY DEF WriteChunk, world, memory
<1>2. wipe.job = "none" /\ Staying = Items /\ Staying' = Items'
  BY <1>1 DEF CInv, Refreshing, WipeSteps, Staying, Items
<1>3. PICK p \in Titles, n \in GenSizes : Batch(p, n)
  BY <1>1 DEF TInv, Extending, WriteSteps
<1>4. p \in Nat /\ n \in Nat \ {0} /\ pass.from \in Int /\ Title(p) = p
  BY <1>3, BatchIs
<1> DEFINE cursor == gen.cursor
           to     == ChunkEnd(cursor)
           S      == {q \in p .. p + n - 1 : cursor <= StartOf(p, q) /\ StartOf(p, q) < to}
<1>5. cursor \in Int /\ to \in Int /\ to <= cursor + ChunkLen /\ ChunkLen \in Nat
  <2>1. cursor \in Int
    BY DEF IInv, TypeOK, MemoryOK
  <2> QED BY <2>1, ChunkGrid, ChunkLenAssumption DEF ChunkEnd
<1>6. /\ \A q \in Nat : StartOf(p, q) \in Int
      /\ \A q, r \in Nat : q <= r => StartOf(p, q) <= StartOf(p, r)
      /\ StartOf(p, p) = pass.from
      /\ \A q, k \in Nat : StartOf(p, q) + k <= StartOf(p, q + k)
  BY <1>4, StretchRuns
<1>7. /\ \A i \in gen.items : \E q \in p .. p + n - 1 : Shown(i) = Programme(p, q)
      /\ \A q \in p .. p + n - 1 : \E i \in gen.items : Shown(i) = Programme(p, q)
      /\ \A i, q : Shown(i) = Programme(p, q) =>
             i.start = StartOf(p, q) /\ i.finish = StartOf(p, q + 1) /\ i.pos = Title(q)
  BY <1>3, BatchIs
<1>8. Items' = Items \cup {i \in gen.items : cursor <= i.start /\ i.start < to}
  BY ChunkAdds
<1>9. \A i \in gen.items : i \in Items <=> i.start < cursor
  BY <1>1 DEF TInv, Extending, Reached
<1>10. /\ now <= pass.from /\ \A i \in Items \ gen.items : i.finish <= pass.from
       /\ pass.from = now \/ \E i \in Items \ gen.items : i.finish = pass.from
       /\ Following(Items \ gen.items, p)
  BY <1>1, <1>3 DEF TInv, Extending, EndsHere, WriteSteps, Batch
<1> HIDE DEF to
<1>11. Line' = Line \cup {Programme(p, q) : q \in S}
  <2>1. Line' = {Shown(i) : i \in Items'}
    BY <1>2 DEF Line, Staying, Shown, Items, ItemsOnDisk
  <2>2. Line = {Shown(i) : i \in Items}
    BY <1>2, LineShows
  <2>3. ASSUME NEW i \in gen.items, cursor <= i.start, i.start < to
        PROVE  Shown(i) \in {Programme(p, q) : q \in S}
    <3>1. PICK q \in p .. p + n - 1 : Shown(i) = Programme(p, q)
      BY <1>7
    <3>2. i.start = StartOf(p, q)
      BY <1>7, <3>1
    <3>3. q \in S
      BY <2>3, <3>2
    <3> QED BY <3>1, <3>3
  <2>4. ASSUME NEW q \in S PROVE Programme(p, q) \in Line'
    <3>1. PICK i \in gen.items : Shown(i) = Programme(p, q)
      BY <1>7
    <3>2. i.start = StartOf(p, q)
      BY <1>7, <3>1
    <3>3. i \in Items'
      BY <1>8, <3>2
    <3> QED BY <2>1, <3>1, <3>3
  <2> HIDE DEF S
  <2> QED BY <1>8, <2>1, <2>2, <2>3, <2>4
<1>12. CASE S = {}
  BY <1>1, <1>11, <1>12
<1>13. CASE S # {}
  <2>1. S \in SUBSET Int /\ IsFiniteSet(S) /\ S \in SUBSET (p .. p + n - 1)
    <3>1. IsFiniteSet(p .. p + n - 1) /\ S \in SUBSET (p .. p + n - 1)
      BY <1>4, FS_Interval
    <3> HIDE DEF S
    <3>2. IsFiniteSet(S)
      BY <3>1, FS_Subset
    <3>3. S \in SUBSET Int
      BY <1>4, <3>1
    <3> QED BY <3>1, <3>2, <3>3
  <2>2. PICK a \in S : \A q \in S : a <= q
    <3> HIDE DEF S
    <3> QED BY <1>13, <2>1, MinExists
  <2>3. PICK z \in S : \A q \in S : z >= q
    <3> HIDE DEF S
    <3> QED BY <1>13, <2>1, MaxExists
  <2>4. a \in Nat /\ z \in Nat /\ p <= a /\ a <= z /\ z <= p + n - 1
    BY <1>4, <2>1, <2>2, <2>3
  <2>5. cursor <= StartOf(p, a) /\ StartOf(p, a) < to /\ cursor <= StartOf(p, z) /\ StartOf(p, z) < to
        /\ StartOf(p, a) \in Int /\ StartOf(p, z) \in Int
    BY <1>6, <2>2, <2>3, <2>4
  <2>6. S = a .. z
    <3>1. ASSUME NEW q \in a .. z PROVE q \in S
      <4>1. q \in Nat /\ a <= q /\ q <= z /\ q \in p .. p + n - 1
        <5> HIDE DEF S
        <5> QED BY <1>4, <2>4
      <4>2. StartOf(p, a) <= StartOf(p, q) /\ StartOf(p, q) <= StartOf(p, z) /\ StartOf(p, q) \in Int
        <5> HIDE DEF S
        <5> QED BY <1>6, <2>4, <4>1
      <4>3. cursor <= StartOf(p, q) /\ StartOf(p, q) < to
        <5> HIDE DEF cursor
        <5> QED BY <1>5, <2>5, <4>1, <4>2
      <4> QED BY <4>1, <4>3
    <3>2. ASSUME NEW q \in S PROVE q \in a .. z
      BY <2>1, <2>2, <2>3, <2>4, <3>2
    <3> QED BY <3>1, <3>2
  <2> HIDE DEF S
  <2>7. z - a + 1 \in 1 .. ChunkLen + 1
    <3>1. z - a \in Nat /\ a + (z - a) = z
      BY <2>4
    <3>2. StartOf(p, a) + (z - a) <= StartOf(p, z)
      BY <1>6, <2>4, <3>1
    <3> HIDE DEF cursor
    <3>3. z - a <= ChunkLen
      BY <1>5, <2>5, <3>1, <3>2
    <3> QED BY <1>5, <3>1, <3>3
  <2>8. pass.from <= StartOf(p, a)
    BY <1>4, <1>6, <2>4
  <2>9. \A i \in Items : i.finish <= StartOf(p, a) /\ i.finish \in Int
    <3> TAKE i \in Items
    <3>1. i.finish \in Int
      BY ItemsAre DEF Item
    <3>2. CASE i \notin gen.items
      BY <1>4, <1>10, <2>5, <2>8, <3>1, <3>2
    <3>3. CASE i \in gen.items
      <4>1. PICK q \in p .. p + n - 1 : Shown(i) = Programme(p, q)
        BY <1>7, <3>3
      <4>2. i.start = StartOf(p, q) /\ i.finish = StartOf(p, q + 1) /\ q \in Nat /\ q + 1 \in Nat
        <5>1. q \in Nat /\ q + 1 \in Nat
          BY <1>4
        <5> QED BY <1>7, <4>1, <5>1
      <4>3. StartOf(p, q) < cursor
        BY <1>9, <3>3, <4>2
      <4>4. q < a
        <5> SUFFICES ASSUME a <= q PROVE FALSE
          BY <2>4, <4>2
        <5>1. StartOf(p, a) <= StartOf(p, q)
          BY <1>6, <2>4, <2>5, <4>2
        <5> HIDE DEF cursor
        <5> QED BY <1>5, <1>6, <2>5, <4>2, <4>3, <5>1
      <4>5. q + 1 <= a
        BY <2>4, <4>2, <4>4
      <4>6. StartOf(p, q + 1) <= StartOf(p, a)
        BY <1>6, <2>4, <2>5, <4>2, <4>5
      <4> QED BY <3>1, <4>2, <4>6
    <3> QED BY <3>2, <3>3
  <2>10. ASSUME a # p
         PROVE  \E i \in Items : i.finish = StartOf(p, a) /\ i.pos = Title(a - 1)
    <3>1. a - 1 \in Nat /\ a - 1 \in p .. p + n - 1 /\ a - 1 <= a /\ a - 1 + 1 = a
      BY <1>4, <2>4, <2>10
    <3>2. PICK i \in gen.items : Shown(i) = Programme(p, a - 1)
      BY <1>7, <3>1
    <3>3. i.start = StartOf(p, a - 1) /\ i.finish = StartOf(p, a) /\ i.pos = Title(a - 1)
      BY <1>7, <3>1, <3>2
    <3>4. StartOf(p, a - 1) \in Int /\ StartOf(p, a - 1) <= StartOf(p, a)
      BY <1>6, <2>4, <3>1
    <3>5. StartOf(p, a - 1) < cursor
      <4> SUFFICES ASSUME cursor <= StartOf(p, a - 1) PROVE FALSE
        BY <1>5, <3>4
      <4>1. StartOf(p, a - 1) < to
        BY <1>5, <2>5, <3>4
      <4>2. a - 1 \in S
        BY <3>1, <4>1 DEF S
      <4>3. a <= a - 1
        BY <2>2, <4>2
      <4> QED BY <2>4, <4>3
    <3>6. i \in Items
      BY <1>9, <3>3, <3>5
    <3> QED BY <3>3, <3>6
  <2>11. ASSUME a = p
         PROVE  Items \ gen.items = Items
    <3>1. ASSUME NEW i \in gen.items PROVE i \notin Items
      <4>1. PICK q \in p .. p + n - 1 : Shown(i) = Programme(p, q)
        BY <1>7
      <4>2. q \in Nat /\ a <= q
        BY <1>4, <2>11
      <4>3. i.start = StartOf(p, q) /\ StartOf(p, q) \in Int /\ StartOf(p, a) <= StartOf(p, q)
        BY <1>6, <1>7, <2>4, <4>1, <4>2
      <4>4. ~ i.start < cursor
        BY <1>5, <2>5, <4>3
      <4> QED BY <1>9, <4>4
    <3> QED BY <3>1
  <2>12. TimedItems(Items) /\ now \in Int
    <3>1. TimedFolder(files) /\ now \in Int /\ files \in SUBSET files /\ Items \in SUBSET ItemsOnDisk(files)
      BY TimedNow DEF Items
    <3> QED BY <3>1, SomeItems
  <2>13. Promise!End = StartOf(p, a)
    <3> DEFINE M == Max({now} \cup Finishes(Items))
    <3>1. {x.finish : x \in Line} = Finishes(Items)
      <4>1. Line = {Shown(i) : i \in Items} /\ \A i \in Items : Shown(i).finish = i.finish
        BY <1>2, LineShows DEF Shown
      <4>2. ASSUME NEW i \in Items PROVE i.finish \in {x.finish : x \in Line}
        <5>1. Shown(i) \in Line /\ Shown(i).finish = i.finish
          BY <4>1
        <5> QED BY <5>1
      <4>3. ASSUME NEW x \in Line PROVE x.finish \in Finishes(Items)
        BY <4>1 DEF Finishes
      <4> QED BY <4>2, <4>3 DEF Finishes
    <3>2. Promise!End = M
      BY <3>1 DEF Promise!End, Promise!Max, Max
    <3>3. /\ M \in Int /\ M >= now /\ \A i \in Items : M >= i.finish
          /\ M = now \/ \E i \in Items : M = i.finish
      BY <2>12, LatestFinish
    <3> HIDE DEF M
    <3>4. M <= StartOf(p, a)
      BY <1>4, <1>10, <2>5, <2>8, <2>9, <2>12, <3>3
    <3>5. CASE a # p
      <4>1. PICK i \in Items : i.finish = StartOf(p, a)
        BY <2>10, <3>5
      <4>2. M >= StartOf(p, a)
        BY <3>3, <4>1
      <4> QED BY <2>5, <3>2, <3>3, <3>4, <4>2
    <3>6. CASE a = p
      <4>1. StartOf(p, a) = now \/ \E i \in Items : i.finish = StartOf(p, a)
        BY <1>6, <1>10, <3>6
      <4>2. M >= StartOf(p, a)
        BY <3>3, <4>1
      <4> QED BY <2>5, <3>2, <3>3, <3>4, <4>2
    <3> QED BY <3>5, <3>6
  <2>14. Title(a) \in Promise!NextTitles
    <3>1. Promise!NextTitles =
            IF Line = {} THEN Titles
            ELSE {Title(i.pos + 1) : i \in {j \in Line : \A k \in Line : k.finish <= j.finish}}
      BY DEF Promise!NextTitles
    <3>2. CASE Line = {}
      BY <2>4, <3>1, <3>2, Folded
    <3>3. CASE Line # {}
      <4>1. PICK i \in Items : (\A k \in Items : k.finish <= i.finish) /\ Title(a) = Title(i.pos + 1)
        <5>1. CASE a # p
          <6>1. PICK i \in Items : i.finish = StartOf(p, a) /\ i.pos = Title(a - 1)
            BY <2>10, <5>1
          <6>2. a - 1 \in Nat /\ a - 1 + 1 = a
            BY <1>4, <2>4, <5>1
          <6>3. Title(a) = Title(i.pos + 1)
            BY <6>1, <6>2, GoesOn
          <6> QED BY <2>9, <6>1, <6>3
        <5>2. CASE a = p
          <6>1. PICK x \in Items : TRUE
            BY <1>2, <3>3, LineShows
          <6>2. x.finish \in Int
            BY <2>9
          <6> DEFINE M == Max({x.finish} \cup Finishes(Items))
          <6>3. (\A k \in Items : M >= k.finish) /\ (M = x.finish \/ \E i \in Items : M = i.finish) /\ M \in Int
            BY <2>12, <6>2, LatestFinish
          <6> HIDE DEF M
          <6>4. PICK i \in Items : M = i.finish
            BY <6>1, <6>3
          <6>5. \A k \in Items : k.finish <= i.finish
            BY <2>9, <6>3, <6>4
          <6>6. p = Title(i.pos + 1)
            BY <1>10, <2>11, <5>2, <6>5 DEF Following
          <6> QED BY <1>4, <5>2, <6>5, <6>6
        <5> QED BY <5>1, <5>2
      <4>2. Shown(i) \in Line /\ Shown(i).pos = i.pos /\ \A k \in Line : k.finish <= Shown(i).finish
        BY <1>2, <4>1, LineShows DEF Shown
      <4> QED BY <3>1, <3>3, <4>1, <4>2
    <3> QED BY <3>2, <3>3
  <2>15. Line' = Line \cup Promise!Programmes(Title(a), z - a + 1, Promise!End)
    <3>1. Programme(p, a).start = StartOf(p, a)
      BY DEF Programme
    <3>2. {Programme(p, q) : q \in a .. z} = Promise!Programmes(Title(a), z - a + 1, StartOf(p, a))
      BY <1>4, <2>4, <3>1, Stretch
    <3> QED BY <1>11, <2>6, <2>13, <3>2
  <2> QED BY <1>1, <2>7, <2>14, <2>15 DEF Promise!Next, Promise!Extend
<1> QED BY <1>12, <1>13

-----------------------------------------------------------------------------
(* The sweep forgets *)

\* A file with the end of an item in it is named past that end.
LEMMA NamedPastEnd ==
    ASSUME NEW F, TimedFolder(F), Tidy(F), NEW f \in F, NEW i \in f.items,
           f.start = ChunkStart(i.finish - 1)
    PROVE  i.finish <= f.finish
<1>1. Timed(f) /\ TimedItems(f.items) /\ Honest(f) /\ i.finish \in Int /\ f.start \in Int /\ f.finish \in Int
  BY DEF TimedFolder, TimedItems, Timed, Tidy
<1>2. i.finish <= f.finish \/ f.finish = f.start + ChunkLen
  BY <1>1, HonestName
<1>3. i.finish - 1 \in Int /\ i.finish - 1 < f.start + ChunkLen
  BY <1>1, ChunkGrid DEF ChunkEnd
<1> QED BY <1>1, <1>2, <1>3, ChunkLenAssumption

LEMMA SweepForgets ==
    ASSUME Healthy, IInv, HInv, CInv, TInv, Sweep
    PROVE  Promise!Next
<1>1. /\ files' = files \ Elapsed(files, now - Retention)
      /\ pc = "sweep" /\ pc' = "heal" /\ UNCHANGED <<now, wipe>>
  BY SweepsElapsed
<1>2. Staying = Items /\ Staying' = Items'
  BY <1>1 DEF CInv, Refreshing, WipeSteps, Staying, Items
<1>3. Items' \subseteq Items
  BY <1>1 DEF Items, ItemsOnDisk
<1>4. TimedFolder(files) /\ Tidy(files) /\ Ended(files, Items) /\ now \in Int /\ Retention \in Int
  BY <1>1, TimedNow, PassAssumption DEF HInv, Kept, Settled, Sound, TInv, Whole
<1>5. ASSUME NEW i \in Items \ Items' PROVE i.finish < now - Retention
  <2>1. PICK f \in files : f.start = ChunkStart(i.finish - 1) /\ i \in f.items
    BY <1>4 DEF Ended
  <2>2. f \in Elapsed(files, now - Retention)
    BY <1>1, <2>1 DEF Items, ItemsOnDisk
  <2>3. f.finish < now - Retention
    BY <2>2 DEF Elapsed
  <2>4. i.finish <= f.finish
    BY <1>4, <2>1, NamedPastEnd
  <2>5. i.finish \in Int /\ f.finish \in Int
    BY <1>4, <2>1 DEF TimedFolder, TimedItems, Timed
  <2> QED BY <1>4, <2>3, <2>4, <2>5
<1> QED BY <1>1, <1>2, <1>3, <1>5, IsForgotten

\* The file with an item's end is the last that goes.
LEMMA SweepEnds ==
    ASSUME Healthy, IInv, HInv, TInv, Sweep
    PROVE  Ended(files', Items')
<1>1. /\ files' = files \ Elapsed(files, now - Retention)
      /\ pc = "sweep" /\ Items' \subseteq Items
  BY SweepsElapsed DEF Items, ItemsOnDisk
<1>2. TimedFolder(files) /\ Tidy(files) /\ Ended(files, Items) /\ now - Retention \in Int
      /\ ChunkLen \in Nat
  BY <1>1, TimedNow, PassAssumption, ChunkLenAssumption
     DEF HInv, Kept, Settled, Sound, TInv, Whole
<1> SUFFICES ASSUME NEW i \in Items'
             PROVE  \E f \in files' : f.start = ChunkStart(i.finish - 1) /\ i \in f.items
  BY DEF Ended
<1>3. PICK h \in files' : i \in h.items
  BY DEF Items, ItemsOnDisk
<1>4. PICK g \in files : g.start = ChunkStart(i.finish - 1) /\ i \in g.items
  BY <1>1, <1>2 DEF Ended
<1>5. h \in files /\ h.finish >= now - Retention
  <2>1. h \in files /\ ~ h.finish < now - Retention /\ h.finish \in Int
    BY <1>1, <1>2, <1>3 DEF Elapsed, TimedFolder, Timed
  <2> QED BY <1>2, <2>1
<1>6. /\ h.start \in Int /\ h.finish \in Int /\ g.start \in Int /\ g.finish \in Int /\ i.finish \in Int
      /\ ChunkStart(h.start) = h.start /\ ChunkStart(g.start) = g.start /\ g.start < g.finish
      /\ h.start < i.finish
  BY <1>2, <1>3, <1>4, <1>5 DEF TimedFolder, TimedItems, Timed, Tidy, Honest, Meets
<1>7. h.finish <= h.start + ChunkLen
  BY <1>2, <1>5, HonestName DEF TimedFolder, Tidy
<1>8. i.finish - 1 < g.start + ChunkLen
  BY <1>4, <1>6, ChunkGrid DEF ChunkEnd
<1>9. ~ g.start < h.start
  <2> SUFFICES ASSUME g.start < h.start PROVE FALSE
    OBVIOUS
  <2>1. g.start + ChunkLen <= h.start
    BY <1>6, BoundariesApart
  <2> QED BY <1>2, <1>6, <1>8, <2>1
<1>10. CASE h.start = g.start
  BY <1>2, <1>3, <1>4, <1>5, <1>10 DEF Tidy
<1>11. CASE h.start < g.start
  <2>1. h.start + ChunkLen <= g.start
    BY <1>6, <1>11, BoundariesApart
  <2>2. ~ g.finish < now - Retention
    BY <1>2, <1>5, <1>6, <1>7, <2>1
  <2>3. g \in files'
    BY <1>1, <1>4, <2>2 DEF Elapsed
  <2> QED BY <1>4, <2>3
<1> QED BY <1>6, <1>9, <1>10, <1>11

-----------------------------------------------------------------------------
(* Every step keeps the batch, and the ends of the items *)

Unsettled == {"wipe", "unlink", "write", "tidy"}

LEMMA RestsWhole ==
    ASSUME TInv, files' = files, pc \notin Unsettled,
           pc' \notin {"wipe", "unlink", "generate"} \cup WriteSteps
    PROVE  TInv'
<1>1. Ended(files', Items')
  BY DEF TInv, Whole, Unsettled, Items, Ended
<1> QED BY <1>1 DEF TInv, Extending, Whole, WriteSteps

LEMMA CutsWhole ==
    ASSUME TInv, files' = files, pc \notin Unsettled, pc' = "wipe"
    PROVE  TInv'
<1>1. Ended(files', Staying')
  BY DEF TInv, Whole, Unsettled, Items, Staying, Ended
<1> QED BY <1>1 DEF TInv, Extending, Whole, WriteSteps

\* The steps of the task that leave the folder alone, outside a generation.
LEMMA QuietWhole ==
    ASSUME Healthy, IInv, HInv, LInv, TInv,
           Start \/ AdoptConfig \/ Repair \/ TruncateHistory \/ SaveRewind \/ Heal \/ CaughtUp
             \/ RollTick \/ GoDown
    PROVE  TInv'
<1>1. files' = files
  BY DEF Start, AdoptConfig, Repair, TruncateHistory, SaveRewind, Heal, CaughtUp, BackInLoop,
         RollTick, GoDown, disk
<1>2. pc \notin Unsettled
  BY DEF Start, AdoptConfig, Repair, TruncateHistory, SaveRewind, Heal, CaughtUp, RollTick, GoDown,
         Healthy, Unsettled
<1>3. pc' = "wipe" \/ pc' \notin {"wipe", "unlink", "generate"} \cup WriteSteps
  <2>1. CASE SaveRewind
    <3>1. wipe.job \in Jobs /\ pass.phase \in {"startup", "roll"} /\ pc' = AfterWipe
      BY <2>1 DEF SaveRewind, IInv, WipeHasJob, WipeSteps, TypeOK, MemoryOK
    <3> QED BY <3>1 DEF AfterWipe, Jobs, WriteSteps
  <2>2. CASE ~ SaveRewind
    BY <2>2 DEF Start, AdoptConfig, Repair, TruncateHistory, Heal, CaughtUp, BackInLoop,
         RollTick, GoDown, StartWipe, WriteSteps
  <2> QED BY <2>1, <2>2
<1> QED BY <1>1, <1>2, <1>3, RestsWhole, CutsWhole

LEMMA WorldWhole ==
    ASSUME Healthy, TInv, Clock \/ RequestRefresh \/ EditConfig \/ LoseTitle
    PROVE  TInv'
<1>1. UNCHANGED <<files, gen, pass, wipe, pc>>
  BY DEF Clock, RequestRefresh, EditConfig, LoseTitle, disk, memory
<1>2. CASE Clock
  <2>1. pc = "idle"
    BY <1>2 DEF Clock, Healthy
  <2> QED BY <1>1, <2>1, RestsWhole DEF Unsettled, WriteSteps
<1>3. CASE ~ Clock
  <2>1. now' = now
    BY <1>3 DEF RequestRefresh, EditConfig, LoseTitle
  <2>2. Extending'
    BY <1>1, <2>1 DEF TInv, Extending, EndsHere, Batch, Following, Reached, Programme, StartOf,
                      Items, ItemsOnDisk, Shown
  <2>3. Whole'
    BY <1>1 DEF TInv, Whole, Ended, Written, Staying, LeftBehind, Others, Chunk, ChunkItems,
                Items, ItemsOnDisk
  <2> QED BY <2>2, <2>3 DEF TInv
<1> QED BY <1>2, <1>3

\* A wipe takes nothing from the line that it has not been taken back from.
LEMMA WipeStandsStill ==
    ASSUME IInv, HInv, LInv, TInv, RemoveFile \/ TruncateFile \/ RemoveTruncated
    PROVE  Staying' = Staying
<1>1. TakesBehind
  BY WipeTakes
<1>2. wipe.cut \in Int /\ \A i \in Items : i.start \in Int /\ i.finish \in Int
  BY ItemsAre DEF Item
<1>3. wipe.job \in Jobs /\ wipe'.job = wipe.job /\ wipe'.cut = wipe.cut /\ Items' \subseteq Items
  BY <1>1 DEF IInv, WipeHasJob, WipeSteps, TakesBehind
<1>4. CASE RemoveFile \/ TruncateFile
  <2>1. \A i \in Items : i.start < i.finish
    BY <1>4 DEF RemoveFile, TruncateFile, HInv, Kept, CutAt, Tidy, Items, ItemsOnDisk
  <2>2. \A i \in Items : i.finish <= wipe.cut => i \in Items'
    BY <1>1, <1>2, <2>1 DEF TakesBehind
  <2> QED BY <1>3, <2>2 DEF Staying, Jobs
<1>5. CASE RemoveTruncated
  <2>1. files' = files \ wipe.doomed /\ Ended(files \ wipe.doomed, Staying)
    BY <1>5 DEF RemoveTruncated, TInv, Whole
  <2>2. \A i \in Staying : i \in Items'
    BY <2>1 DEF Ended, Items, ItemsOnDisk
  <2> QED BY <1>3, <2>2 DEF Staying, Jobs
<1> QED BY <1>4, <1>5

\* ... and leaves every item the file it ends in.
LEMMA WipeWhole ==
    ASSUME IInv, HInv, LInv, TInv, RemoveFile \/ TruncateFile \/ RemoveTruncated
    PROVE  TInv'
<1>1. Staying' = Staying
  BY WipeStandsStill
<1>2. wipe.cut \in Int /\ wipe.job \in Jobs
  BY DEF IInv, TypeOK, MemoryOK, WipeHasJob, WipeSteps, RemoveFile, TruncateFile, RemoveTruncated
<1>3. \A i \in Staying : i.finish \in Int /\ i.finish <= wipe.cut
  BY <1>2, ItemsAre DEF Staying, Item, Jobs
<1>4. \A i \in Staying : ChunkStart(i.finish - 1) < wipe.cut /\ ChunkStart(i.finish - 1) \in Int
  <2> TAKE i \in Staying
  <2>1. i.finish - 1 \in Int /\ i.finish - 1 < wipe.cut
    BY <1>2, <1>3
  <2>2. ChunkStart(i.finish - 1) <= i.finish - 1 /\ ChunkStart(i.finish - 1) \in Int
    BY <2>1, ChunkGrid
  <2> QED BY <1>2, <2>1, <2>2
<1>5. CASE RemoveFile
  <2>1. pc = "wipe" /\ pc' = "wipe"
    BY <1>5 DEF RemoveFile
  <2>2. PICK f \in files : f.start >= wipe.cut /\ files' = files \ {f}
    BY <1>5 DEF RemoveFile
  <2>3. Ended(files, Staying)
    BY <2>1 DEF TInv, Whole
  <2>4. Ended(files', Staying)
    BY <1>2, <1>4, <2>2, <2>3 DEF Ended
  <2> QED BY <1>1, <2>1, <2>4 DEF TInv, Extending, Whole, WriteSteps
<1>6. CASE TruncateFile
  <2>1. pc = "wipe" /\ CutAt(files, now, wipe.cut) /\ Ended(files, Staying)
    BY <1>6 DEF TruncateFile, HInv, Kept, TInv, Whole
  <2>2. PICK f \in Overrunning(files, wipe.cut) :
          IF \A i \in f.items : i.finish > wipe.cut
          THEN files' = files \ {f} /\ UNCHANGED <<wipe, pc>>
          ELSE /\ files' = Put(files, Truncated(f, wipe.cut))
               /\ wipe' = [wipe EXCEPT !.doomed = {f}]
               /\ pc' = "unlink"
    BY <1>6 DEF TruncateFile
  <2>3. CASE \A i \in f.items : i.finish > wipe.cut
    <3>1. \A i \in Staying : i \notin f.items
      BY <1>2, <1>3, <2>3
    <3>2. Ended(files', Staying)
      BY <2>1, <2>2, <2>3, <3>1 DEF Ended
    <3> QED BY <1>1, <2>1, <2>2, <2>3, <3>2 DEF TInv, Extending, Whole, WriteSteps
  <2>4. CASE ~ \A i \in f.items : i.finish > wipe.cut
    <3> DEFINE g == Truncated(f, wipe.cut)
    <3>1. files' = Put(files, g) /\ pc' = "unlink" /\ wipe'.doomed = {f}
      BY <2>2, <2>4 DEF IInv, TypeOK, MemoryOK
    <3>2. f \in files /\ f.finish > wipe.cut /\ Timed(f) /\ TimedItems(f.items)
      BY TimedNow DEF Overrunning, TimedFolder
    <3>3. \E i \in f.items : i.finish <= wipe.cut
      <4>1. \A i \in f.items : i.finish \in Int
        BY <3>2 DEF TimedItems, Timed
      <4> QED BY <1>2, <2>4, <4>1
    <3>4. g.start = f.start /\ g.finish <= wipe.cut /\ g.finish \in Int
      BY <1>2, <3>2, <3>3, ShortensToCut DEF Timed
    <3>5. g.items = {i \in f.items : i.finish <= wipe.cut}
      BY DEF Truncated
    <3> HIDE DEF g
    <3>6. g # f /\ f.finish \in Int
      BY <1>2, <3>2, <3>4 DEF Timed
    <3>7. g \in files' \ {f}
      BY <3>1, <3>6 DEF Put
    <3>8. \A e \in files : e # f => e \in files' \ {f}
      <4>1. \A e \in files : e.start = f.start => e = f
        BY <2>1, <3>2 DEF CutAt, Tidy
      <4> QED BY <3>1, <3>4, <4>1 DEF Put, SameName
    <3>9. ASSUME NEW i \in Staying
          PROVE  \E e \in files' \ {f} : e.start = ChunkStart(i.finish - 1) /\ i \in e.items
      <4>1. PICK e \in files : e.start = ChunkStart(i.finish - 1) /\ i \in e.items
        BY <2>1 DEF Ended
      <4>2. CASE e = f
        BY <1>3, <3>4, <3>5, <3>7, <4>1, <4>2
      <4>3. CASE e # f
        BY <3>8, <4>1, <4>3
      <4> QED BY <4>2, <4>3
    <3>10. Ended(files' \ wipe'.doomed, Staying)
      BY <3>1, <3>9 DEF Ended
    <3> QED BY <1>1, <3>1, <3>10 DEF TInv, Extending, Whole, WriteSteps
  <2> QED BY <2>3, <2>4
<1>7. CASE RemoveTruncated
  <2>1. files' = files \ wipe.doomed /\ pc' = "wipe" /\ Ended(files \ wipe.doomed, Staying)
    BY <1>7 DEF RemoveTruncated, TInv, Whole
  <2> QED BY <1>1, <2>1 DEF TInv, Extending, Whole, WriteSteps
<1> QED BY <1>5, <1>6, <1>7

LEMMA RewindWhole == ASSUME IInv, HInv, TInv, Rewind PROVE TInv' /\ Staying' = Staying /\ Staying = Items
<1>1. /\ pc = "wipe" /\ pc' = "forget" /\ wipe'.cut = wipe.cut /\ wipe'.job = wipe.job
      /\ files' = files /\ Items' = Items /\ \A i \in Items : i.finish <= wipe.cut
  BY RewindsToCut DEF disk
<1>2. Staying = Items /\ Staying' = Staying
  BY <1>1 DEF Staying
<1>3. Ended(files', Items')
  BY <1>1, <1>2 DEF TInv, Whole
<1> QED BY <1>1, <1>2, <1>3 DEF TInv, Extending, Whole, WriteSteps

LEMMA SweepWhole == ASSUME Healthy, IInv, HInv, TInv, Sweep PROVE TInv'
BY SweepEnds, SweepsElapsed DEF TInv, Extending, Whole, WriteSteps

\* Where generation resumes an item ends, or it is now.
LEMMA ResumesAtEnd ==
    ASSUME NEW F, TimedFolder(F), NEW t0 \in Int, Sound(F, t0), NEW h \in HighestFinishes(F, t0)
    PROVE  h = t0 \/ \E i \in ItemsOnDisk(F) : i.finish = h
<1>1. h \in Int /\ h >= t0 /\ \A i \in ItemsOnDisk(F) : i.finish <= h /\ i.finish \in Int
  <2>1. \A i \in ItemsOnDisk(F) : i.finish \in Int
    BY DEF ItemsOnDisk, TimedFolder, TimedItems, Timed
  <2> QED BY <2>1, SoundEnds
<1>2. CASE F = {}
  BY <1>2 DEF HighestFinishes
<1>3. CASE F # {}
  <2>1. PICK l \in LastFiles(F) : h = Max({t0} \cup {f.finish : f \in F} \cup Finishes(l.items))
    BY <1>3 DEF HighestFinishes
  <2> DEFINE N == {f.finish : f \in F}
             T == {t0} \cup N \cup Finishes(l.items)
             a == [f \in F |-> f.finish]
             b == [i \in l.items |-> i.finish]
  <2>2. l \in F /\ TimedItems(l.items)
    BY DEF LastFiles, TimedFolder
  <2>3. IsFiniteSet(N)
    <3>1. a \in Surjection(F, N)
      BY DEF Surjection
    <3> HIDE DEF a, N
    <3> QED BY <3>1, FS_Surjection DEF TimedFolder
  <2>4. IsFiniteSet(Finishes(l.items))
    <3>1. b \in Surjection(l.items, Finishes(l.items))
      BY DEF Surjection, Finishes
    <3> HIDE DEF b
    <3> QED BY <2>2, <3>1, FS_Surjection DEF TimedItems
  <2>5. T \in SUBSET Int /\ T # {} /\ IsFiniteSet(T)
    <3>1. N \in SUBSET Int /\ Finishes(l.items) \in SUBSET Int
      BY <2>2 DEF TimedFolder, TimedItems, Timed, Finishes
    <3> HIDE DEF N
    <3>2. IsFiniteSet({t0} \cup N)
      BY <2>3, FS_Singleton, FS_Union
    <3>3. IsFiniteSet(T)
      BY <2>4, <3>2, FS_Union
    <3> QED BY <3>1, <3>3
  <2>6. h \in T
    <3> HIDE DEF T
    <3>1. Max(T) \in T
      BY <2>5, MaxExists
    <3> QED BY <2>1, <3>1 DEF T
  <2>7. CASE h \in Finishes(l.items)
    BY <2>2, <2>7 DEF Finishes, ItemsOnDisk
  <2>8. ASSUME NEW f \in F, h = f.finish PROVE \E i \in ItemsOnDisk(F) : i.finish = h
    <3>1. PICK i \in f.items : f.finish <= i.finish
      BY HonestName DEF TimedFolder, Sound, Tidy
    <3>2. i \in ItemsOnDisk(F)
      BY DEF ItemsOnDisk
    <3> QED BY <1>1, <2>8, <3>1, <3>2
  <2> QED BY <2>6, <2>7, <2>8
<1> QED BY <1>2, <1>3

LEMMA PlanWhole == ASSUME IInv, HInv, TInv, Plan PROVE TInv'
<1>1. pc = "plan" /\ pc' = "generate" /\ UNCHANGED <<files, now>> /\ pass.at = now
  BY DEF Plan, world, disk, HInv, OnTime
<1>2. PICK from \in HighestFinishes(files, now) : pass'.from = from
  BY <1>1 DEF Plan, IInv, TypeOK, MemoryOK
<1>3. TimedFolder(files) /\ Sound(files, now) /\ now \in Int
  BY <1>1, TimedNow DEF HInv, Kept, Settled
<1>4. from \in Int /\ from >= now /\ \A i \in Items : i.finish <= from
  BY <1>2, <1>3, SoundEnds DEF Items
<1>5. from = now \/ \E i \in Items : i.finish = from
  BY <1>2, <1>3, ResumesAtEnd DEF Items
<1>6. EndsHere(Items)'
  BY <1>1, <1>2, <1>3, <1>4, <1>5 DEF EndsHere, Items
<1>7. Ended(files', Items')
  BY <1>1 DEF TInv, Whole, Items
<1> QED BY <1>1, <1>6, <1>7 DEF TInv, Extending, Whole, WriteSteps

\* The title that comes next follows the last item on disk.
Continues == \A p \in NextPositions(work) : p \in Titles /\ Following(Items, p)

\* A generation is a stretch of the list.
LEMMA LaysStretch ==
    ASSUME ~ Anchored, IInv, HInv, TInv, Continues, Generate
    PROVE  \E p \in Titles, n \in GenSizes :
             /\ {Shown(i) : i \in gen'.items} = {Programme(p, q) : q \in p .. p + n - 1}
             /\ gen'.cursor = pass.from /\ gen'.to = StartOf(p, p + n)
             /\ Cursor = "position" => gen'.pos = Title(p + n)
             /\ Following(Items, p)
<1>1. PICK p \in NextPositions(work), n \in GenSizes :
        gen' = Laid(p, n, pass.from, [skip |-> 0, into |-> 0])
  BY DEF Generate
<1>2. p \in Titles /\ p \in Nat /\ n \in Nat \ {0} /\ pass.from \in Int /\ Following(Items, p)
  BY <1>1, PassAssumption, ListAssumption DEF Continues, Titles, IInv, TypeOK, MemoryOK
<1>3. p + 0 = p /\ pass.from - 0 = pass.from
  BY <1>2
<1>4. gen'.cursor = pass.from /\ gen'.to = StartOf(p, p + n) /\ (Cursor = "position" => gen'.pos = Title(p + n))
  BY <1>1, <1>3 DEF Laid, StartOf
<1>5. {Shown(i) : i \in gen'.items} = {Programme(p, q) : q \in p .. p + n - 1}
  <2> DEFINE item(q) == [start |-> StartOf(p, q), finish |-> StartOf(p, q + 1), pos |-> Title(q),
                         config |-> seen, edition |-> Edition]
  <2>1. gen'.items = {item(q) : q \in p .. p + n - 1}
    BY <1>1, <1>3 DEF Laid, StartOf
  <2>2. \A q : Shown(item(q)) = Programme(p, q)
    BY DEF Shown, Programme
  <2> HIDE DEF item
  <2> QED BY <2>1, <2>2
<1> QED BY <1>2, <1>4, <1>5

LEMMA GenerateWhole ==
    ASSUME ~ Anchored, IInv, HInv, TInv, Continues, Generate
    PROVE  TInv'
<1>1. pc = "generate" /\ pc' = "write" /\ UNCHANGED <<files, now, pass>> /\ Items' = Items
  BY DEF Generate, world, disk, Items
<1>2. PICK p \in Titles, n \in GenSizes :
        /\ {Shown(i) : i \in gen'.items} = {Programme(p, q) : q \in p .. p + n - 1}
        /\ gen'.cursor = pass.from /\ gen'.to = StartOf(p, p + n)
        /\ Cursor = "position" => gen'.pos = Title(p + n)
        /\ Following(Items, p)
  BY LaysStretch
<1>3. EndsHere(Items)
  BY <1>1 DEF TInv, Extending
<1>4. /\ \A i \in gen'.items : i.start \in Int /\ pass.from <= i.start
      /\ \A i \in Items : i.start < pass.from /\ i.start \in Int
      /\ pass.from \in Int
  BY GenerationFollows, ItemsAre DEF Item
<1>5. \A i \in gen'.items : i \notin Items
  BY <1>4
<1>6. Items \ gen'.items = Items
  BY <1>5
<1>7. Batch(p, n)'
  <2>1. \A q, r : StartOf(q, r)' = StartOf(q, r) /\ Programme(q, r)' = Programme(q, r)
    BY <1>1 DEF StartOf, Programme
  <2> QED BY <1>1, <1>2, <1>6, <2>1 DEF Batch, Following, Shown, StartOf, Programme
<1>8. EndsHere(Items \ gen.items)'
  BY <1>1, <1>3, <1>6 DEF EndsHere
<1>9. Reached(gen.cursor)'
  BY <1>1, <1>2, <1>4, <1>5 DEF Reached
<1>10. Ended(files, Written(gen.cursor))'
  BY <1>1 DEF TInv, Whole, Ended, Written
<1> QED BY <1>1, <1>7, <1>8, <1>9, <1>10 DEF TInv, Extending, Whole, WriteSteps

\* The parts of a batch that no step of writing disturbs.
LEMMA BatchStays ==
    ASSUME TInv, pc \in WriteSteps, UNCHANGED <<pass, now>>, gen'.items = gen.items,
           gen'.to = gen.to, gen'.pos = gen.pos, Items' \ gen.items = Items \ gen.items
    PROVE  EndsHere(Items \ gen.items)' /\ \E p \in Titles, n \in GenSizes : Batch(p, n)'
<1>1. EndsHere(Items \ gen.items)'
  BY DEF TInv, Extending, EndsHere
<1>2. PICK p \in Titles, n \in GenSizes : Batch(p, n)
  BY DEF TInv, Extending
<1>3. Batch(p, n)'
  BY <1>2 DEF Batch, Following, Shown, StartOf, Programme
<1> QED BY <1>1, <1>3

LEMMA WriteChunkWhole == ASSUME IInv, HInv, TInv, WriteChunk PROVE TInv'
<1>1. pc = "write" /\ pc' = "tidy" /\ UNCHANGED <<now, pass, gen>>
  BY DEF WriteChunk, world, memory
<1>2. PICK existing \in ChunkContents(files, Chunk) :
        files' = Put(files, GrownChunk(Chunk, existing, ChunkItems))
  BY DEF WriteChunk
<1> DEFINE g == GrownChunk(Chunk, existing, ChunkItems)
<1>3. /\ g.start = Chunk /\ g.items = existing \cup ChunkItems
      /\ g.finish = NameFinish(Chunk, ChunkItems)
  BY DEF GrownChunk
<1>4. \A f \in files : f.start = Chunk => f.items = existing
  <2>1. \A e, f \in files : e.start = f.start => e = f
    BY DEF WriteChunk, HInv, Kept, Growing, Tidy
  <2>2. (\E f \in files : f.start = Chunk) => \E e \in files : e.start = Chunk /\ existing = e.items
    BY <1>2 DEF ChunkContents
  <2> QED BY <2>1, <2>2
<1>5. files' = Put(files, g)
  BY <1>2
<1> HIDE DEF g
<1>6. Chunk' = Chunk /\ ChunkItems' = ChunkItems
  BY <1>1 DEF Chunk, ChunkItems
<1>7. LeftBehind' = {f \in files' : f.start = Chunk /\ f.finish # NameFinish(Chunk, ChunkItems)}
  BY <1>6 DEF LeftBehind, Others
<1>8. g \in files' \ LeftBehind'
  BY <1>3, <1>5, <1>7 DEF Put
<1>9. \A f \in files : f.start # Chunk => f \in files' \ LeftBehind'
  BY <1>3, <1>5, <1>7 DEF Put, SameName
<1>10. \A i \in gen.items : i.start < i.finish /\ i.start \in Int /\ i.finish \in Int
  BY ItemsAre DEF Item, IInv, Laying
<1>11. gen.cursor \in Int
  BY DEF IInv, TypeOK, MemoryOK
<1>12. /\ Chunk \in Int /\ Chunk <= gen.cursor /\ gen.cursor < ChunkEnd(gen.cursor)
       /\ ChunkEnd(gen.cursor) \in Int /\ ChunkEnd(gen.cursor) = Chunk + ChunkLen
       /\ ChunkStart(Chunk) = Chunk
  BY <1>11, ChunkGrid, OnlyChunk DEF Chunk, ChunkEnd
<1>13. Items' = Items \cup ChunkItems /\ ChunkItems \subseteq gen.items
  BY WriteChunkAdds DEF ChunkItems, ItemsCovering
<1>14. ASSUME NEW i \in Items', i \notin gen.items \/ i.finish <= ChunkEnd(gen.cursor)
       PROVE  \E f \in files' \ LeftBehind' : f.start = ChunkStart(i.finish - 1) /\ i \in f.items
  <2>1. CASE i \in Written(gen.cursor)
    <3>1. PICK f \in files : f.start = ChunkStart(i.finish - 1) /\ i \in f.items
      BY <1>1, <2>1 DEF TInv, Whole, Ended
    <3>2. CASE f.start = Chunk
      BY <1>3, <1>4, <1>8, <3>1, <3>2
    <3>3. CASE f.start # Chunk
      BY <1>9, <3>1, <3>3
    <3> QED BY <3>2, <3>3
  <2>2. CASE i \notin Written(gen.cursor)
    <3>1. i \in gen.items /\ i.finish > gen.cursor /\ i.finish <= ChunkEnd(gen.cursor)
      BY <1>10, <1>11, <1>13, <1>14, <2>2 DEF Written, ChunkItems, ItemsCovering
    <3>2. i \in ChunkItems
      BY <1>10, <1>12, <3>1 DEF ChunkItems, ItemsCovering
    <3>3. i.finish - 1 \in Int /\ Chunk <= i.finish - 1 /\ i.finish - 1 < Chunk + ChunkLen
      BY <1>10, <1>11, <1>12, <3>1
    <3>4. ChunkStart(i.finish - 1) = Chunk
      BY <1>12, <3>3, OnlyChunk
    <3> QED BY <1>3, <1>8, <3>2, <3>4
  <2> QED BY <2>1, <2>2
<1>15. Ended(files \ LeftBehind, Written(ChunkEnd(gen.cursor)))'
  BY <1>1, <1>14 DEF Ended, Written
<1>16. Reached(ChunkEnd(gen.cursor))'
  BY <1>1, ChunkAdds DEF Reached
<1>17. Items' \ gen.items = Items \ gen.items
  BY <1>13
<1> QED BY <1>1, <1>15, <1>16, <1>17, BatchStays DEF TInv, Extending, Whole, WriteSteps

\* At its end all of the generation is there, each item with the chunk it ends in.
LEMMA DropOthersWhole == ASSUME Healthy, IInv, IInv', HInv, TInv, DropOthers PROVE TInv'
<1>1. pc = "tidy" /\ pc' = AfterChunk(gen'.cursor) /\ UNCHANGED <<now, pass>>
  BY DEF DropOthers
<1>2. /\ Items' = Items /\ gen'.items = gen.items /\ files' = files \ LeftBehind
      /\ gen'.cursor = ChunkEnd(gen.cursor) /\ gen'.to = gen.to /\ gen'.pos = gen.pos
  BY DropsNothing
<1>3. Reached(gen.cursor)' /\ Ended(files, Written(gen.cursor))'
  BY <1>1, <1>2 DEF TInv, Extending, Whole, Reached, Ended, Written
<1>4. EndsHere(Items \ gen.items)' /\ \E p \in Titles, n \in GenSizes : Batch(p, n)'
  BY <1>1, <1>2, BatchStays DEF WriteSteps
<1>5. CASE gen'.cursor < gen'.to
  <2>1. pc' = "write"
    BY <1>1, <1>2, <1>5 DEF AfterChunk
  <2> QED BY <1>3, <1>4, <2>1 DEF TInv, Extending, Whole, WriteSteps
<1>6. CASE ~ gen'.cursor < gen'.to
  <2>1. pc' = "record"
    BY <1>1, <1>2, <1>6 DEF AfterChunk
  <2>2. gen'.cursor \in Int /\ gen'.to \in Int /\ \A i \in gen'.items : i.finish \in Int /\ i.finish <= gen'.to
    BY DEF IInv, TypeOK, MemoryOK, Laying, Item
  <2>3. \A i \in gen'.items : i.finish <= gen'.cursor
    BY <1>6, <2>2
  <2>4. Written(gen.cursor)' = Items'
    BY <2>3 DEF Written
  <2>5. Ended(files', Items')
    BY <1>3, <2>4 DEF Ended
  <2> QED BY <1>4, <2>1, <2>5 DEF TInv, Extending, Whole, WriteSteps
<1> QED BY <1>5, <1>6

LEMMA RecordAiringsWhole == ASSUME TInv, RecordAirings PROVE TInv'
<1>1. pc = "record" /\ pc' = "save" /\ UNCHANGED <<files, gen, pass, now>> /\ Items' = Items
  BY DEF RecordAirings, world, memory, Items
<1>2. Ended(files', Items')
  BY <1>1 DEF TInv, Whole
<1> QED BY <1>1, <1>2, BatchStays DEF TInv, Extending, Whole, WriteSteps

\* The last item of the generation ends where the next one starts.
LEMMA LastOfBatch ==
    ASSUME IInv, NEW p \in Titles, NEW n \in GenSizes, Batch(p, n), pc = "save"
    PROVE  \E i \in gen.items : i \in Items /\ i.finish = gen.to /\ i.pos = Title(p + n - 1)
<1>1. p \in Nat /\ n \in Nat \ {0} /\ p + n - 1 \in p .. p + n - 1 /\ p + n - 1 + 1 = p + n
  BY BatchIs
<1>2. PICK i \in gen.items : Shown(i) = Programme(p, p + n - 1)
  BY <1>1, BatchIs
<1>3. i.finish = StartOf(p, p + n) /\ i.pos = Title(p + n - 1)
  BY <1>1, <1>2, BatchIs
<1> QED BY <1>3 DEF Batch, IInv, GenerationOnDisk

LEMMA SaveSidecarWhole == ASSUME IInv, HInv, TInv, SaveSidecar PROVE TInv'
<1>1. /\ pc = "save" /\ pc' = "generate" /\ UNCHANGED <<files, now>> /\ Items' = Items
      /\ pass'.from = gen.to
  BY DEF SaveSidecar, world, Items, IInv, TypeOK, MemoryOK
<1>2. PICK p \in Titles, n \in GenSizes : Batch(p, n)
  BY <1>1 DEF TInv, Extending, WriteSteps
<1>3. Ended(files', Items')
  BY <1>1 DEF TInv, Whole
<1>4. now <= gen.to /\ \A i \in Items : i.finish <= gen.to
  BY <1>1 DEF HInv, Kept, Filled, Items
<1>5. \E i \in Items : i.finish = gen.to
  BY <1>1, <1>2, LastOfBatch
<1>6. EndsHere(Items)'
  BY <1>1, <1>4, <1>5 DEF EndsHere
<1> QED BY <1>1, <1>3, <1>6 DEF TInv, Extending, Whole, WriteSteps

LEMMA InitWhole == ASSUME Init PROVE TInv
BY DEF Init, TInv, Extending, Whole, Ended, Items, ItemsOnDisk, WriteSteps

LEMMA StepsWhole ==
    ASSUME Healthy, ShortOvershoot, ~ Anchored, IInv, HInv, LInv, TInv,
           pc = "generate" => Continues, [Next]_vars
    PROVE  TInv'
<1>1. IInv'
  BY StepsWell
<1>2. CASE Task
  <2>1. ~ ZeroLength
    BY NoFault DEF ZeroLength
  <2>2. Generate => pc = "generate"
    BY DEF Generate
  <2> QED BY <1>1, <1>2, <2>1, <2>2, QuietWhole, WipeWhole, RewindWhole, SweepWhole, PlanWhole,
             GenerateWhole, WriteChunkWhole, DropOthersWhole, RecordAiringsWhole, SaveSidecarWhole
          DEF Task
<1>3. CASE Fail \/ GoDown
  BY <1>3, NoFault, QuietWhole DEF Fail
<1>4. CASE Environment
  BY <1>4, NoFault, WorldWhole DEF Environment, LoseFile
<1>5. CASE UNCHANGED vars
  <2>1. UNCHANGED <<files, gen, pass, wipe, pc, now>>
    BY <1>5 DEF vars, world, disk, memory
  <2>2. Extending'
    BY <2>1 DEF TInv, Extending, EndsHere, Batch, Following, Reached, Programme, StartOf,
                Items, ItemsOnDisk, Shown
  <2>3. Whole'
    BY <2>1 DEF TInv, Whole, Ended, Written, Staying, LeftBehind, Others, Chunk, ChunkItems,
                Items, ItemsOnDisk
  <2> QED BY <2>2, <2>3 DEF TInv
<1> QED BY <1>2, <1>3, <1>4, <1>5 DEF Next

-----------------------------------------------------------------------------
(* Where the list goes on *)

\* The play history's last row is the last item's.
LEMMA SeriesContinues ==
    ASSUME Cursor = "series", IInv, HInv, LInv, pc = "generate"
    PROVE  Continues
<1>1. gen.items = {}
  BY NothingInHand DEF WriteSteps
<1>2. /\ \A i \in Items : Row(i) \in history
      /\ \A r \in history : \/ \E i \in Items : r = Row(i)
                            \/ \A i \in Items : r.start < i.start
  BY <1>1 DEF LInv, Ledger, Dropping, Cutting
<1>3. \A i, j \in Items : i = j \/ i.finish <= j.start \/ j.finish <= i.start
  BY DEF HInv, Kept, Filled, Apart, Items
<1>4. \A i \in Items : i.start \in Int /\ i.finish \in Int /\ i.start < i.finish
  <2>1. \A i \in Items : i.start < i.finish
    BY DEF HInv, Kept, Filled, Tidy, Items, ItemsOnDisk
  <2> QED BY <2>1, ItemsAre DEF Item
<1>5. \A i : Row(i).start = i.start /\ Row(i).pos = i.pos
  BY DEF Row
<1>6. CASE history = {}
  <2>1. Items = {} /\ NextPositions(work) = {0}
    BY <1>2, <1>6 DEF NextPositions
  <2>2. 0 \in Titles
    BY ListAssumption DEF Titles
  <2> QED BY <2>1, <2>2 DEF Continues, Following
<1>7. CASE history # {}
  <2> SUFFICES ASSUME NEW r \in history, \A s \in history : s.start <= r.start
               PROVE  Title(r.pos + 1) \in Titles /\ Following(Items, Title(r.pos + 1))
    BY <1>7 DEF NextPositions, Continues
  <2>1. r.pos \in Nat /\ r.start \in Int
    BY ListAssumption DEF IInv, TypeOK, DiskOK, Rows, Titles
  <2>2. Title(r.pos + 1) \in Titles
    BY <2>1, Folded
  <2>3. ASSUME NEW i \in Items, \A j \in Items : j.finish <= i.finish PROVE r.pos = i.pos
    <3>1. i.start <= r.start
      <4>1. Row(i) \in history /\ Row(i).start = i.start
        BY <1>2, <1>5
      <4> QED BY <4>1
    <3>2. PICK k \in Items : r = Row(k)
      BY <1>2, <1>4, <2>1, <3>1
    <3>3. r.start = k.start /\ r.pos = k.pos
      BY <1>5, <3>2
    <3>4. k = i
      BY <1>3, <1>4, <2>3, <3>1, <3>3
    <3> QED BY <3>3, <3>4
  <2> QED BY <2>2, <2>3 DEF Following
<1> QED BY <1>6, <1>7

\* The sidecar's position is the one after the last item's.
LEMMA PositionContinues ==
    ASSUME Cursor = "position", IInv, CInv, MInv, KnowsNext, pc = "generate"
    PROVE  Continues
<1>1. wipe.job = "none" /\ work = sidecar
  BY DEF CInv, Refreshing, WipeSteps, MInv, OneMap
<1>2. NextPositions(work) = {sidecar.pos} /\ sidecar.pos \in Titles
  BY <1>1 DEF NextPositions, IInv, TypeOK, DiskOK, Map
<1>3. Following(Items, sidecar.pos)
  BY <1>1 DEF KnowsNext, NextPos, Staying, WriteSteps
<1> QED BY <1>2, <1>3 DEF Continues

-----------------------------------------------------------------------------
(* Every step keeps the turn and the place in the list *)

\* A wipe cuts before an item that has not begun: rewound to the checkpoint of that
\* item, the sidecar goes on with it, after the item that ends there.
LEMMA CutKnows ==
    ASSUME IInv, MInv, InTurn, Sound(files, now), UNCHANGED <<files, sidecar>>,
           NEW j \in Items, j.start > now, Mark(sidecar.checkpoints, j), CutAt(files, now, j.start),
           wipe'.job # "none", wipe'.cut = j.start
    PROVE  Following(Staying, NextPos)'
<1>1. PICK d \in sidecar.checkpoints : d.start = j.start /\ d.pos = j.pos
  BY DEF Mark
<1>2. FiniteMap(sidecar) /\ Ordered(sidecar.checkpoints)
  BY DEF FiniteMap, IInv, Finite, TypeOK, DiskOK, MInv, Marked
<1>3. TimedFolder(files) /\ now \in Int /\ \A i \in Items : i.start \in Int /\ i.finish \in Int
  BY TimedNow, ItemsAre DEF Item
<1>4. NextPos' = j.pos
  <2>1. Rewound(sidecar, j.start).pos = j.pos
    BY <1>1, <1>2, <1>3, RewindsExactly
  <2> QED BY <2>1 DEF NextPos
<1>5. Staying' = {i \in Items : i.finish <= j.start}
  BY DEF Staying, Items
<1>6. PICK k \in Items : k.finish = j.start
  <2>1. now < j.start /\ j.start >= j.start /\ j \in ItemsOnDisk(files)
    BY <1>3 DEF Items
  <2> QED BY <1>3, <2>1, EndsAtCut DEF Items
<1>7. ASSUME NEW i \in Staying', \A h \in Staying' : h.finish <= i.finish
      PROVE  j.pos = Title(i.pos + 1)
  <2>1. i \in Items /\ i.finish <= j.start /\ k \in Staying'
    BY <1>3, <1>5, <1>6
  <2>2. i.finish = j.start
    BY <1>3, <1>6, <1>7, <2>1
  <2> QED BY <2>1, <2>2 DEF InTurn
<1> QED BY <1>4, <1>7 DEF Following

LEMMA RefreshKnows ==
    ASSUME IInv, HInv, MInv, InTurn, UNCHANGED <<files, sidecar, now>>,
           pc \in {"down", "idle"}, After <= now, Items = {} \/ \E i \in Items : i.start > now,
           StartWipe("refresh", AiringFinish(files, now))
    PROVE  KnowsNext'
<1> DEFINE cut == AiringFinish(files, now)
<1>1. wipe'.job = "refresh" /\ wipe'.cut = cut /\ pc' = "wipe"
  BY DEF StartWipe
<1>2. Sound(files, now) /\ TimedFolder(files) /\ now \in Int /\ After \in Int
  BY TimedNow DEF HInv, Kept, Settled, After, IInv, TypeOK, WorldOK, MemoryOK
<1>3. CASE Items = {}
  BY <1>1, <1>3 DEF KnowsNext, Following, Staying, Items
<1>4. CASE Items # {}
  <2>1. PICK i \in Items : i.start > now
    BY <1>4
  <2>2. cut \in Int /\ i.start \in Int /\ i.finish \in Int
    BY <1>2, CutsAfterAiring, ItemsAre DEF Item
  <2>3. CutAt(files, now, cut)
    BY <1>2, CutsBehindScreen
  <2>4. i.start >= cut
    <3>1. i.finish <= cut => i.start <= now
      BY <1>2, CutsBehindScreen DEF Items
    <3>2. i.finish <= cut \/ i.start >= cut
      BY <2>3 DEF CutAt, Items
    <3> QED BY <1>2, <2>1, <2>2, <3>1, <3>2
  <2>5. PICK j \in ItemsOnDisk(files) : j.start = cut /\ j.start > now
    <3>1. i \in ItemsOnDisk(files) /\ i.start >= now
      BY <1>2, <2>1, <2>2 DEF Items
    <3> QED BY <1>2, <2>4, <3>1, CutsAtStart
  <2> HIDE DEF cut
  <2>6. j \in Items /\ gen.items = {} /\ j.start > After
    BY <1>2, <2>2, <2>5, NothingInHand DEF Items, WriteSteps
  <2>7. Mark(sidecar.checkpoints, j)
    BY <2>6 DEF MInv, Marked
  <2>8. Following(Staying, NextPos)'
    BY <1>1, <1>2, <2>3, <2>5, <2>6, <2>7, CutKnows
  <2> QED BY <2>8 DEF KnowsNext
<1> QED BY <1>3, <1>4

LEMMA StillKnows ==
    ASSUME KnowsNext, pc \notin WriteSteps, Staying' = Staying, NextPos' = NextPos
    PROVE  KnowsNext'
BY DEF KnowsNext, Following

\* A step outside a wipe that starts none.
LEMMA RestsKnowing ==
    ASSUME KnowsNext, pc \notin WriteSteps, wipe.job = "none", wipe'.job = "none",
           files' = files, sidecar'.pos = sidecar.pos
    PROVE  KnowsNext'
<1>1. Staying' = Staying /\ NextPos' = NextPos
  BY DEF Staying, NextPos, Items
<1> QED BY <1>1, StillKnows

LEMMA RepairKnows == ASSUME IInv, HInv, CInv, MInv, InTurn, KnowsNext, Repair PROVE KnowsNext'
<1>1. pc = "repair" /\ UNCHANGED <<files, now, sidecar>> /\ wipe.job = "none" /\ pass.at = now
  BY DEF Repair, world, disk, CInv, Refreshing, WipeSteps, HInv, OnTime
<1>2. CASE UNCHANGED wipe
  BY <1>1, <1>2, RestsKnowing DEF WriteSteps
<1>3. ASSUME NEW i \in ItemsOnDisk(files), i.start > pass.at, StartWipe("repair", i.start)
      PROVE  KnowsNext'
  <2>1. i \in Items /\ i.start > now /\ gen.items = {} /\ After = now
    BY <1>1, <1>3, NothingInHand DEF Items, WriteSteps, After
  <2>2. Mark(sidecar.checkpoints, i)
    BY <2>1 DEF MInv, Marked
  <2>3. Sound(files, now) /\ CutAt(files, now, i.start)
    BY <1>1, <2>1, TimedNow, CutsBefore DEF HInv, Kept, Settled, Items
  <2>4. wipe'.job # "none" /\ wipe'.cut = i.start
    BY <1>3 DEF StartWipe
  <2>5. Following(Staying, NextPos)'
    BY <1>1, <2>1, <2>2, <2>3, <2>4, CutKnows
  <2> QED BY <2>5 DEF KnowsNext
<1> QED BY <1>2, <1>3 DEF Repair

LEMMA WipeKnows ==
    ASSUME IInv, HInv, LInv, TInv, KnowsNext, RemoveFile \/ TruncateFile \/ RemoveTruncated
    PROVE  KnowsNext'
<1>1. Staying' = Staying /\ TakesBehind
  BY WipeStandsStill, WipeTakes
<1>2. NextPos' = NextPos /\ pc \notin WriteSteps
  BY <1>1 DEF TakesBehind, NextPos, WriteSteps
<1> QED BY <1>1, <1>2, StillKnows

LEMMA RewindKnows == ASSUME IInv, HInv, TInv, KnowsNext, Rewind PROVE KnowsNext'
<1>1. Staying' = Staying
  BY RewindWhole
<1>2. NextPos' = NextPos /\ pc \notin WriteSteps
  BY RewindsToCut DEF NextPos, disk, WriteSteps
<1> QED BY <1>1, <1>2, StillKnows

LEMMA TruncateHistoryKnows == ASSUME KnowsNext, TruncateHistory PROVE KnowsNext'
<1>1. pc = "forget" /\ UNCHANGED <<files, sidecar, wipe>>
  BY DEF TruncateHistory, memory
<1>2. Staying' = Staying /\ NextPos' = NextPos
  BY <1>1 DEF Staying, NextPos, Items
<1> QED BY <1>1, <1>2, StillKnows DEF WriteSteps

\* Once the rewind is saved the line is what is on disk.
LEMMA SaveStays == ASSUME IInv, LInv, SaveRewind PROVE Staying' = Staying /\ Staying = Items
<1>1. pc = "keep" /\ files' = files /\ wipe'.job = "none"
  BY DEF SaveRewind, NoWipe
<1>2. \A i \in Items : i.finish <= wipe.cut
  BY <1>1 DEF LInv, Emptying
<1> QED BY <1>1, <1>2 DEF Staying, Items

LEMMA SaveRewindKnows == ASSUME IInv, HInv, LInv, MInv, KnowsNext, SaveRewind PROVE KnowsNext'
<1>1. pc = "keep" /\ wipe.job \in {"refresh", "repair"} /\ wipe'.job = "none"
  BY DEF SaveRewind, NoWipe, HInv, OnTime, IInv, WipeHasJob, WipeSteps, Jobs
<1>2. sidecar' = Rewound(sidecar, wipe.cut)
  BY <1>1 DEF SaveRewind, OwnMap, MInv, OneMap
<1>3. NextPos' = NextPos
  BY <1>1, <1>2 DEF NextPos
<1> QED BY <1>1, <1>3, SaveStays, StillKnows DEF WriteSteps

\* The sweep leaves the last item the last.
LEMMA SweepKnows == ASSUME Healthy, IInv, HInv, HInv', CInv, KnowsNext, Sweep PROVE KnowsNext'
<1>1. /\ pc = "sweep" /\ wipe' = wipe /\ sidecar' = sidecar /\ Items' \subseteq Items
      /\ \A i \in Items \ Items' : i.start < now /\ \A j \in Items' : i.start < j.start
  BY SweepsAged
<1>2. wipe.job = "none"
  BY <1>1 DEF CInv, Refreshing, WipeSteps
<1>3. Staying = Items /\ Staying' = Items' /\ NextPos' = NextPos
  BY <1>1, <1>2 DEF Staying, NextPos, Items
<1>4. \A i, j \in Items : i = j \/ i.finish <= j.start \/ j.finish <= i.start
  BY <1>1 DEF HInv, Kept, Settled, Sound, Apart, Items
<1>5. \A i \in Items : i.start \in Int /\ i.finish \in Int /\ i.start < i.finish
  <2>1. \A i \in Items : i.start < i.finish
    BY <1>1 DEF HInv, Kept, Settled, Sound, Tidy, Items, ItemsOnDisk
  <2> QED BY <2>1, ItemsAre DEF Item
<1>6. Following(Items, NextPos)
  BY <1>1, <1>3 DEF KnowsNext, WriteSteps
<1>7. ASSUME NEW i \in Items', \A j \in Items' : j.finish <= i.finish, NEW j \in Items
      PROVE  j.finish <= i.finish
  <2>1. CASE j \in Items'
    BY <1>7, <2>1
  <2>2. CASE j \notin Items'
    BY <1>1, <1>4, <1>5, <1>7, <2>2
  <2> QED BY <2>1, <2>2
<1>8. Following(Items', NextPos)
  BY <1>1, <1>6, <1>7 DEF Following
<1> QED BY <1>3, <1>8 DEF KnowsNext, Following

\* The sidecar takes the position after the generation's last item.
LEMMA SaveSidecarKnows ==
    ASSUME Cursor = "position", IInv, HInv, CInv, TInv, SaveSidecar
    PROVE  KnowsNext'
<1>1. pc = "save" /\ files' = files /\ wipe' = wipe /\ wipe.job = "none" /\ Items' = Items
  BY DEF SaveSidecar, CInv, Refreshing, WipeSteps, Items
<1>2. sidecar'.pos = gen.pos
  BY DEF SaveSidecar, Adopted, IInv, TypeOK, MemoryOK, Map
<1>3. Staying' = Items /\ NextPos' = gen.pos
  BY <1>1, <1>2 DEF Staying, NextPos
<1>4. PICK p \in Titles, n \in GenSizes : Batch(p, n)
  BY <1>1 DEF TInv, Extending, WriteSteps
<1>5. PICK k \in gen.items : k \in Items /\ k.finish = gen.to /\ k.pos = Title(p + n - 1)
  BY <1>1, <1>4, LastOfBatch
<1>6. p \in Nat /\ n \in Nat \ {0} /\ p + n - 1 \in Nat /\ p + n - 1 + 1 = p + n
  BY <1>4, BatchIs
<1>7. gen.pos = Title(k.pos + 1)
  BY <1>4, <1>5, <1>6, GoesOn DEF Batch
<1>8. Filled(files, now, gen.to)
  BY <1>1 DEF HInv, Kept
<1>9. \A i, j \in Items : i = j \/ i.finish <= j.start \/ j.finish <= i.start
  BY <1>8 DEF Filled, Apart, Items
<1>10. \A i \in Items : i.start \in Int /\ i.finish \in Int /\ i.start < i.finish
  <2>1. \A i \in Items : i.start < i.finish
    BY <1>8 DEF Filled, Tidy, Items, ItemsOnDisk
  <2> QED BY <2>1, ItemsAre DEF Item
<1>11. ASSUME NEW i \in Items, \A j \in Items : j.finish <= i.finish PROVE i = k
  <2>1. i.finish <= k.finish /\ k.finish <= i.finish
    BY <1>5, <1>8, <1>11 DEF Filled, Items
  <2> QED BY <1>5, <1>9, <1>10, <2>1
<1>12. Following(Items, gen.pos)
  BY <1>7, <1>11 DEF Following
<1> QED BY <1>3, <1>12 DEF KnowsNext, Following

\* A pass begins with something left to begin, so a refresh cuts before an item.
LEMMA BeginKnows ==
    ASSUME Healthy, IInv, HInv, CInv, MInv, Past, InTurn, KnowsNext,
           pc = "down" => Items = {} \/ \E i \in Items : i.start > now,
           pc = "idle" => \E i \in Items : i.start > now,
           Start \/ RollTick
    PROVE  KnowsNext'
<1>1. pc \in {"down", "idle"} /\ UNCHANGED <<files, sidecar, now>> /\ wipe.job = "none"
  BY DEF Start, RollTick, disk, CInv, Refreshing, WipeSteps
<1>2. After <= now
  BY <1>1 DEF After, Past, IInv, TypeOK, WorldOK
<1>3. CASE StartWipe("refresh", AiringFinish(files, now))
  BY <1>1, <1>2, <1>3, RefreshKnows
<1>4. CASE wipe' = wipe
  BY <1>1, <1>4, RestsKnowing DEF WriteSteps
<1> QED BY <1>3, <1>4 DEF Start, RollTick

LEMMA RestKnows ==
    ASSUME Healthy, IInv, HInv', CInv, MInv, KnowsNext,
           AdoptConfig \/ Heal \/ Plan \/ CaughtUp \/ GoDown
             \/ Clock \/ RequestRefresh \/ EditConfig \/ LoseTitle
    PROVE  KnowsNext'
<1>1. CASE AdoptConfig \/ Heal \/ Plan \/ CaughtUp \/ GoDown
  <2>1. pc \in {"config", "heal", "plan", "generate", "idle"} /\ files' = files
    BY <1>1 DEF AdoptConfig, Heal, Plan, CaughtUp, BackInLoop, GoDown, Healthy, disk
  <2>2. wipe.job = "none" /\ pc \notin WriteSteps
    BY <2>1 DEF CInv, Refreshing, WipeSteps, WriteSteps
  <2>3. wipe'.job = "none"
    <3>1. CASE Heal
      BY <2>2, <3>1 DEF Heal, StartWipe, HInv, OnTime
    <3>2. CASE GoDown
      BY <3>2 DEF GoDown, Forgotten, NoWipe
    <3>3. CASE AdoptConfig \/ Plan \/ CaughtUp
      BY <2>2, <3>3 DEF AdoptConfig, Plan, CaughtUp, BackInLoop
    <3> QED BY <1>1, <3>1, <3>2, <3>3
  <2>4. sidecar'.pos = sidecar.pos
    <3>1. CASE AdoptConfig
      <4>1. resume = sidecar /\ resume \in Map
        BY <3>1 DEF AdoptConfig, MInv, OneMap, IInv, TypeOK, MemoryOK
      <4> QED BY <3>1, <4>1 DEF AdoptConfig, Map
    <3>2. CASE ~ AdoptConfig
      BY <1>1, <3>2 DEF Heal, Plan, CaughtUp, BackInLoop, GoDown, disk
    <3> QED BY <3>1, <3>2
  <2> QED BY <2>1, <2>2, <2>3, <2>4, RestsKnowing
<1>2. CASE Clock \/ RequestRefresh \/ EditConfig \/ LoseTitle
  <2>1. UNCHANGED <<files, sidecar, wipe, pc>>
    BY <1>2 DEF Clock, RequestRefresh, EditConfig, LoseTitle, disk, memory
  <2>2. Staying' = Staying /\ NextPos' = NextPos
    BY <2>1 DEF Staying, NextPos, Items
  <2>3. CASE pc \in WriteSteps
    BY <2>1, <2>3 DEF KnowsNext
  <2> QED BY <2>2, <2>3, StillKnows
<1> QED BY <1>1, <1>2

\* Only a generation has new items.
LEMMA NoNewItems ==
    ASSUME Healthy, ShortOvershoot, IInv, HInv, LInv, [Next]_vars, ~ Generate
    PROVE  Items' \cup gen'.items \subseteq Items \cup gen.items
<1>1. HInv'
  BY StepsKeep
<1>2. CASE UNCHANGED <<files, gen>>
  BY <1>2 DEF Items
<1>3. CASE Start \/ AdoptConfig \/ Repair \/ Rewind \/ TruncateHistory \/ SaveRewind
  <2>1. UNCHANGED <<files, gen>>
    BY <1>3 DEF Start, AdoptConfig, Repair, Rewind, TruncateHistory, SaveRewind, disk, memory
  <2> QED BY <1>2, <2>1
<1>4. CASE Heal \/ Plan \/ RecordAirings \/ CaughtUp \/ RollTick
  <2>1. UNCHANGED <<files, gen>>
    BY <1>4 DEF Heal, Plan, RecordAirings, CaughtUp, BackInLoop, RollTick, disk, memory
  <2> QED BY <1>2, <2>1
<1>5. CASE Clock \/ RequestRefresh \/ EditConfig \/ LoseTitle \/ UNCHANGED vars
  <2>1. UNCHANGED <<files, gen>>
    BY <1>5 DEF Clock, RequestRefresh, EditConfig, LoseTitle, vars, disk, memory
  <2> QED BY <1>2, <2>1
<1>6. CASE RemoveFile \/ TruncateFile \/ RemoveTruncated
  <2>1. gen' = gen
    BY <1>6 DEF RemoveFile, TruncateFile, RemoveTruncated, memory
  <2> QED BY <1>6, <2>1, WipeTakes DEF TakesBehind
<1>7. CASE Sweep
  BY <1>1, <1>7, SweepsAged
<1>8. CASE WriteChunk
  <2>1. gen' = gen
    BY <1>8 DEF WriteChunk, memory
  <2> QED BY <1>8, <2>1, WriteChunkAdds
<1>9. CASE DropOthers
  BY <1>9, DropsNothing
<1>10. CASE SaveSidecar \/ GoDown
  <2>1. files' = files /\ gen'.items = {}
    BY <1>10 DEF SaveSidecar, GoDown, Forgotten, NoGen, disk
  <2> QED BY <2>1 DEF Items
<1>11. ~ (ZeroLength \/ Fail \/ LoseFile)
  BY NoFault DEF ZeroLength, Fail, LoseFile
<1> QED BY <1>3, <1>4, <1>5, <1>6, <1>7, <1>8, <1>9, <1>10, <1>11 DEF Next, Task, Environment

\* Its own follow each other, and the first the last of those before.
LEMMA GenerateInTurn ==
    ASSUME ~ Anchored, IInv, HInv, TInv, Continues, InTurn, Generate
    PROVE  InTurn'
<1>1. pc = "generate" /\ Items' = Items /\ gen.items = {}
  BY NothingInHand DEF Generate, disk, Items, WriteSteps
<1>2. PICK p \in Titles, n \in GenSizes :
        /\ {Shown(i) : i \in gen'.items} = {Programme(p, q) : q \in p .. p + n - 1}
        /\ Following(Items, p)
  BY LaysStretch
<1>3. p \in Nat /\ n \in Nat \ {0} /\ pass.from \in Int /\ Title(p) = p
  <2>1. p \in Nat
    BY ListAssumption DEF Titles
  <2> QED BY <2>1, GoesOn, PassAssumption DEF IInv, TypeOK, MemoryOK
<1>4. \A i \in gen'.items : \E q \in p .. p + n - 1 : Shown(i) = Programme(p, q)
  <2> TAKE i \in gen'.items
  <2>1. Shown(i) \in {Shown(j) : j \in gen'.items}
    OBVIOUS
  <2> QED BY <1>2, <2>1
<1>5. \A i \in gen'.items : \E q \in p .. p + n - 1 :
        q \in Nat /\ i.start = StartOf(p, q) /\ i.finish = StartOf(p, q + 1) /\ i.pos = Title(q)
  <2> TAKE i \in gen'.items
  <2>1. PICK q \in p .. p + n - 1 : Shown(i) = Programme(p, q)
    BY <1>4
  <2>2. q \in Nat
    BY <1>3
  <2> QED BY <2>1, <2>2 DEF Shown, Programme
<1>6. /\ \A q \in Nat : StartOf(p, q) \in Int
      /\ \A q, r \in Nat : q < r => StartOf(p, q) < StartOf(p, r)
      /\ StartOf(p, p) = pass.from
  BY <1>3, StretchRuns
<1>7. \A i \in Items : i.finish <= pass.from /\ i.start \in Int /\ i.finish \in Int /\ i.start < pass.from
  BY <1>1, ItemsAre, GenerationFollows DEF TInv, Extending, EndsHere, Item
<1>8. ASSUME NEW i \in Items \cup gen'.items, NEW j \in Items \cup gen'.items, i.finish = j.start
      PROVE  j.pos = Title(i.pos + 1)
  <2>1. CASE i \in Items /\ j \in Items
    BY <1>8, <2>1 DEF InTurn
  <2>2. CASE i \in Items /\ j \in gen'.items
    <3>1. PICK r \in p .. p + n - 1 : r \in Nat /\ j.start = StartOf(p, r) /\ j.pos = Title(r)
      BY <1>5, <2>2
    <3>2. ~ p < r
      <4> SUFFICES ASSUME p < r PROVE FALSE
        OBVIOUS
      <4>1. StartOf(p, p) < StartOf(p, r) /\ StartOf(p, r) \in Int
        BY <1>3, <1>6, <3>1
      <4> QED BY <1>3, <1>6, <1>7, <1>8, <2>2, <3>1, <4>1
    <3>3. r = p
      BY <1>3, <3>1, <3>2
    <3>4. i.finish = pass.from
      BY <1>6, <1>8, <3>1, <3>3
    <3>5. p = Title(i.pos + 1)
      BY <1>2, <1>7, <2>2, <3>4 DEF Following
    <3> QED BY <1>3, <3>1, <3>3, <3>5
  <2>3. CASE i \in gen'.items /\ j \in Items
    <3>1. PICK q \in p .. p + n - 1 : q \in Nat /\ i.finish = StartOf(p, q + 1)
      BY <1>5, <2>3
    <3>2. q + 1 \in Nat /\ p < q + 1
      BY <1>3, <3>1
    <3>3. StartOf(p, p) < StartOf(p, q + 1) /\ StartOf(p, q + 1) \in Int
      BY <1>3, <1>6, <3>2
    <3>4. j.start < pass.from /\ j.start \in Int /\ j.start = StartOf(p, q + 1)
      BY <1>7, <1>8, <2>3, <3>1
    <3>5. pass.from < StartOf(p, q + 1)
      BY <1>6, <3>3
    <3>6. FALSE
      BY <1>3, <3>4, <3>5
    <3> QED BY <3>6
  <2>4. CASE i \in gen'.items /\ j \in gen'.items
    <3>1. PICK q \in p .. p + n - 1 : q \in Nat /\ i.finish = StartOf(p, q + 1) /\ i.pos = Title(q)
      BY <1>5, <2>4
    <3>2. PICK r \in p .. p + n - 1 : r \in Nat /\ j.start = StartOf(p, r) /\ j.pos = Title(r)
      BY <1>5, <2>4
    <3>3. q + 1 \in Nat /\ StartOf(p, q + 1) \in Int /\ StartOf(p, r) \in Int
      BY <1>6, <3>1, <3>2
    <3>4. ~ q + 1 < r /\ ~ r < q + 1
      <4>1. StartOf(p, q + 1) = StartOf(p, r)
        BY <1>8, <3>1, <3>2
      <4>2. q + 1 < r => StartOf(p, q + 1) < StartOf(p, r)
        BY <1>6, <3>2, <3>3
      <4>3. r < q + 1 => StartOf(p, r) < StartOf(p, q + 1)
        BY <1>6, <3>2, <3>3
      <4> QED BY <3>3, <4>1, <4>2, <4>3
    <3>5. r = q + 1
      BY <3>1, <3>2, <3>3, <3>4
    <3> QED BY <3>1, <3>2, <3>5, GoesOn
  <2> QED BY <2>1, <2>2, <2>3, <2>4
<1> QED BY <1>1, <1>8 DEF InTurn

-----------------------------------------------------------------------------
(* Every step leaves something to begin *)

\* What no step but a few can disturb of it.
LEMMA AheadRests ==
    ASSUME IInv, HInv, NEW least \in Nat, NEW most \in Nat, Ahead(least, most),
           Items' \cup gen'.items \subseteq Items \cup gen.items,
           pc # "idle", pc' \notin {"idle", "down", "generate"} \cup WriteSteps,
           UNCHANGED tickAt, pass'.phase = pass.phase, pass'.at = pass.at
    PROVE  Ahead(least, most)'
BY DEF Ahead

LEMMA BeginAhead ==
    ASSUME NEW least \in Nat, NEW most \in Nat, Ahead(least, most),
           Items' \cup gen'.items \subseteq Items \cup gen.items,
           Start \/ RollTick
    PROVE  Ahead(least, most)'
<1>1. /\ pc' \notin {"idle", "down", "generate"} \cup WriteSteps
      /\ pass'.phase = "roll" => tickAt' = pass'.at + RollInterval
  <2>1. CASE Start
    BY <2>1 DEF Start, StartWipe, NoPass, WriteSteps
  <2>2. CASE RollTick
    BY <2>2 DEF RollTick, StartWipe, NoPass, WriteSteps
  <2> QED BY <2>1, <2>2
<1> QED BY <1>1 DEF Ahead

LEMMA MiddleAhead ==
    ASSUME Healthy, IInv, HInv, HInv', LInv, NEW least \in Nat, NEW most \in Nat, Ahead(least, most),
           Items' \cup gen'.items \subseteq Items \cup gen.items,
           AdoptConfig \/ Repair \/ RemoveFile \/ TruncateFile \/ RemoveTruncated
             \/ Rewind \/ TruncateHistory \/ SaveRewind \/ Sweep \/ Heal
    PROVE  Ahead(least, most)'
<1>1. CASE AdoptConfig \/ Repair \/ Heal
  <2>1. /\ pc # "idle" /\ pc' \notin {"idle", "down", "generate"} \cup WriteSteps
        /\ UNCHANGED <<tickAt, pass>>
    BY <1>1 DEF AdoptConfig, Repair, Heal, StartWipe, WriteSteps
  <2> QED BY <2>1, AheadRests
<1>2. CASE RemoveFile \/ TruncateFile \/ RemoveTruncated
  <2>1. /\ pc # "idle" /\ pc' \notin {"idle", "down", "generate"} \cup WriteSteps
        /\ UNCHANGED <<tickAt, pass>>
    BY <1>2 DEF RemoveFile, TruncateFile, RemoveTruncated, memory, WriteSteps
  <2> QED BY <2>1, AheadRests
<1>3. CASE Rewind \/ TruncateHistory
  <2>1. /\ pc # "idle" /\ pc' \notin {"idle", "down", "generate"} \cup WriteSteps
        /\ UNCHANGED <<tickAt, pass>>
    BY <1>3 DEF Rewind, TruncateHistory, memory, WriteSteps
  <2> QED BY <2>1, AheadRests
<1>4. CASE SaveRewind
  <2>1. pc = "keep" /\ pc' = AfterWipe /\ UNCHANGED <<tickAt, pass>>
    BY <1>4 DEF SaveRewind
  <2>2. wipe.job \in Jobs /\ wipe.job # "heal" /\ pass.phase \in {"startup", "roll"}
    BY <2>1 DEF IInv, WipeHasJob, WipeSteps, TypeOK, MemoryOK, HInv, OnTime
  <2>3. pc' \in {"config", "sweep", "heal"}
    BY <2>1, <2>2 DEF AfterWipe, Jobs
  <2> QED BY <2>1, <2>3, AheadRests DEF WriteSteps
<1>5. CASE Sweep
  <2>1. pc = "sweep" /\ pc' = "heal" /\ pass'.at = now /\ pass.at = now
    BY <1>5, SweepsAged DEF HInv, OnTime
  <2>2. tickAt' = tickAt /\ pass'.phase = pass.phase
    BY <1>5 DEF Sweep, IInv, TypeOK, MemoryOK
  <2> QED BY <2>1, <2>2, AheadRests DEF WriteSteps
<1> QED BY <1>1, <1>2, <1>3, <1>4, <1>5

LEMMA PlanAhead ==
    ASSUME IInv, HInv, TInv, NEW least \in Nat, NEW most \in Nat, Ahead(least, most),
           Items' \cup gen'.items \subseteq Items \cup gen.items, Plan
    PROVE  Ahead(least, most)'
<1>1. /\ pc = "plan" /\ pc' = "generate" /\ UNCHANGED <<tickAt, now>> /\ pass.at = now
      /\ pass'.phase = pass.phase /\ pass'.at = pass.at /\ pass'.generations = 0
  BY DEF Plan, world, IInv, TypeOK, MemoryOK, HInv, OnTime
<1>2. now <= pass'.from
  BY <1>1, PlanWhole DEF TInv, Extending, EndsHere
<1>3. pass'.from \in Int /\ now \in Nat /\ least * 0 = 0
  <2>1. now \in Int /\ pass'.from \in HighestFinishes(files, now)
    BY <1>1, TimedNow DEF Plan, IInv, TypeOK, MemoryOK
  <2> QED BY <2>1, TimedNow, ResumesPastNames
<1>4. pass'.from >= pass'.at + least * pass'.generations
  BY <1>1, <1>2, <1>3
<1> QED BY <1>1, <1>4 DEF Ahead, WriteSteps

LEMMA WriteAhead ==
    ASSUME Healthy, IInv, HInv, NEW least \in Nat, NEW most \in Nat, Ahead(least, most),
           Items' \cup gen'.items \subseteq Items \cup gen.items,
           WriteChunk \/ DropOthers \/ RecordAirings
    PROVE  Ahead(least, most)'
<1>1. pc \in WriteSteps /\ pc' \in WriteSteps /\ UNCHANGED <<tickAt, pass>>
  BY DEF WriteChunk, DropOthers, AfterChunk, RecordAirings, memory, WriteSteps
<1>2. gen'.to = gen.to
  BY DropsNothing DEF WriteChunk, RecordAirings, memory
<1> QED BY <1>1, <1>2 DEF Ahead, WriteSteps

LEMMA SaveSidecarAhead ==
    ASSUME IInv, NEW least \in Nat, NEW most \in Nat, Ahead(least, most),
           Items' \cup gen'.items \subseteq Items \cup gen.items, SaveSidecar
    PROVE  Ahead(least, most)'
<1>1. /\ pc = "save" /\ pc' = "generate" /\ tickAt' = tickAt
      /\ pass'.phase = pass.phase /\ pass'.at = pass.at
      /\ pass'.generations = pass.generations + 1 /\ pass'.from = gen.to
  BY DEF SaveSidecar, IInv, TypeOK, MemoryOK
<1>2. pass.from >= pass.at + least * pass.generations /\ gen.to >= pass.from + least
  BY <1>1 DEF Ahead, WriteSteps
<1>3. pass.from \in Int /\ pass.at \in Nat /\ pass.generations \in Nat /\ gen.to \in Int
  BY DEF IInv, TypeOK, MemoryOK
<1>4. /\ least * (pass.generations + 1) = least * pass.generations + least
      /\ least * pass.generations \in Nat
  BY <1>3
<1>5. pass'.from >= pass'.at + least * pass'.generations
  BY <1>1, <1>2, <1>3, <1>4
<1> QED BY <1>1, <1>5 DEF Ahead, WriteSteps

LEMMA GenerateAhead ==
    ASSUME ~ Anchored, IInv, HInv, TInv, Continues,
           NEW least \in Nat, NEW most \in Nat, Reaches(least, most), Ahead(least, most), Generate
    PROVE  Ahead(least, most)'
<1>1. pc = "generate" /\ pc' = "write" /\ Items' = Items /\ UNCHANGED <<pass, tickAt>>
  BY DEF Generate, disk, Items
<1>2. PICK p \in Titles, n \in GenSizes :
        /\ {Shown(i) : i \in gen'.items} = {Programme(p, q) : q \in p .. p + n - 1}
        /\ gen'.to = StartOf(p, p + n)
  BY LaysStretch
<1>3. p \in Nat /\ n \in Nat \ {0} /\ pass.from \in Int /\ \A q \in Nat : Airtime(q) \in Nat
  <2>1. \A q \in Nat : Airtime(q) \in Nat
    BY AirtimeGrows
  <2> QED BY <2>1, ListAssumption, PassAssumption DEF Titles, IInv, TypeOK, MemoryOK
<1>4. gen'.to >= pass.from + least
  <2>1. Airtime(p + n) - Airtime(p) >= least
    BY <1>3 DEF Reaches
  <2>2. Airtime(p + n) \in Nat /\ Airtime(p) \in Nat
    BY <1>3
  <2> QED BY <1>2, <1>3, <2>1, <2>2 DEF StartOf
<1>5. ASSUME NEW i \in gen'.items PROVE i.finish - i.start <= most
  <2>1. Shown(i) \in {Shown(j) : j \in gen'.items}
    OBVIOUS
  <2>2. PICK q \in p .. p + n - 1 : Shown(i) = Programme(p, q)
    BY <1>2, <2>1
  <2>3. q \in Nat /\ q + 1 \in Nat
    BY <1>3
  <2>4. i.start = StartOf(p, q) /\ i.finish = StartOf(p, q + 1)
    BY <2>2 DEF Shown, Programme
  <2>5. Airtime(q + 1) - Airtime(q) <= most /\ Airtime(q + 1) \in Nat /\ Airtime(q) \in Nat
        /\ Airtime(p) \in Nat
    BY <1>3, <2>3 DEF Reaches
  <2> QED BY <1>3, <2>4, <2>5 DEF StartOf
<1> QED BY <1>1, <1>4, <1>5 DEF Ahead, WriteSteps

\* A pass that is done has covered the window: its last item begins after the next
\* pass is due.
LEMMA CaughtUpAhead ==
    ASSUME IInv, HInv, TInv, NEW least \in Nat, NEW most \in Nat, Reaches(least, most),
           Ahead(least, most), Items' \cup gen'.items \subseteq Items \cup gen.items, CaughtUp
    PROVE  Ahead(least, most)'
<1>1. pc = "generate" /\ pc' = "idle" /\ Covered /\ UNCHANGED <<files, now>> /\ pass.at = now
  BY DEF CaughtUp, BackInLoop, disk, HInv, OnTime
<1>2. /\ now \in Nat /\ pass.from \in Int /\ pass.generations \in Nat
      /\ {Window, RollInterval, MaxGenerations} \subseteq Nat /\ Window > 0
  BY PassAssumption DEF IInv, TypeOK, WorldOK, MemoryOK
<1>3. tickAt' = now + RollInterval
  BY <1>1 DEF CaughtUp, BackInLoop, Ahead, IInv, TypeOK, MemoryOK
<1>4. pass.from >= now + Window
  <2>1. CASE pass.from >= Target
    BY <1>1, <2>1 DEF Target
  <2>2. CASE pass.generations >= MaxGenerations
    <3>1. pass.from >= now + least * pass.generations
      BY <1>1 DEF Ahead
    <3>2. least * pass.generations >= least * MaxGenerations
          /\ least * MaxGenerations = MaxGenerations * least
          /\ least * pass.generations \in Nat /\ least * MaxGenerations \in Nat
      BY <1>2, <2>2
    <3>3. MaxGenerations * least >= Window
      BY DEF Reaches
    <3> QED BY <1>2, <3>1, <3>2, <3>3
  <2> QED BY <1>1, <2>1, <2>2 DEF Covered
<1>5. PICK i \in Items : i.finish = pass.from
  BY <1>1, <1>2, <1>4 DEF TInv, Extending, EndsHere
<1>6. i.start \in Int /\ i.finish \in Int /\ i.finish - i.start <= most /\ RollInterval + most < Window
  BY ItemsAre DEF Item, Ahead, Reaches
<1>7. i.start > now + RollInterval
  BY <1>2, <1>4, <1>5, <1>6
<1>8. i \in Items' /\ now' <= tickAt'
  BY <1>1, <1>2, <1>3, <1>5 DEF Items
<1> QED BY <1>1, <1>3, <1>7, <1>8 DEF Ahead, WriteSteps

LEMMA GoDownAhead ==
    ASSUME Healthy, IInv, NEW least \in Nat, NEW most \in Nat, Ahead(least, most),
           Items' \cup gen'.items \subseteq Items \cup gen.items, GoDown
    PROVE  Ahead(least, most)'
<1>1. pc = "idle" /\ pc' = "down" /\ UNCHANGED <<files, now>> /\ pass'.phase = "startup"
  BY DEF GoDown, Forgotten, NoPass, Healthy, disk
<1>2. PICK i \in Items : i.start > tickAt /\ now <= tickAt
  BY <1>1 DEF Ahead
<1>3. i.start \in Int /\ now \in Nat /\ tickAt \in Nat
  BY ItemsAre DEF Item, IInv, TypeOK, MemoryOK
<1>4. i \in Items' /\ i.start > now'
  BY <1>1, <1>2, <1>3 DEF Items
<1> QED BY <1>1, <1>4 DEF Ahead, WriteSteps

LEMMA WorldAhead ==
    ASSUME Healthy, IInv, NEW least \in Nat, NEW most \in Nat, Ahead(least, most),
           Clock \/ RequestRefresh \/ EditConfig \/ LoseTitle \/ UNCHANGED vars
    PROVE  Ahead(least, most)'
<1>1. UNCHANGED <<files, gen, pass, pc, tickAt>> /\ Items' = Items
  BY DEF Clock, RequestRefresh, EditConfig, LoseTitle, vars, disk, memory, Items
<1>2. CASE Clock
  <2>1. pc = "idle" /\ now < tickAt /\ now' = now + 1
    BY <1>2 DEF Clock, Healthy
  <2>2. now' <= tickAt
    BY <2>1 DEF IInv, TypeOK, WorldOK, MemoryOK
  <2> QED BY <1>1, <2>1, <2>2 DEF Ahead, WriteSteps
<1>3. CASE ~ Clock
  <2>1. now' = now
    BY <1>3 DEF RequestRefresh, EditConfig, LoseTitle, vars, world
  <2> QED BY <1>1, <2>1 DEF Ahead
<1> QED BY <1>2, <1>3

LEMMA InitInTurn == ASSUME Init, NEW least, NEW most PROVE PInv(least, most)
<1>1. Items = {} /\ gen.items = {} /\ pc = "down" /\ wipe.job = "none" /\ pass.phase = "startup"
  BY DEF Init, Items, ItemsOnDisk, NoGen, NoWipe, NoPass
<1> QED BY <1>1 DEF PInv, InTurn, KnowsNext, Following, Staying, Ahead, WriteSteps

LEMMA StepsInTurn ==
    ASSUME Healthy, ShortOvershoot, ~ Anchored, Cursor = "position",
           NEW least \in Nat, NEW most \in Nat, Reaches(least, most),
           IInv, HInv, CInv, LInv, Past, TInv, MInv, PInv(least, most), [Next]_vars
    PROVE  PInv(least, most)'
<1>1. IInv' /\ HInv'
  BY StepsWell, StepsKeep
<1>2. InTurn /\ KnowsNext /\ Ahead(least, most)
  BY DEF PInv
<1>3. pc = "generate" => Continues
  BY <1>2, PositionContinues
<1>4. ~ (ZeroLength \/ Fail \/ LoseFile)
  BY NoFault DEF ZeroLength, Fail, LoseFile
<1>5. CASE Generate
  <2>1. Continues
    BY <1>3, <1>5 DEF Generate
  <2>2. KnowsNext'
    BY <1>5 DEF Generate, KnowsNext, WriteSteps
  <2> QED BY <1>2, <1>5, <2>1, <2>2, GenerateInTurn, GenerateAhead DEF PInv
<1>6. CASE ~ Generate
  <2>1. Items' \cup gen'.items \subseteq Items \cup gen.items
    BY <1>6, NoNewItems
  <2>2. InTurn'
    BY <1>2, <2>1 DEF InTurn
  <2>3. KnowsNext'
    <3>1. /\ pc = "down" => Items = {} \/ \E i \in Items : i.start > now
          /\ pc = "idle" => \E i \in Items : i.start > now
      <4>1. now \in Nat /\ tickAt \in Nat /\ \A i \in Items : i.start \in Int
        BY ItemsAre DEF Item, IInv, TypeOK, MemoryOK
      <4> QED BY <1>2, <4>1 DEF Ahead
    <3>2. CASE WriteChunk \/ DropOthers \/ RecordAirings
      BY <3>2 DEF WriteChunk, DropOthers, AfterChunk, RecordAirings, KnowsNext, WriteSteps
    <3>3. CASE UNCHANGED vars
      BY <1>2, <3>3 DEF KnowsNext, Following, Staying, NextPos, Items, vars, disk, memory
    <3> QED BY <1>1, <1>2, <1>4, <1>6, <3>1, <3>2, <3>3, BeginKnows, RestKnows, RepairKnows,
               WipeKnows, RewindKnows, TruncateHistoryKnows, SaveRewindKnows, SweepKnows,
               SaveSidecarKnows
            DEF Next, Task, Environment
  <2>4. Ahead(least, most)'
    BY <1>1, <1>2, <1>4, <1>6, <2>1, BeginAhead, MiddleAhead, PlanAhead, WriteAhead,
       SaveSidecarAhead, CaughtUpAhead, GoDownAhead, WorldAhead
    DEF Next, Task, Environment
  <2> QED BY <2>2, <2>3, <2>4 DEF PInv
<1> QED BY <1>5, <1>6

-----------------------------------------------------------------------------
(* Every step is a step of the line, or none *)

\* The steps that do not touch the line.
LEMMA MostStandStill ==
    ASSUME Healthy, IInv, HInv, HInv', CInv,
           AdoptConfig \/ Heal \/ Plan \/ Generate \/ DropOthers \/ RecordAirings \/ SaveSidecar
             \/ CaughtUp \/ GoDown \/ RequestRefresh \/ EditConfig \/ LoseTitle
    PROVE  UNCHANGED <<now, Line>>
<1>1. CASE AdoptConfig \/ Plan \/ Generate \/ RecordAirings \/ SaveSidecar
  <2>1. UNCHANGED <<files, now, wipe>>
    BY <1>1 DEF AdoptConfig, Plan, Generate, RecordAirings, SaveSidecar, world, disk, memory
  <2> QED BY <2>1, StandsStill DEF Staying, Items
<1>2. CASE RequestRefresh \/ EditConfig \/ LoseTitle
  <2>1. UNCHANGED <<files, now, wipe>>
    BY <1>2 DEF RequestRefresh, EditConfig, LoseTitle, disk, memory
  <2> QED BY <2>1, StandsStill DEF Staying, Items
<1>3. CASE CaughtUp \/ GoDown
  <2>1. UNCHANGED <<files, now>> /\ wipe.job = "none" /\ wipe'.job = "none"
    BY <1>3 DEF CaughtUp, BackInLoop, GoDown, Forgotten, NoWipe, Healthy, disk, CInv, Refreshing,
                WipeSteps
  <2> QED BY <2>1, StandsStill DEF Staying, Items
<1>4. CASE Heal
  <2>1. UNCHANGED <<files, now>> /\ wipe.job = "none"
    BY <1>4 DEF Heal, world, disk, CInv, Refreshing, WipeSteps
  <2>2. wipe'.job = "none"
    BY <1>4, <2>1 DEF Heal, StartWipe, HInv, OnTime
  <2> QED BY <2>1, <2>2, StandsStill DEF Staying, Items
<1>5. CASE DropOthers
  <2>1. Items' = Items /\ UNCHANGED <<now, wipe>>
    BY <1>5, DropsNothing DEF DropOthers
  <2> QED BY <2>1, StandsStill DEF Staying
<1> QED BY <1>1, <1>2, <1>3, <1>4, <1>5

\* The steps of a wipe leave what it has been decided that it leaves.
LEMMA WipesStandStill ==
    ASSUME IInv, HInv, LInv, TInv,
           RemoveFile \/ TruncateFile \/ RemoveTruncated \/ Rewind \/ TruncateHistory \/ SaveRewind
    PROVE  UNCHANGED <<now, Line>>
<1>1. now' = now
  BY DEF RemoveFile, TruncateFile, RemoveTruncated, Rewind, TruncateHistory, SaveRewind, world
<1>2. TruncateHistory => Staying' = Staying
  BY DEF TruncateHistory, memory, Staying, Items
<1>3. Staying' = Staying
  BY <1>2, WipeStandsStill, RewindWhole, SaveStays
<1> QED BY <1>1, <1>3, StandsStill

\* A pass begins with a refresh, which takes the future back, or without.
LEMMA BeginTakesBack ==
    ASSUME IInv, HInv, CInv, Start \/ RollTick
    PROVE  Promise!Next \/ UNCHANGED <<now, Line>>
<1>1. pc \in {"down", "idle"} /\ UNCHANGED <<files, now>> /\ wipe.job = "none"
  BY DEF Start, RollTick, disk, CInv, Refreshing, WipeSteps
<1>2. CASE StartWipe("refresh", AiringFinish(files, now))
  BY <1>1, <1>2, RefreshTakesBack DEF Settled
<1>3. CASE wipe' = wipe
  BY <1>1, <1>3, StandsStill DEF Staying, Items
<1> QED BY <1>2, <1>3 DEF Start, RollTick

LEMMA RepairMayTakeBack ==
    ASSUME IInv, HInv, CInv, Repair
    PROVE  Promise!Next \/ UNCHANGED <<now, Line>>
<1>1. pc = "repair" /\ UNCHANGED <<files, now>> /\ wipe.job = "none" /\ pass.at = now
  BY DEF Repair, world, disk, CInv, Refreshing, WipeSteps, HInv, OnTime
<1>2. CASE UNCHANGED wipe
  BY <1>1, <1>2, StandsStill DEF Staying, Items
<1>3. ASSUME NEW i \in ItemsOnDisk(files), i.start > pass.at, StartWipe("repair", i.start)
      PROVE  Promise!Next
  BY <1>1, <1>3, RepairTakesBack DEF Items
<1> QED BY <1>2, <1>3 DEF Repair

LEMMA ClockTicks == ASSUME IInv, Clock PROVE Promise!Next
<1>1. UNCHANGED <<files, wipe>> /\ now' = now + 1 /\ now \in Nat
  BY DEF Clock, disk, memory, IInv, TypeOK, WorldOK
<1>2. Line' = Line
  BY <1>1 DEF Line, Shown, Items, ItemsOnDisk
<1>3. now' > now
  BY <1>1
<1> QED BY <1>2, <1>3 DEF Promise!Next, Promise!Tick

LEMMA StepsOfTheLine ==
    ASSUME Healthy, ShortOvershoot, IInv, HInv, CInv, LInv, TInv, [Next]_vars
    PROVE  [Promise!Next]_<<now, Line>>
<1>1. HInv'
  BY StepsKeep
<1>2. ~ (ZeroLength \/ Fail \/ LoseFile)
  BY NoFault DEF ZeroLength, Fail, LoseFile
<1>3. CASE UNCHANGED vars
  BY <1>3, StandsStill DEF vars, world, disk, memory, Staying, Items
<1> QED BY <1>1, <1>2, <1>3, MostStandStill, WipesStandStill, BeginTakesBack, RepairMayTakeBack,
           SweepForgets, ChunkExtends, ClockTicks
        DEF Next, Task, Environment

-----------------------------------------------------------------------------
(* The theorem *)

\* On a healthy disk the loop of a channel keeps Timeline's promise (daemon.rs:2747):
\* seen by a viewer every step of it extends the line at its end with the titles that
\* come next in the list, takes back what has not begun, forgets what has aired beyond
\* the retention, lets time pass or does nothing.  The list is one that is not joined at
\* an anchor; a channel that keeps its place in the sidecar covers, at every pass, more
\* than an item beyond the next one, so that a refresh has a checkpoint to rewind to
\* (resume.rs:456).
THEOREM ImplementsTimeline ==
    ASSUME Healthy, ShortOvershoot, ~ Anchored, Cursor = "position" => ReachesAhead
    PROVE  Spec => KeepsItsPromise
<1>1. PICK least \in Nat, most \in Nat : Cursor = "position" => Reaches(least, most)
  BY DEF ReachesAhead
<1> DEFINE Inv == /\ IInv /\ HInv /\ CInv /\ LInv /\ Past /\ TInv
                  /\ Cursor = "position" => MInv /\ PInv(least, most)
<1>2. Init => Inv
  BY InitWell, InitKept, InitConfigured, InitBooked, InitMarked, InitWhole, InitInTurn
<1>3. ASSUME Inv, [Next]_vars PROVE Inv'
  <2>1. IInv' /\ HInv' /\ CInv' /\ LInv' /\ Past'
    BY <1>3, StepsWell, StepsKeep, StepsConfigure, StepsBook, StepsPast
  <2>2. pc = "generate" => Continues
    BY <1>3, SeriesContinues, PositionContinues, PassAssumption DEF PInv
  <2>3. TInv'
    BY <1>3, <2>2, StepsWhole
  <2>4. Cursor = "position" => MInv' /\ PInv(least, most)'
    BY <1>1, <1>3, StepsMark, StepsInTurn
  <2> QED BY <2>1, <2>3, <2>4
<1>4. Inv /\ [Next]_vars => Inv'
  BY <1>3
<1>5. Inv /\ [Next]_vars => [Promise!Next]_<<now, Line>>
  BY StepsOfTheLine
<1>6. Init => Promise!Init
  <2> SUFFICES ASSUME Init PROVE Line = {}
    BY DEF Promise!Init
  <2> QED BY DEF Init, Line, NoWipe, Items, ItemsOnDisk
<1> HIDE DEF Inv
<1>7. Spec => KeepsItsPromise
  BY <1>2, <1>4, <1>5, <1>6, PTL DEF Spec, KeepsItsPromise, Promise!Spec
<1> QED BY <1>7

=============================================================================
