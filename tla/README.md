# Verification of etv-station

etv-station is a daemon that keeps one endless playout schedule per television
channel on disk, for ErsatzTV-next to stream. This directory holds TLA+ models
of its concurrent and crash-prone parts, the TLC configurations that check them
on small instances, and TLAPS proofs of what matters most for every instance.
Paths below are relative to the repository root; `daemon.rs` and the like stand
for `src/crates/etv-station/src/...`.

    tlc -workers 2 -config ChannelLoop_calm.cfg MCChannelLoop.tla
    tlapm ChannelLoopProofs.tla

`PROJECT.json` lists components, runs, mutants, source lines, findings, hazards
and theorems.

## 1. Inventory

### The parts and how they meet

```
   SIGHUP/SIGUSR1/SIGTERM       dashboard (web_ui)         bumper scripts
            |                   | edits, .refresh-now           | etv-station enqueue
            v                   v                               v
   +-- run / run_generation (daemon.rs) ----------+      queue dir: plans, states
   |   listener -> Notify x3, Cancel              |             ^
   |   supervise(channel loop)   x channels ------+--+          | render-sidecar
   |   overlay_supervisor::run   x overlays       |  |          v
   |   hook bus, watchers, ingest, sweeps         |  |     chapters, stems
   +----------------------------------------------+  |
        | spawns            writes                   v
        v            play history (sqlite), .resume, chunk files
   etv-overlay process                               |
        | frames through a fifo                      | read
        v                                            v
   ErsatzTV-next worker  <----- item to play -- playout lookup
```

| Component | State it keeps | Operations | What is hard | What makes it correct |
|---|---|---|---|---|
| **Playout folder** (`emit.rs`, `scan.rs`, parts of `daemon.rs`) | chunk files `<start>_<finish>.json`; the name claims a span | grow a chunk, scan for the frontier, a gap, the item on screen; truncate, sweep | an item straddles a boundary and is in two files; a rename leaves two files for a chunk for a moment | every instant a name claims is covered by an item of that file; no hole; no two items at once |
| **Channel loop** (`daemon.rs` `forward_channel_loop`, `pattern_catch_up`; `resume.rs`) | resume map and its checkpoints, on disk as `.resume`; the refresh marker | startup, refresh, repair, sweep, heal, generate, write, record, save, roll | a crash between any two writes; an error in the middle of a wipe; time moves on while a pass runs | files, ledger and sidecar agree after every pass and are in a known order at every step; list neither repeats nor skips |
| **Play history** (`history.rs`) | a row per airing | record, truncate_from, series_cursor, recency queries | written apart from the files it describes | a row exactly for what is on disk |
| **Channel supervisor, error card** (`daemon.rs` `supervise`, `channel_card.rs`) | restart delay, card files | restart, show and clear the card | the card file and the loop's chunk files overlap | never a card over playable content, never black while failing |
| **Daemon generations** (`daemon.rs` `run`, `run_generation`, `prepare_generation`) | station, last good one, reload record, three Notify permits, Cancel | ingest, prepare, load, revert, spawn, select, join | signals at any moment, tasks that fail while others stop, an edit that loads but does not prepare | one generation at a time; an edit never takes the station off the air; no signal is lost |
| **Dashboard apply** (`web_ui/apply.rs`, `reload_status.rs`) | the sequence number noted before the edit | replace file, signal, poll the record | shares only a file and a signal with the daemon | the verdict shown is about that edit |
| **Playout rewriters** (`reconcile.rs`) | none; rewrite chunk files | swap a missing title, swap a pending bumper | write by name beside the loop that owns the file | never bring back a file or item the loop has cut |
| **Overlay supervisor and process** (`overlay_supervisor.rs`, `crates/etv-overlay`) | wanted and ready markers, fifo, "cold" | spawn on demand, observe, reap, retire; warm up, open, write, idle out | three processes, a fifo that blocks both ends, deadlines on both sides | an item that asks gets its overlay in time; an overlay nobody reads goes away |
| **Render queue** (`crates/etv-render`: `queue.rs`, `cache.rs`) | plan and state file per job, outputs, stems | enqueue, recover, claim, render, report, enforce the cap | read-modify-write by several processes with no lock; death between two writes | a job is rendered or fails; a chapter is there until it has aired; the cache comes under its cap |
| **Catalog and ingest** (`catalog/`, `catalog/ingest/`) | sqlite rows, `missing_since` | full and delta ingest, refresh | two sources that see one file under changing identities, passes that are partial, fail or are given up, a library that changes while it is read | nothing that changed is lost; a title is marked missing only by a full listing; one file is one entry; a bad file stays out |
| **Event hooks** (`hooks.rs`) | one slot per hook, playback offset | emit, run, skip, cancel, drain | a firing while the worker of its slot goes, a log that is dropped and begun anew, a look at it that fails, a program left behind with the output, a reload while one runs | no line is lost, each fires in order and, while the looks succeed, once; no hook runs twice at a time; a reload ends |
| **Adjacency pass** (`constrain.rs`) | none | order a list so that no two items that must be apart are near | limits in places and in time, across the seam to what aired | loses nothing, reports every conflict it leaves |
| **Pattern engine** (`pattern.rs`) | cursor, turn and lap of each pool, in the ledger and the sidecar | build, visit, serve, rewind | a build may end in the middle of a visit and be taken back to any slot | a rewind reproduces what it takes back; no series loses an episode or its turn |
| **Resolver** (`resolve.rs`, `variety.rs`) | position of each list, in the sidecar | pick the list on the air, seat, cut, order, state after each item | one generation airs one list of several, cut where slot or seed changes; the order is changed after the cut | each list goes on where it stopped, nothing starts outside its hours |
| **Slot rotations, calendar** (`rotation.rs`, `calendar.rs`, `config/schedule.rs`) | draws, pass and members drawn of each rotation, in the sidecar | hit, placement, draw, forget | a placement is laid in several generations; the draws are rewound with the schedule; hours wrap past midnight | one member per placement, no member twice in a pass or within the gap |
| **Scores, sequencers** (`score.rs`, `sequence.rs`) | caches | rank, lay a day | expressions and scripts | - |
| **Bumpers, audio facts, durations, overlay timeline, configuration, other web handlers, ErsatzTV-next** | caches and files | pure or one request at a time | little concurrency | - |

### Hazards

`PROJECT.json` lists each one at its line with the properties that guard it. The
themes: a crash or an error between the chunk file, the ledger and the sidecar
of one generation; a cut (refresh, repair, heal, sweep) that must fall at an item
boundary for which a checkpoint still exists; a straddling item with one half
written; a signal that arrives while the daemon is not waiting for it; a reload
that fails at each of its stages; a reader's request that races an overlay's
exit; a stale job state written over a newer one; cards laid while the loop is
away and cleared before it is back; a build that is cut and taken back inside a
visit; a delta listing that misses what changed while it was read; a firing that
comes while its worker goes; a list or a draw that a rewind does not take back with the
schedule.

## 2. Modules

| Module | Models | Composes |
|---|---|---|
| `PlayoutFolder` | the files, names, scans and cuts as pure operators; ErsatzTV-next's lookup (`Playable`) | - |
| `ChannelLoop` | the loop of one channel with its sidecar and ledger | `PlayoutFolder` |
| `Timeline` | what a channel promises its viewers: the abstract specification | - |
| `ChannelTimeline` | the refinement mapping from the loop to it | `ChannelLoop`, `Timeline` |
| `ChannelSupervisor` | `supervise` and the error cards around the loop, the reconciliation sweep beside it | `ChannelLoop` |
| `DaemonReload` | generations, signals, reload record, dashboard apply | - |
| `OverlayHandshake` | supervisor, overlay process, worker, fifo and markers | - |
| `RenderQueue` | queue directory, enqueue processes, sidecar and cache | - |
| `Constrain` | limits, conflicts and swaps of the adjacency pass as pure operators | - |
| `Adjacency` | the pass itself, place by place and swap by swap | `Constrain` |
| `ChannelResolver` | generation after generation of a channel of lists, slots and rotations | `Adjacency` |
| `PatternWalk` | the walk of a build over blocks and pools, with what it saves and what a rewind restores | `Constrain` |
| `CatalogIngest` | disk scan and Plex passes into the catalog, with disk and library changing | - |
| `EventHooks` | playback log, its watcher, the hook bus and a reload | - |
| `MC...` | instances of the module of that name for TLC (`MCChannelLoop`: of `ChannelTimeline`) | |
| `ChannelLoopProofs` (with `PlayoutFolder`), `ChannelHealthProofs`, `DaemonReloadProofs`, `OverlayHandshakeProofs`, `RenderQueueProofs`, `EventHooksProofs`, `CatalogIngestProofs`, `ChannelResolverProofs` (with `Adjacency`) | theorems | their components, `TLAPS` |

An operator whose comment says *is the mutant that ...* or *Mutant of ...* is not part of the model:
it is a plausible mistake put in the place of its neighbour to see that a
property notices (section 4).

### PlayoutFolder and ChannelLoop

A file is its name (start, finish) and a set of items; an item knows its place in
the channel's endless list, the configuration it was laid under and the edition
of the library (how many titles had been lost). Operators have the code's names:
`ItemsCovering`, `HighestFinishes`, `FirstCoverageGap`, `RegenFloors`,
`AiringFinish`. Where the code's answer depends on the directory order of two
files with one start, the operator returns the set of answers.

`ChannelLoop` has a `pc` for the channel's task. Every write to the disk is an
action, together with the computation in memory around it:

| Actions | Code |
|---|---|
| `Start`, `AdoptConfig`, `Repair` | `forward_channel_loop` up to its loop: sidecar, marker or stale configuration, titles gone from the library |
| `RemoveFile`, `TruncateFile`, `RemoveTruncated` | `wipe_playout_from`, `truncate_playout_at` |
| `Rewind`, `TruncateHistory`, `SaveRewind` | `rewind_to_surviving`: map, ledger, sidecar, in that order |
| `Sweep`, `Heal`, `Plan` | the head of `pattern_catch_up` |
| `Generate`, `WriteChunk`, `DropOthers`, `RecordAirings`, `SaveSidecar` | one generation: checkpoint, resolve, `emit_window` chunk by chunk, ledger, sidecar |
| `CaughtUp`, `ZeroLength`, `RollTick` | the end of a catch-up, the next tick |
| `Fail`, `GoDown` | an error at any fallible call; a shutdown between passes or a crash anywhere |
| `Clock`, `RequestRefresh`, `EditConfig`, `LoseTitle`, `LoseFile` | the world |

What a generation picks is one of two: a flat list whose position is in the
sidecar (`Cursor = "position"`), or a pool whose place is the latest row of the
play history (`"series"`).

A generation lays titles until the window is covered, the one that crosses its end
included (`Sized`; `resolve.rs:1435`). The code goes by lengths it may have to guess,
and a pattern finishes its cycle: `Misjudged` is the airtime by which a
generation may be sized too long for that. It may always be sized too short.

### Timeline and ChannelTimeline

`Timeline` knows no file, chunk, sidecar or pass: a line of programmes is
extended at its end where the list goes on (`Extend`), its future is taken back
from behind the programme on screen (`TakeBack`), what is older than the
retention is forgotten, time passes. `ChannelTimeline` maps the loop to it: the
line is what the items on disk say, and from the moment a wipe is decided on,
what it will leave of them. So the many steps of a wipe are one `TakeBack`
followed by stutters, and a generation is an `Extend` for each chunk. The
property `KeepsItsPromise` says that every behaviour of the loop on a healthy disk
is one of `Timeline`.

### ChannelSupervisor

The loop of `ChannelLoop` runs inside a stage of the supervisor: `scan` and
`clear` take the cards out of the future (`ScanCards`, `ClearFile`,
`RemoveCleared`; `wipe_cards_from`), `run` is the loop, `cover` lays cards after
what is written with the loop's own writer, `rest` and `backoff` wait. A card is
an item that plays no title. `damage` is no state of the program: it notes what
failures have left on the disk, so that the properties can say what they assume.
`"leftover"` is a chunk under two names because a removal failed; `"torn"` a
write, a wipe or a roll tick that was broken off; `"uncleared"` cards that could
not be taken out. What each costs the channel, as TLC shows it: with a leftover,
cards and items may be on disk for one time; a torn straddler is black for its
tail (section 5); and when the cards cannot be cleared, the schedule is laid
after them, the next attempt clears them, sees a hole, heals it by wiping that
schedule, and finds no checkpoint early enough: the list skips.

The sweep (`SweepReads`, `SweepWrites`) keeps the file it has read while the loop
goes on; only `sweeprace` lets it run.

### Constrain and Adjacency

The operators bear the names of the functions. An order is a sequence of item
numbers, a line is what aired followed by the items in that order, and a distance
is in places and in airtime. `Place` takes one item, `Improve` is one round of the
repair. That a swap helps and that the repair ends are the shape of
`Improvements`; the comment that the repair stops only when no swap helps
(`constrain.rs:404`) is not checked. `Begin` and `Finish` are the call and the
return, for the module that has the list; `PassSpec` is the pass over any lists, one after
another, which the proofs are about.

### ChannelResolver

`Generate` is a turn of `pattern_catch_up` up to the call of the adjacency pass:
which slot is on (`OnAir`), which member of a rotation stands for it (`Drawn`), where its list goes on (`Seated`) and how much of it is laid
(`ItemsCovering` of `Fill`). `Constrained` is a step of `Adjacency`. `Adopt` lays
the items and books the state entering each of them (`Entering`, `CheckpointAt`);
`Rewind` cuts the schedule at the start of an item and takes back the state of the
latest checkpoint before it. The disk is left to `ChannelLoop`: here a generation
and a rewind are whole. A row of `ledger` also keeps what the properties compare:
the slot and the draws it came from, where the list was seated, the place of the
item in it, and whether limits bound the list.

`Valid` says which channels validation lets through (`config/validate.rs`), as far as anything here
depends on it: lists with entries, hours that name slots, rotations with members and weights above
zero that never come back to themselves. TLC evaluates it on every channel of the run.

`seams` notes the rewinds that found no checkpoint, after which the code says a
list may skip (`daemon.rs:2123`). `SlotsAir` reads the hours off the schedules by
placements (`Claims`), not by the day and minute of the code, and leaves out the lists that limits
bind, which may run over their time (section 5). `RotationsTurn` keeps to what a draw can know: fewer placements than members lie in
its gap, and `RecentCap` draws reach as far as one rewind takes back.

### PatternWalk

A channel is a record of pools and a pattern of draws. A build (`StartBuild` ...
`EndBuild`) goes over the pattern place by place: `OpenVisit`, a `Step` per slot,
`OpenServing`, `TakeFrom`, `PassOn`, `CloseServing`, each with the checks and rolls
of the code; `Book` enters an airing with the state a rewind to it would need.
`Rewind` goes back to any checkpoint. A roll is the constant operator `Roll` of
seed, cycle, step and nonce. `redone` says that a visit that cannot be resumed was
taken up again. `Reproduces` leaves out pools with a gap and visits of random pools
that wrap or share a channel gap: there the code re-rolls what it takes back (the
comment at `pattern.rs:847` has it otherwise), and a series grouped by season
(`pattern.rs:2814`) starts its other seasons over by design. Two rewinds to one
frontier restore the state of the earlier one.

### CatalogIngest

`disk` and `plex` are the world, `catalog` its rows, `pass` the refresh in flight:
`Walk`, `WriteScan` (or `FailScan`), `FetchPage` by page, `Write`, `Abandon`. The
clock of Plex is the daemon's, and every change stamps its item, as Plex does
for those with an `updatedAt` (`Dated`). The write of a scan and the plan of the
Plex pass are one step, as are the fetch and write of collections. `moved` notes
the Plex rows without a verdict on their file: those written with another file
since the last scan, and those whose file came to their entry in a scan that had no
answer for it.

### EventHooks

A line of the log is a number; `due` is what a hook was promised and `begun` what
it was run for. A slot is a queue, a flag that a worker is there, and the run.
Lines written between the last poll of a generation and the first of the next are
never fired, nor are those in a file that is dropped unread, nor what comes to a
full queue (whose log line says no boundary is lost): `due` excludes them, since the code accepts each. `LookFails` is a look that the system fails, at the
opening of the log, at its length or at its reading; after the first two the
watcher goes by an offset that is not how far it was, and `again` holds the lines
that are before it once more (`NextGeneration` has the same choice for the first
look of a watcher). A run ends when its program does and the output is read to its
end: `RunEnds`, also for a program killed at its time limit or by a cancel.
`ProgramLeaves` is the program that has ended by itself and left another with its
output; the run is `held` until that one lets go (`OutputCloses`), past the time
limit and past a cancel (`hooks.rs:351`). What the watcher has not seen (`Unseen`) is what is past its
offset, or the whole file where it stands past the end of it; so a file dropped
twice between two looks takes with it what was written in between. `NotRewritten` assumes that between two polls a worker
does not write as much as the whole old log, which would hide that it was begun
anew.

### DaemonReload

`pc` is where `run` stands; the biased `select` is `Wins`; `Notify::notify_one` is
a permit of 0 or 1. A configuration is a version and what it is worth: it loads
and prepares, loads only, or does not parse. An `Arc` has an identity, because
`prepare_generation` compares pointers. `client` is one dashboard apply and the
poll for its verdict.

### OverlayHandshake

The supervisor polls once per unit of time; its actions are what a poll can
find. The overlay process is a phase, the deadline of that phase and which fifo
it holds; a worker asks (`Touch`), opens, reads, stalls, gives up. Removing and
making the fifo again makes another fifo, so a process may wait at one nobody
else can open. `excused` notes that a crash or a reload came between an item's
request and now: such an item may play without its overlay, as
`overlay_supervisor.rs` says.

### RenderQueue

Each process reads a job's state, decides on its copy and writes the whole state
back; each read and each write is an action (`Enqueue`/`UpdateAirTime`,
`Enqueue`/`WritePlan`/`WriteState`, `Take`/`Claim`/`Renders`/`Report`,
`ListForCap`/`RemoveOutput`/`Mark`). `raced` collects the plans whose state was
written from a copy that was no longer the newest: what the code promises of a
job holds until then, and `LeftAsItIs` fails in this model (section 5). The
channels of a station are tasks beside each other and the bumper scripts of each
may enqueue, with no lock between them: there may be any number of `Clients`, and
no property assumes that they take turns.

## 3. Runs

| Run | Question | States |
|---|---|---|
| `calm` | On a healthy disk, with passes on time: do a config edit, a forced refresh, a lost title and a restart, in every order, leave a line that keeps the promise of `Timeline`, playable at every step, matched by ledger and checkpoints? | 149 thousand |
| `crash` | A crash around any write, an error, a file lost: do ledger and sidecar stay behind the files, does the next pass fill the hole it sees? | 2.0 million |
| `supervised` | A loop that fails again and again, at any step, under its supervisor, with a title that straddles chunk boundaries, with a lost title and a restart, for a pool that continues from the ledger: are cards where they belong, does the list go on, is the window covered in the end? Is all of a generation on disk when its chunk passes are done? | 1.4 million |
| `reload` | Edits, applies, signals, failing tasks, a failing machine. | 568 thousand |
| `overlay` | Items that come at any moment of an overlay's life, a crash, a reload. | 133 thousand |
| `renders` | Two plans with shared stems, three enqueues, a cache of one entry, one trouble: is a chapter there until it has aired, does the cache come under its cap, is every job served? | 1.35 million |
| `resolver` | Every list of four items of four entries, in places, in time or both, after nothing or two that aired; slots, rotations and seeds over three days, with rewinds. | 213 thousand |
| `walk` | Twenty-three channels, four seeds, builds that end where they may and rewinds to any checkpoint. | 274 thousand |
| `ingest` | Two items and two files over three seconds, disk, library and a collection changing between any two steps. | 2.9 million |
| `hooks` | Five lines, a dropped log, a look that fails, a hook behind a queue of one, a cron hook, programs left behind, a reload. | 689 thousand |
| `sweeprace` | finding | |
| `comeback` | finding | |

The properties and what they mean are stated in comments where they are defined.

**Bounds and why they are enough.**

* *ChannelLoop*: `calm` has four titles of two and three units on chunks of
  three, so that within a window of two chunks items start at, end at and
  straddle boundaries in every way an item no longer than a chunk can;
  `GenSizes` of one to four and `Misjudged` of two, so that a generation ends
  inside a chunk, at its end, or is as long as the whole window and what its last
  item adds: ten units over four chunks, as the one after a start or a refresh is
  in the code. `MaxNow` lets files age past the retention. `crash` uses
  titles that tile an even chunk: with straddlers the code has the hole of
  section 5, which would end the run before anything else is seen.
  `GenerationOnDisk`, which holds of them too, is checked with a straddling title by
  `supervised`, where the loop fails between the two files and is started again. One
  event of each kind is enough for each pair of kinds to interleave; `crash` has an
  outage, a fault and a lost file together.
* *ChannelSupervisor*: `supervised` has two titles of two units and one, three
  faults (the first card needs two failures in a row, so a third can meet the
  cards), one lost title, one restart.
* *DaemonReload*: one reported and one unreported task, an edit by hand, an
  apply, one signal of each kind, one failing task, one fault of the machine:
  every stage of a reload can fail and can be interrupted by a second reload.
* *OverlayHandshake*: four items, so that a request can meet a warm, an idle, an
  exiting and a retired overlay; timeouts just large enough for
  `TimeoutAssumption`, which the code's constants satisfy.
* *RenderQueue*: a cache of one entry with renders of two or three, so that every
  render has to evict, and stems that two plans share. One enqueue process, which
  may step between any two of the sidecar, with two air times, so that one
  is given over the other, aired or not. With two processes (`Clients` of two,
  `AirTimes = {1}`, `MaxNow = 2`, `MaxEnqueues = 4`: 6.0 million states) TLC finds
  `WithinCap` to hold as well; that run is over the size kept here, and the
  theorems are for any number of processes.
* *ChannelResolver*: for the adjacency pass, limits of two blocks in places,
  time or both; four items are the fewest where a swap can mend one conflict and make
  another. For the calendar, days of four minutes in weeks of two days: ranges
  that touch, wrap past midnight, lie under a weekday and under a date; items of
  one and two minutes, so that one runs into the next slot. Rotations of three, placed three times
  a day in the six minutes ahead, so that a pass is over, begun and taken back
  within one window; one rewind, two where none of the lists is re-ordered.
* *PatternWalk*: the channels of `MCPatternWalk` have one feature each (an order,
  a quota, a gap, a prelude, a group, a shared or nested pool) and the pairs
  whose code meets; seven airings let every pool of two or three titles wrap.
* *CatalogIngest*: two items, because the matching of one depends on the rows of
  another; two files, so that an item can move and a file can change its owner;
  three seconds, so that a stamp can lie before, in and after a listing. The two
  items and the two files are symmetric: nothing but the GUIDs tells them apart.
* *EventHooks*: a queue of one is full at the second firing; five lines fill,
  drop and begin a log of two; one look may fail, in either generation. Hooks share
  nothing but the bus and the watcher, so one on lines and one by the clock are
  enough; two generations have one reload between them.

**Deadlock** is checked in `calm`, `crash`, `reload` and `overlay`. Elsewhere
the system of the model ends: the clock, the log or the
airings have reached their bound, a queue is empty for good.

**Fairness.** `ChannelSupervisor` (`SFairSpec`): `WF` of the supervisor and of the
loop it runs, because the runtime polls a task that can go on, and of the clock.
`DaemonReload`: the daemon, the listener for each signal (tokio's `select` picks
its arms at random), and each task that was told to stop, whose passes and sleeps
end. `OverlayHandshake`: every process is scheduled, its deadlines expire and
items end. `RenderQueue`: the sidecar, which `docker/entrypoint.sh` starts again
whenever it ends, and whose renders end; the failing of a render is not assumed,
nor excluded. `EventHooks`: weak fairness of the watcher that looks and fires, of
the workers and of the station, which the runtime polls, and of `RunEnds`, because a
program that still runs is killed at its time limit. There is none for
`OutputCloses`: nothing makes a program that was left behind let go of the output,
so `ReloadEnds` has it as its hypothesis that no run is held for ever. The watcher's
stop has strong fairness: its `select` is biased, the permit to stop is stored and
its arm is asked first (`hooks.rs:850`), so the stop is taken before the next look
and is not put off for ever by looks that find lines.

## 4. Mutants

Every property of every passing run has a mutant in `PROJECT.json`: a definition
of the model replaced by a plausible bug, under which TLC finds that property
violated in that very run. Some have two or three, one for each thing the property says.

## 5. Findings

Two runs each end in a counterexample:

* `comeback` (`catalog/ingest/fs.rs:252`): a film that Plex named stays missing
  after its file is back, since the disk scan clears `missing_since` only on
  entries it named itself.
* `sweeprace` (`reconcile.rs:241`): the sweep writes back a file the channel loop
  has wiped since it was read; the next generation is laid over it.

The other disagreements of the code with its own words have no run of their own.
Each is a counterexample of a run above with the change named here:

| Where | What | To see it |
|---|---|---|
| `emit.rs:48` | A crash between the two chunk files of one generation leaves the tail of the straddling item in no file whose name claims it. The scan reads items and not names, so it does not see the hole until the earlier file's name has gone by, and the heal then begins after the item. ADR 0003 promises that such a span is healed. | `crash` with `ChunkLen = 3`, `Window = 6`, `ListLen = 4`, `At <- MCShort`, no fault, no damage; `NoBlackAhead` |
| `scan.rs:113` | An item so long that it reaches past what the sweep takes to be reachable loses its last files, and keeps its place: its finish is still in the files before, so nothing is laid there again and no name claims the rest of it. The comment says of such a file that it is "trimmed here and regenerated on the same tick, which costs a rewrite and never leaves a hole". | `calm` with `ChunkLen = 1`, `Window = 2`, `ListLen = 1`, `GenSizes = {1}` and `At` one title of 6; `NeverBlack` |
| `daemon.rs:2927` | A roll tick that fails after its first generation has advanced files, ledger and sidecar, but the loop keeps the map of before; the retry lays those titles again. | `calm` with `MaxFaults = 1`; `KeepsItsPromise` |
| `resume.rs:456` | A refresh that finds nothing on disk but the item on screen rewinds to the checkpoint at which that item was laid, and its title airs twice in a row. | `calm` with `Window = 2`, `RollInterval = 2`; `KeepsItsPromise` |
| `daemon.rs:3464` | A channel that joins its list at an anchor records airings of the titles it skipped. | `calm` with `Anchored = TRUE`, `Timely = FALSE`; `HistoryMatches` |
| `web_ui/apply.rs:101` | A reload that read the files before an edit but recorded its outcome after the sequence number was noted answers for it. | `reload`; `VerdictIsOwn` |
| `queue.rs:186` | The update of an air time writes the status it read back, over a claim, a report or an eviction that came in between. | `renders`; `LeftAsItIs` as a PROPERTY |
| `pattern.rs:2579` | A pool with a gap orders its list anew in each build, for the seam it meets, and its series are made of that list: an episode moves to another place, and the series that goes on by place skips or repeats it. `docs/schema.md:3031` says of `from: start` "the next `take` items from where the series left off". | `walk` with `Channels <- MCGapped`; `InSequence` |
| `resume.rs:373` | A boundary with the state of the one before it gets no checkpoint, since "a rewind landing here would restore the same state from that one"; but that rewind also drops it. Cut once there and then further back, before the one that stood for both, the schedule is taken up from an older state and repeats what aired. A list has such boundaries where its last item was moved to the front. | `resolver` with the last number of `Bound` set to 2; `ListsGoOn` |
| `fs.rs:189` | A verdict is given when a file is probed, to the rows of the entry it is on then. A file that two titles name in turn may go from one entry to the other in a scan whose probe does not answer; the Plex row it meets there keeps no verdict, and the file is played under it until a probe answers. The comment: "A Plex row naming this same file is no escape from its verdict". | `ingest` with `Budgets` of one change on disk and four of Plex, `MaxTime = 0`, and `came(p) == FALSE` in `WriteScan`; `BadFileStaysOut` |
| `hooks.rs:753` | `read_playback_events` returns no lines and offset 0 whenever the log cannot be opened, for want of descriptors too, and takes a log whose length it cannot tell for a new one: the next look, or this one, fires every line of it again. A new watcher that cannot tell the length starts at 0. The comments: "for each new line. Lines already in the log when the watcher starts are history and fire nothing" (`hooks.rs:825`); "a missing log reads as empty" (`hooks.rs:749`). | `hooks` with `MaxLines = 3`, `MaxLog = 1`; `FiresNewLines` as an INVARIANT |
| `hooks.rs:351` | A program that ends by itself has its output read to the end, with no time limit and no look at the cancel; one that it left behind with that output keeps the run, and the reload that drains the bus, for as long as it lives. The comment: "so a reload never waits on a slow hook" (`hooks.rs:602`). | `hooks` with `MaxLines = 2`, `MaxFaults = 0`; `NeverWaits` as a PROPERTY |
| `resolve.rs:479` | "the item airing at that instant still finishes" is meant of one item, but the adjacency pass comes after the cut: with a long last item moved forward, a shorter one begins when the slot is over. | `resolver` with the list of `Bound` made `<<Entry("a", 1), Entry("a", 1), Entry("c", 2)>>` and `~ledger[k].bound` left out; `SlotsAir` |

## 6. Proofs

TLAPS checks these for every value of the constants that satisfies the
assumptions named in the modules; no instance, no bound.

* `TypeCorrect`: `Spec => []TypeOK`.
* `ReachesDisk`: `Spec => []GenerationOnDisk`. What lies behind the cursor of
  a running generation is in a file that no later step of it removes, and when the
  ledger is written all of it is on disk.
* `SidecarIsBehind`: `Spec => SidecarFollowsDisk`. A crash never finds a sidecar
  past a generation that is not wholly on disk, so no title is skipped.
* `LedgerIsBehind`: `Spec => LedgerFollowsDisk` for a channel without an anchor.
  The `anchor` finding is why it needs that assumption.
* `JoinsInside`: the phase at which a channel joins its list lies within an item.
* `ResumesPastNames`, `NamedInChunk`, `ShortensToCut`, about the operators of `PlayoutFolder`: the
  frontier is past every name; a chunk's name stays within the chunk; a shortened
  file keeps nothing past the cut and reaches exactly to its last item.
* `NeverGoesBlack` (`NeverBlack`) and `EditsReachScreen` (`EditReachesScreen`), of
  `ChannelHealthProofs`: on a healthy disk whatever file ErsatzTV-next picks holds
  an item, and nothing behind the item on screen was laid under another
  configuration than the task's.
* `BooksAgree`: `Spec => []BooksMatch` in that regime, for a channel without an
  anchor: after every pass history and checkpoints tell what is on disk.
* `ImplementsTimeline`, the last part of that module: `Spec => KeepsItsPromise`, the
  refinement of `Timeline` by the loop, in that regime.
* `DaemonReloadProofs`, for any tasks and any number of edits, applies, signals
  and failures: `OneAtATime` (`OneGeneration`), `EditsAreSurvived`
  (`EditNeverEndsIt`), `RecordsAreTrue` (`OneRecordPerReload`), `Announced`
  (`AnnouncedOnce`) and its own `TypeCorrect`.

**The invariant of the channel loop.** `GenerationOnDisk` alone is not inductive. Renaming a chunk
removes its predecessor, and whether that one held the only copy of an item depends
on where the generation's items lie and on the name the chunk has got; so
`IInv` is `TypeOK`, `Finite` (folders and generations are finite sets, which the
maxima over them need), `WipeHasJob` (a wipe knows where it returns to),
`Laying` (a generation begins at its cursor's chunk and is made of positive
airtimes that end at `to`) and `GenerationOnDisk`. `InitWell`, `StepsWell` and
`Inductive` are the three facts, `StepsWell` with one step per action.
`LedgerIsBehind` adds `RowsAreAirings`: the rows of a generation are those of
its items.

**The invariant of a healthy channel.** The theorems of `ChannelHealthProofs`
have hypotheses, each of which the `calm` run meets:

* `Healthy` is the regime of that run: no disk error, no file lost behind the
  loop's back, no crash in the middle of a pass, passes on time. Edits, forced
  refreshes, lost titles and restarts between two passes do happen. A clock that moves
  between a repair and its cut leaves items on both sides of it, and a rewind to a
  frontier with no checkpoint lays the item on screen again (`resume.rs:456`;
  `daemon.rs:2094` knows the case).
* `ShortOvershoot`: the *last* item of a generation, with what its length was
  misjudged by, reaches at most about a chunk past what the window asked for, which
  is what the next window sweep leaves. How long the generation is before that item
  is not bounded: it is sized to the window (`Sized`), over as many chunks and items
  as that takes. The proof attempt found the hypothesis: the sweep (`scan.rs:107`)
  removes a file that starts too far past the target, and nothing lays it again,
  since what the other files hold already reaches to its end (`scan.rs:113` in
  section 5).
* `BooksAgree` needs a channel without an anchor, for the `anchor` finding.

`HInv` says by `pc` in what state the folder is between two steps. `Sound`: whatever
file is picked for an instant from now to the frontier holds an item for it, names
claim only what their items reach, items do not overlap. `CutAt`: sound up to the
cut of a wipe, and what is past it is doomed. `Filled`: sound up to where the next
generation begins. `Growing`: filled up to the chunk the write is at, with the rest
of the generation still in memory. In the middle of `DropOthers` there are two files
for one chunk and neither of these holds of the folder; they hold of it without the
files of the old name (`LeftBehind`), which is why the order of write and
removal is what keeps the screen lit. `CInv` adds whose configuration the items
bear while a refresh is under way, `LInv` that every item has its row except
those of the generation being recorded, and every row its item except behind the
present or past a cut, `MInv` that map and sidecar are one, checkpoints stand in
order, and that the one a repair cuts at is exact.

**The refinement.** `ImplementsTimeline` has the hypotheses of `BooksAgree` and, for
a channel that keeps its place in the sidecar (`Cursor = "position"`),
`ReachesAhead`: the generations of one pass suffice to cover the window, and the
window is longer than the time between two passes and the longest item together.
`calm` meets it (a generation airs at least 2, three of them fill the window of 6;
one unit between passes and items of at most 3 leave room). It is needed: a refresh that
finds nothing on disk but the item on screen rewinds to that item's own
checkpoint and airs its title again (`resume.rs:456`; section 5). A channel whose
place is told by the ledger needs no such hypothesis.

Each step is mapped in `StepsOfTheLine`: the step that decides on a wipe (a start, a
tick or a repair) is `TakeBack`, `Sweep` is `Forget`, `WriteChunk` is `Extend` or a
stutter, `Clock` is `Tick`, all others stutter. To the invariants above it adds
`TInv`. Its part `Extending` says that a generation is a stretch of the list which
starts where the schedule before it ends and is on disk up to its cursor, so a chunk
that is written extends the line and cannot put anything into it. `Whole` says that an
item is held by the file of the chunk it ends in, so that a sweep of files, which goes
by names, forgets an item only when it has aged. That the titles come in the order
of the list rests, for a place kept in the sidecar, on `PInv`: `InTurn` (items that
meet are neighbours in the list), `KnowsNext` (the sidecar, or what the wipe under
way will rewind it to, names the title after the last one) and `Ahead` (something is
always left to begin, hence a checkpoint to rewind to). For a place told by the ledger
it follows from `LInv`.

**The invariant of the daemon.** That an edit never ends the daemon rests on there
being something to go back to, and that the record is right on its being written
at one of three places only. So `IInv` of `DaemonReloadProofs` is the properties
and: `Arcs` (a later `Arc` has a higher number; another than the last good one is
in force only while it is being prepared), `HasGood` (only the first generation has
no last good one), `Cancels` (a stored shutdown permit means the flag is set, and
leaving the loop for good means a shutdown), `Flags` (when an announcement or a
revert is pending, and how many are) and `Recording` (the record lags the reloads
by one exactly between a load and the point where its outcome is known).
`InitGood`, `StepsGood` and `AlwaysGood` are the three facts; the steps of the
tasks, the signals and the editors go through `Beside`, what all of them leave alone.

**The invariant of the overlay.** `OverlayHandshakeProofs` proves, for any timeouts
that satisfy `TimeoutAssumption` and any number of items, crashes and reloads:
`Served_InTime` (`ServedInTime`), `Never_SleepsThrough` (`NeverSleepsThrough`),
`Quits_OnlyAlone` (`QuitsOnlyAlone`) and its own `TypeCorrect`. That a request is
served in time is a sum: a poll to notice that the old process is gone, a poll to
start a new one, the warm-up. `InTime` counts what of that sum is left at each
moment of a request. `Asked` (an item that waits has its marker where the next poll
finds it), `Numbered` (which fifo is the newest), `Parent` (what the supervisor
knows of its child) and `Phases` (what each phase of the process holds) say why
the sum is complete; with `TypeOK` they are the `IInv` of that module.

**The invariant of the render queue.** `RenderQueueProofs` proves, for any finite
set of plans, any number of enqueue processes, any cap and any
failures and deaths: `Jobs_HavePlans` (`JobsHavePlans`), `Never_BeforeAir`
(`NeverBeforeAir`), `Done_UntilAired` (`DoneUntilAired`), `Within_Cap` (`WithinCap`)
and its own `TypeCorrect`, none with a hypothesis. A listing may be older than the state files, so what an eviction goes by has to be
tied to what was given: `AirGiven` (every air time in a file, a copy or a listing
was once given to that plan), `Planned` (whoever writes or has seen a state has a
plan file for it) and `Listed` (what the sidecar still has to evict was done and had
aired at a time not after now) make up `IInv` with `TypeOK`. `DoneUntilAired` rests
on two more facts over `IInv`, in `DInv`: `Rendered` (what is about to be reported
done left its files) and `Known` (the listing that stems are swept by knows every
done plan nobody overwrote). That a first and an eldest entry exist comes from the
well-foundedness of `<` (`FirstIsOneOf`, `EldestIsOneOf`).

`WithinCap` is what can be said of the cap when enqueues write over each other. Of
two that update the air time of one plan while it is rendered, the first writes its
old `queued` over the `done`, the list for the cap leaves the chapter out, and the
second writes `done` back: the cache is over its cap, with an aired chapter in it
that was not removed. So the property counts the chapters whose state was not
overwritten, and speaks of what the list had as aired. The invariant `CapInv` is:
`Left` (who was listed to go and is there is still on the list), `TotalCovers` and
the property itself. The total is decremented for an output whose state was
overwritten as well; so what it covers is the used entries *and* those on the list
(`Counted`), and only that sum is inductive.

**The invariant of the hooks.** `EventHooksProofs` proves, for any hooks, caps,
lines and reloads: `Never_TwoCopies` (`NeverTwoCopies`), `No_FiringForgotten`
(`NoFiringForgotten`) and its own `TypeCorrect`. Its `IInv` is `TypeOK` with
`Ordered` (a watcher stops only in a reload and with nothing left to fire; a bus
that is drained has an empty queue and no cron run), `Cancelled` (only a bus that is
being drained, or was, is cancelled), `Single` (one run of a cron loop), `Alone`
(only the generation that is up has workers) and `Staffed` (a run or a firing that
waits has a worker). `Alone` survives a reload because of `Staffed`: a bus without
workers has nothing running and nothing waiting.

`EveryLine_Once` (`EveryLineOnce`) says that no line promised to a hook is lost,
looks that fail or not, and that the lines no failed look put before the watcher
again are on the way exactly once and in order. For the others once is more than the
code gives (`hooks.rs:753`, section 5). It is about what is picked from a sequence, so its
lemmas are inductions: the provers cannot take an induction theorem over an
operator, but one over a *set* of naturals is first-order (`SetInduction`, from the
well-foundedness of `<`), and the sequences a lemma holds of are a set. `Only` is
a recursive function for that reason. The invariant `WInv` adds to the property
that what a hook is owed rises (`Owed`), that what is on its way has been written
(`Written`), and that a watcher who stands past the end of the file has a new file
before it (`Looked`). The order is what tells lines apart: a line that is overrun, or a
file that goes, takes one stretch from the middle or the end of the way and
nothing else. An earlier `Append1` counted as dropped only what was past the offset;
it was here that the proof got stuck, and TLC confirmed on a log dropped twice
between two polls that the promise was then wrong.

**The invariant of the catalog.** `CatalogIngestProofs` proves, for any titles,
files, collections, clock and any number of changes, passes, failures and passes given
up, every invariant of the run: `Missing_IsRight` (`MissingIsRight`), `No_Twins` (`NoTwins`),
`BadFile_StaysOut` (`BadFileStaysOut`), `Nothing_Lost` (`NothingLost`) and its own
`TypeCorrect`, which says that the foreign keys hold.

The items of a pass are written one after the other over a catalog each of
them changes. `ItemIsTaken` says what one of them changes and what it leaves
(`ItemTakes`), `ItemsAreTaken` carries that through a pass by induction on the items
(`IngestItems` is a recursive function for that reason), and `ScanIsTaken` and
`PassIsTaken` say what the two writes leave. `NoTwins` needs, inside a pass,
that the index the pass goes by leads from a file to the entry a scan made of it
as long as Plex has no row there (`Leads`). `BadFileStaysOut` rests on `Judged`: each Plex
row that names a file on the file's entry knows the verdict on it, `moved` aside. A merge
keeps that because of `NoTwins`: a placeholder that is folded away is the entry of no file
that another row of the survivor names.

`NothingLost` is about what is between the clock, the cursors and what was read, so its invariant
has `Clocks` (no cursor ahead of the pass that will set it), `ReadRight` (what was read is as
Plex has it, unless it changed since the pass began), `NoneSkipped` (what stood in the listing when the
pass began, and stands there still, is on the pages read or ahead of them), `Arrived` (what came before
the last pass has a row) and `MembersAreThere` (a collection was changed when its last member
came, or later). `Nothing_Lost` assumes `~Shrinks`, as the run does: Plex loses nothing while its pages
are read. A loss moves the items behind it up a page, and the one at the seam is
stepped over (`plex.rs:1310`; the comment at `plex.rs:1173` speaks of a library that shrinks, but only of
the end of the paging).

**The adjacency pass.** `ChannelResolverProofs`, for any list of items, with any limits, groups and airtimes,
after anything that aired: `Counts_EveryConflict`, `Pass_Rearranges` (`Rearranges`) and
`Reports_EveryConflict` (`ReportsEveryConflict`).

The code counts conflicts by walks that end where both limits are left behind, each with the widest limits of
the list up to the seam and with its own limits beyond it. The specification counts pairs. `ConflictsAreNear` is why
the two agree: airtimes are not negative, so a distance only grows (`SumGrows`), and a pair
that conflicts is within reach, and with it all that lies between (`WithinBetween`,
`ClashesAreNear`, `WalksLoseNone`). What has aired has no limits (`Emitted`), so the own limits of the
item are enough across the seam. The rest is counting: the rows of the walks make the pairs,
each once (`CountByRows`, `EitherWay`). `SumFunctionOnSet` is recursive in the library; its equations
come from an induction over the subsets of a finite set, stated for a set of subsets
rather than an operator (`FiniteInduction`, `SumExists`, `SumOf`).

`PassInv` is inductive: `Rearranges`, the count that goes with the order while the repair works
(`Counted`), and `ReportsEveryConflict`.

**What a channel of lists airs.** `ChannelResolverProofs`, for any channel that validation lets through
(`ResolverAssumption`: `Valid`, and lengths of days, weeks, seeds and window above zero) and any `Mix` of numbers
that gives numbers, as `mix_seed` does (`MixesNumbers`, the hypothesis of each theorem: TLC cannot
evaluate it over all numbers): `Resolver_TypeOK`, `Resolver_SlotsAir`, `Resolver_RunsPass` and
`Resolver_ReportsEveryConflict`.

* `OnAir_ByPlacements` is the calendar alone: day by division, minute by remainder and the night of the
  day before (`StartDays`) name the topmost of the placements that cover the instant, each counted
  from its own day (`Claims`). `DaysOf` is the arithmetic for one range, `ClaimsOf` the two sets of
  placements, `TopOf` that one of them is above the rest.
* What is computed along a list, a shuffle, the any-time list, a chain of draws, the trail of
  checkpoints, is a recursive function over `0..n`. `Repeating` says that such a function exists as soon as its
  step stays in a set; an ordinary induction up to n (`UpTo`, for a set of numbers) does the rest: a
  shuffle keeps the members of a list (`ShuffledKeeps`), every list a channel names has an item
  (`ListIn`), so that a position may be taken modulo its length, and a draw names a member
  (`DrawIn`).
* `DrawnIn`: draws end at a list. The chain has as many links as there are rotations, and validation
  gives each rotation a height above that of its members: the height of the slot falls with each draw.
* `FillOf`: from the start of a generation to its end neither the slot nor the seed changes. With
  `CoveringOf`, all items but the first of the rest start before that end.

`ResolverInv` is inductive: `StateOK` (positions, draws and checkpoints are the channel's own, and each row
of the ledger that no limit binds airs in its time), `Ordered` (what aired is in order and ends by the
frontier, which is what `Rewind` needs to cut there), `InFlight` (the list handed to the pass is
cut to its time, and one without limits leaves the pass as it came), and `PassInv`. It gives `GivenItems`,
so `Resolver_RunsPass` has no condition any more but the channel's: the theorems on the pass hold of what airs.

The attempt changed the model in two places. The run told an unlimited list by the limits of its rows; after a
rewind the rows that are left of a re-ordered list may have none, so `SlotsAir` was not inductive: a row now
says whether its list was bound. And `forget_rotation_draws_from` drops draws from the end as long as they are
late enough, which is not the same as every late draw: placements of a rotation that overlap
need not draw in the order they began (`Forgotten`).

**Only model-checked.** Liveness (`WindowCovered`, `EditIsRead`, `SignalsAreServed`,
`WindsDown`, `ServedEventually`, `ReloadEnds`) is out of the prover's reach.
`HealsInOnePass` is about folders with holes of any kind. `PatternWalk` and
`ChannelSupervisor` have no proofs. Of `ChannelResolver`, `ListsGoOn` and `RotationsTurn` are left to TLC, and
neither is a theorem of every instance: `ListsGoOn` fails with a second rewind (`resume.rs:373`, section 5), and
`RotationsTurn` holds as far as the draws that are kept reach back. A type
invariant is stated for each state machine; where it is
proved no run checks it again, and otherwise it is there for the reader and for who extends the model: the
configurations take the properties that say more.

## 7. Not modelled, and known limits

* Daylight-saving chunks, the alignment and filling by bumpers, audit rows, the
  pid file, failures of writing the reload record or a job's state, channels
  that a reload drops.
* `calm` has no lost files: a heal may cut the item on screen. Items are not
  longer than a chunk: for longer ones the sweep of aired files may remove a
  file whose item still runs.
* A hole wider than the horizon of a roll tick is seen only once something
  behind it comes into the horizon. A heal over a hole of the `straddler` kind
  lays the future again at every tick until the hole has passed.
* A failed removal leaves two files for a chunk: `DropOthers` and `Sweep` have
  it, and the runs with faults check only what still holds then.
* A chapter that has aired, is evicted and is given another air time between the
  removal of its file and the note of it stays `done` without a file
  (`DoneUntilAired` counts it as aired).
* The components marked `not_modelled` in `PROJECT.json`, each with its reason.

## 8. Plan

Order: the channel loop first, since all that is on the air comes from it; the
daemon around it; the overlay handshake and the render queue, the two places where
processes meet without a lock; then what the loop lays (adjacency, the pattern, the lists and slots)
and from what (catalog), its supervisor, and the hooks. What is left:

1. The pending-bumper swap (`reconcile.rs` 548-663), composed with
   `PlayoutFolder` as the sweep is.
2. Bumpers that fill a block, and the ledger of bumpers.
3. Blocks with patterns between the lists of `ChannelResolver`, by way of `PatternWalk`.
4. Proofs: `ListsGoOn` under at most one rewind, with an invariant on what the checkpoints say of the rows
   behind them; the invariants of `ChannelSupervisor`.
