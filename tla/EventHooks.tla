----------------------------- MODULE EventHooks -----------------------------
(* Event hooks from the playback log to the programs they run (hooks.rs).     *)
(* ETV-next's worker appends a line to the log of its channel for each item   *)
(* it starts and each session.  A watcher of the station polls the log and    *)
(* fires each new line into the bus; every hook that wants it queues it       *)
(* behind its run.  A cron hook runs by the clock.  A reload stops watchers   *)
(* and cron loops, cancels and drains the bus, and starts the next            *)
(* generation with a bus and a watcher of its own.                            *)
(*                                                                            *)
(* A line is a number, in the order the lines are written; kind says what it  *)
(* reports.  The log counts its length in lines.                              *)
EXTENDS SequencesExt, Integers, FiniteSets

CONSTANTS
    Hooks,          \* hooks that want a line
    Trigger(_),     \* the kind of line a hook wants
    CronHooks,      \* hooks that run every so often
    QueueCap,       \* QUEUE_CAP
    MaxLog,         \* MAX_LOG_BYTES, in lines
    MaxLines,       \* bound: lines ever written
    MaxFaults,      \* bound: looks at the log that the system fails
    Generations     \* bound: generations of the station, one reload between two

ASSUME HooksAssumption ==
    /\ {QueueCap, MaxLog, MaxLines, MaxFaults, Generations} \subseteq Nat
    /\ QueueCap > 0 /\ Generations > 0 /\ Hooks \cap CronHooks = {}

VARIABLES
    kinds,      \* what each line reports: the lines written so far
    log,        \* the lines in the file
    session,    \* is a worker running?
    gen,        \* the generation that is up
    stage,      \* "up", "stopping" or "draining"
    watcher,    \* [stage, offset, unfired, renewed] of the generation's watcher: was the log dropped since it looked?
    slots,      \* [running, pending, run] of each hook of each generation's bus
    cancelled,  \* the generations whose bus was cancelled
    cron,       \* programs of a cron hook that run, for each generation's loop
    held,       \* runs whose program is over while another it left behind holds the output open
    due,        \* lines promised to a hook of this generation, in order
    begun,      \* lines a hook of this generation was run for, in order
    faults,     \* looks that failed
    again       \* lines that a failed look put before this generation's watcher once more
writer == <<kinds, log, session>>
bus == <<slots, cancelled, cron, held>>
looks == <<faults, again>>
vars == <<writer, gen, stage, watcher, bus, due, begun, looks>>

None == 0
Gens == 1..Generations
Lines == 1..MaxLines
Kinds == {"viewer_start", "playback_item_change", "viewer_stop"}

\* The lines that are in W, in order (a recursive function, which can be reasoned about).
Only(lines, W) ==
    LET kept[n \in 0..Len(lines)] ==
            IF n = 0 THEN <<>>
            ELSE IF lines[n] \in W THEN Append(kept[n - 1], lines[n]) ELSE kept[n - 1]
    IN kept[Len(lines)]

LinesOf(h) == {x \in DOMAIN kinds : kinds[x] = Trigger(h)}
Wanted(h, lines) == Only(lines, LinesOf(h))

Runs == Gens \X (Hooks \cup CronHooks)
Slot == [running : BOOLEAN, pending : Seq(Lines), run : {None} \cup Lines]
FreshSlot == [running |-> FALSE, pending |-> <<>>, run |-> None]

\* The watcher of a generation starts after the lines that are there.
Watching(offset) == [stage |-> "polling", offset |-> offset, unfired |-> <<>>, renewed |-> FALSE]
Unread == SubSeq(log, watcher.offset + 1, Len(log))

\* The file was dropped since the watcher last looked: it has seen no line of this one.
Dropped == Len(log) < watcher.offset
Unseen == IF Dropped THEN log ELSE Unread

\* What the watcher has seen of the log that is there.
Seen == IF Dropped THEN <<>> ELSE SubSeq(log, 1, watcher.offset)

Init ==
    /\ kinds = <<>> /\ log = <<>> /\ session = FALSE
    /\ gen = 1 /\ stage = "up"
    /\ watcher = Watching(0)
    /\ slots = [g \in Gens |-> [h \in Hooks |-> FreshSlot]]
    /\ cancelled = {}
    /\ cron = [g \in Gens |-> [h \in CronHooks |-> 0]]
    /\ held = {} /\ faults = 0 /\ again = {}
    /\ due = [h \in Hooks |-> <<>>] /\ begun = [h \in Hooks |-> <<>>]

-----------------------------------------------------------------------------
(* The worker's side of the log.                                              *)

\* Lines that were dropped from the file before the watcher saw them are promised to nobody.
Forgotten(h, lost) == Only(due[h], Lines \ Range(lost))

\* Bound: between two looks the worker does not write as much as the watcher had read of the old file.
NotRewritten(fresh) ==
    fresh \/ watcher.renewed => watcher.offset = 0 \/ (IF fresh THEN 1 ELSE Len(log) + 1) < watcher.offset

\* A session begins with a fresh file if the old one grew past its limit.
Append1(kind) ==
    LET line == Len(kinds) + 1
        fresh == kind = "viewer_start" /\ Len(log) > MaxLog
        lost == IF fresh THEN Unseen ELSE <<>>
    IN /\ Len(kinds) < MaxLines
       /\ NotRewritten(fresh)
       /\ kinds' = Append(kinds, kind)
       /\ log' = IF fresh THEN <<line>> ELSE Append(log, line)
       /\ due' = [h \in Hooks |-> IF kind = Trigger(h) THEN Append(Forgotten(h, lost), line)
                                  ELSE Forgotten(h, lost)]
       /\ watcher' = [watcher EXCEPT !.renewed = @ \/ fresh]
       /\ UNCHANGED <<gen, stage, bus, begun, looks>>

SessionStarts == ~session /\ session' = TRUE /\ Append1("viewer_start")
ItemStarts == session /\ Append1("playback_item_change") /\ UNCHANGED session
SessionStops == session /\ session' = FALSE /\ Append1("viewer_stop")
\* A worker killed by a signal writes nothing.
WorkerDies ==
    /\ session /\ session' = FALSE
    /\ UNCHANGED <<kinds, log, gen, stage, watcher, bus, due, begun, looks>>

-----------------------------------------------------------------------------
(* The watcher.                                                               *)

\* Mutant of ReadFrom: a log that was dropped is read from where the old one ended.
ReadOn(offset) == offset

\* Where to read on: a log shorter than the offset is another log.
ReadFrom(offset) == IF Len(log) < offset THEN 0 ELSE offset

\* A look at the log: the lines past the offset are to be fired, in order.
Poll ==
    LET from == ReadFrom(watcher.offset)
    IN /\ watcher.stage = "polling"
       /\ watcher.unfired = <<>>
       /\ watcher' = [watcher EXCEPT !.unfired = SubSeq(log, from + 1, Len(log)),
                                     !.offset = IF Len(log) < from THEN from ELSE Len(log),
                                     !.renewed = FALSE]
       /\ UNCHANGED <<writer, gen, stage, bus, due, begun, looks>>

\* A look that the system fails: of a log that cannot be opened the watcher forgets how far it was, one
\* whose length it cannot tell it takes for another log, and one that it cannot read it leaves.
LeftAt(offset, lines) == watcher' = [watcher EXCEPT !.offset = offset, !.unfired = lines, !.renewed = FALSE]
LookFails ==
    /\ watcher.stage = "polling" /\ watcher.unfired = <<>>
    /\ faults < MaxFaults /\ faults' = faults + 1
    /\ \/ LeftAt(0, <<>>) /\ again' = again \cup Range(Seen)
       \/ LeftAt(Len(log), log) /\ again' = again \cup Range(Seen)
       \/ LeftAt(ReadFrom(watcher.offset), <<>>) /\ UNCHANGED again
    /\ UNCHANGED <<writer, gen, stage, bus, due, begun>>

\* Mutant of Queued: a firing into an idle slot starts no worker.
QueuedQuietly(slot, line) == [slot EXCEPT !.pending = Append(@, line)]

\* A firing waits its turn; the first of them starts a worker.
Queued(slot, line) == [slot EXCEPT !.pending = Append(@, line), !.running = TRUE]

\* A hook that is far behind loses the firing.
Overrun(h, line) == kinds[line] = Trigger(h) /\ Len(slots[gen][h].pending) >= QueueCap

Fire ==
    LET line == Head(watcher.unfired)
    IN /\ watcher.unfired # <<>>
       /\ watcher' = [watcher EXCEPT !.unfired = Tail(@)]
       /\ slots' = [slots EXCEPT ![gen] = [h \in Hooks |->
                       IF kinds[line] # Trigger(h) \/ Overrun(h, line) THEN @[h] ELSE Queued(@[h], line)]]
       /\ due' = [h \in Hooks |-> IF Overrun(h, line) THEN Only(due[h], Lines \ {line}) ELSE due[h]]
       /\ UNCHANGED <<writer, gen, stage, cancelled, cron, held, begun, looks>>

\* The stop is taken between two looks.
WatcherStops ==
    /\ stage = "stopping"
    /\ watcher.stage = "polling" /\ watcher.unfired = <<>>
    /\ watcher' = [watcher EXCEPT !.stage = "stopped"]
    /\ UNCHANGED <<writer, gen, stage, bus, due, begun, looks>>

-----------------------------------------------------------------------------
(* The hooks.                                                                 *)

\* A worker takes the next firing and runs the hook.
Begin(g, h) ==
    LET slot == slots[g][h]
    IN /\ slot.running /\ slot.run = None /\ slot.pending # <<>>
       /\ slots' = [slots EXCEPT ![g][h] = [slot EXCEPT !.pending = Tail(@), !.run = Head(slot.pending)]]
       /\ begun' = IF g = gen THEN [begun EXCEPT ![h] = Append(@, Head(slot.pending))] ELSE begun
       /\ UNCHANGED <<writer, gen, stage, watcher, cancelled, cron, held, due, looks>>

\* Mutant of Retired: the worker leaves and says nothing.
RetiredSilently(slot) == slot

Retired(slot) == [slot EXCEPT !.running = FALSE]

\* The queue is found empty, under the same lock that lets a firing in.
Retire(g, h) ==
    LET slot == slots[g][h]
    IN /\ slot.running /\ slot.run = None /\ slot.pending = <<>>
       /\ slots' = [slots EXCEPT ![g][h] = Retired(@)]
       /\ UNCHANGED <<writer, gen, stage, watcher, cancelled, cron, held, due, begun, looks>>

Going(g, h) == IF h \in Hooks THEN slots[g][h].run # None ELSE cron[g][h] > 0

\* A run is over for its hook or its cron loop.
Over(g, h) ==
    /\ Going(g, h)
    /\ IF h \in Hooks THEN slots' = [slots EXCEPT ![g][h].run = None] /\ UNCHANGED cron
                       ELSE cron' = [cron EXCEPT ![g][h] = @ - 1] /\ UNCHANGED slots
    /\ UNCHANGED <<writer, gen, stage, watcher, cancelled, due, begun, looks>>

\* The program of a run ends and closes its output, or its time limit or a cancel kills it.
RunEnds(g, h) == <<g, h>> \notin held /\ Over(g, h) /\ UNCHANGED held

\* The program ends by itself and leaves another behind that has its output: the run waits for the end of the
\* output, past its time limit and past a cancel.
ProgramLeaves(g, h) ==
    /\ Going(g, h) /\ held' = held \cup {<<g, h>>}
    /\ UNCHANGED <<writer, gen, stage, watcher, slots, cancelled, cron, due, begun, looks>>
OutputCloses(g, h) == <<g, h>> \in held /\ Over(g, h) /\ held' = held \ {<<g, h>>}

\* An interval starts a run unless the one before is still going.
CronTick(h) ==
    /\ stage = "up" /\ cron[gen][h] = 0
    /\ cron' = [cron EXCEPT ![gen][h] = @ + 1]
    /\ UNCHANGED <<writer, gen, stage, watcher, slots, cancelled, held, due, begun, looks>>

-----------------------------------------------------------------------------
(* The reload.                                                                *)

Reload ==
    /\ stage = "up" /\ gen < Generations
    /\ stage' = "stopping"
    /\ UNCHANGED <<writer, gen, watcher, bus, due, begun, looks>>

\* Mutant of Joined: the bus is cancelled under a watcher that still fires.
JoinedEarly == \A h \in CronHooks : cron[gen][h] = 0

\* Every task of the generation is back: its cron loops killed their runs.
Joined == watcher.stage = "stopped" /\ \A h \in CronHooks : cron[gen][h] = 0

\* What waits is dropped, what runs is killed.
CancelAll ==
    /\ stage = "stopping" /\ Joined
    /\ slots' = [slots EXCEPT ![gen] = [h \in Hooks |-> [@[h] EXCEPT !.pending = <<>>]]]
    /\ cancelled' = cancelled \cup {gen}
    /\ stage' = "draining"
    /\ UNCHANGED <<writer, gen, watcher, cron, held, due, begun, looks>>

\* Mutant of Drained: the runs are killed soon enough.
NotDrained == TRUE

Drained == \A h \in Hooks : ~slots[gen][h].running

\* The watcher of the next generation starts behind the lines that are there, unless it cannot tell how many.
NextGeneration ==
    /\ stage = "draining" /\ Drained
    /\ gen' = gen + 1 /\ stage' = "up"
    /\ \/ watcher' = Watching(Len(log)) /\ again' = {} /\ UNCHANGED faults
       \/ watcher' = Watching(0) /\ again' = Range(log) /\ faults < MaxFaults /\ faults' = faults + 1
    /\ due' = [h \in Hooks |-> <<>>] /\ begun' = [h \in Hooks |-> <<>>]
    /\ UNCHANGED <<writer, bus>>

Watcher == Poll \/ LookFails \/ Fire \/ WatcherStops
Worker(g, h) == Begin(g, h) \/ Retire(g, h)
Program(g, h) == RunEnds(g, h) \/ ProgramLeaves(g, h) \/ OutputCloses(g, h)
Station == CancelAll \/ NextGeneration
Next ==
    \/ SessionStarts \/ ItemStarts \/ SessionStops \/ WorkerDies
    \/ Watcher
    \/ \E g \in Gens : \E h \in Hooks : Worker(g, h)
    \/ \E g \in Gens : \E h \in Hooks \cup CronHooks : Program(g, h)
    \/ \E h \in CronHooks : CronTick(h)
    \/ Reload \/ Station

\* The runtime schedules every task, and a program that still runs is killed at its time limit.  Nothing makes
\* the output that another program holds close.  The stop waits at the watcher's select, which takes it before
\* another look: it is not put off for ever.
Fairness ==
    /\ WF_vars(Poll) /\ WF_vars(Fire) /\ WF_vars(Station)
    /\ SF_vars(WatcherStops)
    /\ \A g \in Gens : \A h \in Hooks : WF_vars(Worker(g, h))
    /\ \A run \in Runs : WF_vars(RunEnds(run[1], run[2]))
Spec == Init /\ [][Next]_vars /\ Fairness

-----------------------------------------------------------------------------
(* What the hooks are promised.                                               *)

\* Every variable has its type, and no queue is longer than its cap.
TypeOK ==
    /\ kinds \in Seq(Kinds) /\ Len(kinds) <= MaxLines
    /\ log \in Seq(Lines) /\ Len(log) <= Len(kinds) /\ session \in BOOLEAN
    /\ gen \in Gens /\ stage \in {"up", "stopping", "draining"} /\ cancelled \subseteq Gens
    /\ watcher \in [stage : {"polling", "stopped"}, offset : 0..MaxLines,
                    unfired : Seq(Lines), renewed : BOOLEAN]
    /\ slots \in [Gens -> [Hooks -> Slot]]
    /\ \A g \in Gens : \A h \in Hooks : Len(slots[g][h].pending) <= QueueCap
    /\ cron \in [Gens -> [CronHooks -> Nat]] /\ held \subseteq Runs
    /\ faults \in 0..MaxFaults /\ again \subseteq Lines

\* No line that was promised to a hook is lost on its way, in a log that was dropped and begun anew, in a look
\* that failed or in a queue; and of the lines that no failed look put before the watcher once more, each is on
\* exactly one stretch of the way, in the order they were written: run for, waiting, about to be fired, or
\* unread (hooks.rs:756, :559).
OnTheWay(h) == begun[h] \o slots[gen][h].pending \o Wanted(h, watcher.unfired) \o Wanted(h, Unseen)
EveryLineOnce ==
    stage # "draining" =>
        \A h \in Hooks :
            /\ Range(due[h]) \subseteq Range(OnTheWay(h))
            /\ Only(OnTheWay(h), Lines \ again) = Only(due[h], Lines \ again)

\* The words of hooks.rs:825-827: a hook is run for each new line, once.
FiresNewLines == \A h \in Hooks : \A i, j \in DOMAIN begun[h] : begun[h][i] = begun[h][j] => i = j

\* A hook never runs two copies of itself, within a generation or over a reload (hooks.rs:608).
NeverTwoCopies ==
    /\ \A h \in Hooks : \A f, g \in Gens : slots[f][h].run # None /\ slots[g][h].run # None => f = g
    /\ \A h \in CronHooks : \A f, g \in Gens : cron[f][h] > 0 /\ cron[g][h] > 0 => f = g /\ cron[g][h] = 1

\* No firing waits without a worker that will come for it, though the worker finds its queue empty while the
\* firing comes in (hooks.rs:583), and none waits in a bus that was cancelled, though a watcher fires while the
\* station stops (hooks.rs:608).
NoFiringForgotten ==
    \A g \in Gens : \A h \in Hooks : slots[g][h].pending # <<>> => slots[g][h].running /\ g \notin cancelled

\* A reload comes to its end, whatever the hooks do, if each output that an ended program left open closes in
\* the end (hooks.rs:601).
ReloadEnds == (\A run \in Runs : []<>(run \notin held)) => (stage = "stopping" ~> stage = "up")

\* The words of hooks.rs:602: a reload never waits on a slow hook.
NeverWaits == stage = "stopping" ~> stage = "up"
=============================================================================
