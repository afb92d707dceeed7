---------------------------- MODULE DaemonReload ----------------------------
(***************************************************************************)
(* The daemon around the channels: `run` and `run_generation` of daemon.rs *)
(* with the signal listener, the reload record of reload_status.rs, and    *)
(* the dashboard's apply of web_ui/apply.rs, which edits a channel, sends  *)
(* SIGHUP and waits for that record.                                       *)
(*                                                                         *)
(* The daemon runs one generation of tasks at a time.  A reload stops and  *)
(* joins all of them, reads the configuration again, prepares it, and goes *)
(* back to the last one that prepared when it does not (ADR 0001).         *)
(***************************************************************************)
EXTENDS Naturals, FiniteSets

CONSTANTS
    Channels,     \* tasks of a generation whose errors are reported,
    Supervisors,  \* and those whose errors are not: overlays, watchers, hooks
    MaxEdits,     \* bounds: edits by hand, applies of the dashboard,
    MaxApplies,
    MaxSignals,   \* signals of each kind sent by hand,
    MaxFailures,  \* tasks that fail,
    MaxFaults     \* and times the machine fails the daemon itself

ASSUME TasksAssumption == Channels \cap Supervisors = {}
ASSUME BoundAssumption == {MaxEdits, MaxApplies, MaxSignals, MaxFailures, MaxFaults} \subseteq Nat

VARIABLES
    disk,       \* the configuration files
    pending,    \* signals the process has got and the listener has not seen
    permits,    \* the permits stored in the three Notify
    cancelled,  \* the Cancel flag
    pc,         \* where `run` is
    station,    \* the configuration in force, an Arc
    lastGood,   \* the last one that prepared
    announce,   \* whether the next generation announces a reload
    reverted,   \* reverted_just_now
    again,      \* do_reload
    status,     \* the reload record on disk
    tasks,      \* the tasks of the generation
    exit,       \* how `run` returned
    client,     \* the dashboard's apply
    log,        \* what happened: the text last read, reloads, announcements
    spent       \* how often the environment has acted, by kind

signals == <<pending, permits, cancelled>>
daemon  == <<pc, station, lastGood, announce, reverted, again, status, exit, log>>
vars    == <<disk, signals, daemon, tasks, client, spent>>

-----------------------------------------------------------------------------

Tasks   == Channels \cup Supervisors
Signals == {"shutdown", "reload", "refresh_now"}

\* What a text of the configuration is worth.
Kinds == {"good", "unpreparable", "unparsable"}

\* An Arc has an identity of its own: the same text read twice is two of them.
NoStation == [arc |-> 0, version |-> 0, kind |-> "good"]
NoStatus  == [seq |-> 0, outcome |-> "none", arc |-> 0, version |-> 0]
NoTask    == [arc |-> 0, state |-> "done", stop |-> FALSE, erred |-> FALSE]
Idle      == [step |-> "idle", after |-> 0, edit |-> 0, verdict |-> NoStatus]

Bounds   == [edits |-> MaxEdits, applies |-> MaxApplies, faults |-> MaxFaults,
             failures |-> MaxFailures,
             shutdown |-> 1, reload |-> MaxSignals, refresh_now |-> MaxSignals]
May(k)   == spent[k] < Bounds[k]
Spend(k) == spent' = [spent EXCEPT ![k] = @ + 1]

Alive == exit = "no"

Init ==
    /\ \E kind \in {"good", "unpreparable"} :
         /\ disk = [version |-> 1, kind |-> kind]
         /\ station = [arc |-> 1, version |-> 1, kind |-> kind]
    /\ pending = {} /\ permits = [s \in Signals |-> 0] /\ cancelled = FALSE
    /\ pc = "ingest" /\ lastGood = NoStation
    /\ announce = FALSE /\ reverted = FALSE /\ again = FALSE
    /\ status = NoStatus /\ exit = "no"
    /\ tasks = [t \in Tasks |-> NoTask]
    /\ client = Idle
    /\ log = [read |-> 1, reloads |-> 0, parsed |-> 0, announced |-> 0]
    /\ spent = [k \in DOMAIN Bounds |-> 0]

-----------------------------------------------------------------------------
(* Signals *)

\* Notify::notify_one stores one permit at most.  (Forgetful is the mutant
\* that wakes only a waiter that is already parked, as notify_waiters does.)
Forgetful(s) == IF pc = "select" THEN [permits EXCEPT ![s] = 1] ELSE permits
Notified(s)  == [permits EXCEPT ![s] = 1]

\* The listener takes any signal that is pending, and is gone after a shutdown.
Hear(s) ==
    /\ s \in pending /\ ~cancelled
    /\ pending' = pending \ {s}
    /\ permits' = Notified(s)
    /\ cancelled' = (s = "shutdown")
    /\ UNCHANGED <<disk, daemon, tasks, client, spent>>

Send(s) ==
    /\ Alive /\ s \notin pending
    /\ May(s) /\ Spend(s)
    /\ pending' = pending \cup {s}
    /\ UNCHANGED <<disk, permits, cancelled, daemon, tasks, client>>

-----------------------------------------------------------------------------
(* run: startup, prepare, load *)

Exit(how) == exit' = how /\ pc' = "exited"

\* The catalog is ingested before the first generation; a shutdown cuts it short.
Ingested ==
    /\ pc = "ingest"
    /\ IF cancelled THEN Exit("clean") ELSE pc' = "prepare" /\ UNCHANGED exit
    /\ UNCHANGED <<disk, signals, station, lastGood, announce, reverted, again,
                   status, tasks, client, log, spent>>

IngestFails ==
    /\ pc = "ingest"
    /\ May("faults") /\ Spend("faults")
    /\ Exit("error")
    /\ UNCHANGED <<disk, signals, station, lastGood, announce, reverted, again,
                   status, tasks, client, log>>

\* reload_status::record
Recorded(outcome, arc) ==
    [seq |-> status.seq + 1, outcome |-> outcome, arc |-> arc, version |-> log.read]

\* should_record_applied, which spends the flag.  (StaysReverted is the mutant
\* that only reads it.)
StaysReverted == reverted
AfterApplied  == reverted /\ ~announce
ShouldRecordApplied == announce /\ ~reverted

Prepared ==
    /\ pc = "prepare" /\ station.kind = "good"
    /\ lastGood' = station
    /\ reverted' = AfterApplied
    /\ status' = IF ShouldRecordApplied THEN Recorded("applied", station.arc) ELSE status
    /\ pc' = "spawn"
    /\ UNCHANGED <<disk, signals, station, announce, again, tasks, exit, client, log,
                   spent>>

\* Another Arc than this one has prepared before.  (NoGood is the mutant that
\* never reverts.)
NoGood    == FALSE
CanRevert == lastGood # NoStation /\ lastGood.arc # station.arc

\* A configuration that does not prepare, or a machine on which none does.
PrepareFails ==
    /\ pc = "prepare"
    /\ IF station.kind = "unpreparable" THEN UNCHANGED spent
       ELSE May("faults") /\ Spend("faults")
    /\ IF CanRevert
       THEN /\ status' = Recorded("reverted", station.arc)
            /\ reverted' = TRUE
            /\ station' = lastGood
            /\ UNCHANGED <<pc, exit>>
       ELSE Exit("error") /\ UNCHANGED <<status, reverted, station>>
    /\ UNCHANGED <<disk, signals, lastGood, announce, again, tasks, client, log>>

\* config::load.  What it reads may be out of date before it is acted on.
Load ==
    /\ pc = "load"
    /\ IF disk.kind = "unparsable"
       THEN /\ pc' = "failed"
            /\ log' = [log EXCEPT !.read = disk.version, !.reloads = @ + 1]
            /\ UNCHANGED <<station, announce>>
       ELSE /\ pc' = "prepare"
            /\ station' = [arc |-> log.parsed + 2, version |-> disk.version, kind |-> disk.kind]
            /\ announce' = TRUE
            /\ log' = [log EXCEPT !.read = disk.version, !.reloads = @ + 1, !.parsed = @ + 1]
    /\ UNCHANGED <<disk, signals, lastGood, reverted, again, status, tasks, exit,
                   client, spent>>

LoadFailed ==
    /\ pc = "failed"
    /\ status' = Recorded("failed", 0)
    /\ pc' = "prepare"
    /\ UNCHANGED <<disk, signals, station, lastGood, announce, reverted, again,
                   tasks, exit, client, log, spent>>

-----------------------------------------------------------------------------
(* run_generation *)

\* mem::take of the announcement.
TakenAnnounce == FALSE

Spawn ==
    /\ pc = "spawn"
    /\ tasks' = [t \in Tasks |-> [arc |-> station.arc, state |-> "up", stop |-> FALSE,
                                  erred |-> FALSE]]
    /\ log' = IF announce THEN [log EXCEPT !.announced = @ + 1] ELSE log
    /\ announce' = TakenAnnounce
    /\ pc' = "select"
    /\ UNCHANGED <<disk, signals, station, lastGood, reverted, again, status, exit,
                   client, spent>>

\* The arms of the biased select, and which of them an arm has to wait for.
\* (TicksFirst is the mutant that lets a timer go before a signal.)
Arms == <<"shutdown", "reload", "refresh_now", "tick">>
TicksFirst(s) == \A i \in 1 .. 3 : Arms[i] = s => \A j \in 1 .. i - 1 : permits[Arms[j]] = 0
Wins(s) == \A i \in 1 .. 4 : Arms[i] = s => \A j \in 1 .. i - 1 : permits[Arms[j]] = 0

Taken(s) ==
    /\ pc = "select" /\ permits[s] = 1 /\ Wins(s)
    /\ permits' = [permits EXCEPT ![s] = 0]

\* Shutdown and reload end the loop; every task is told to stop.
Stop ==
    /\ \E s \in {"shutdown", "reload"} : Taken(s) /\ again' = (s = "reload")
    /\ tasks' = [t \in Tasks |-> [tasks[t] EXCEPT !.stop = TRUE]]
    /\ pc' = "join"
    /\ UNCHANGED <<disk, pending, cancelled, station, lastGood, announce, reverted,
                   status, exit, client, log, spent>>

\* A refresh asked for by SIGUSR1, and the two timers.  The loop waits for what
\* it has started.
RefreshNow ==
    /\ Taken("refresh_now")
    /\ pc' = "refresh"
    /\ UNCHANGED <<disk, pending, cancelled, station, lastGood, announce, reverted,
                   again, status, tasks, exit, client, log, spent>>

Tick ==
    /\ pc = "select" /\ Wins("tick")
    /\ pc' \in {"refresh", "swap"}
    /\ UNCHANGED <<disk, signals, station, lastGood, announce, reverted, again,
                   status, tasks, exit, client, log, spent>>

\* A cancelled ingest gives up, and the sweep after it is left out.
Worked ==
    /\ pc \in {"refresh", "sweep", "swap"}
    /\ pc' = IF pc = "refresh" /\ ~cancelled THEN "sweep" ELSE "select"
    /\ UNCHANGED <<disk, signals, station, lastGood, announce, reverted, again,
                   status, tasks, exit, client, log, spent>>

\* (ChannelsDone is the mutant that does not wait for the other tasks.)
ChannelsDone == \A t \in Channels : tasks[t].state = "done"
AllDone      == \A t \in Tasks : tasks[t].state = "done"

\* Every task is joined.  An error a channel had is the daemon's on shutdown only.
Join ==
    /\ pc = "join" /\ AllDone
    /\ IF again THEN pc' = "load" /\ UNCHANGED exit
       ELSE Exit(IF \E t \in Channels : tasks[t].erred THEN "error" ELSE "clean")
    /\ UNCHANGED <<disk, signals, station, lastGood, announce, reverted, again,
                   status, tasks, client, log, spent>>

-----------------------------------------------------------------------------
(* The tasks *)

\* A failed channel loop waits to be started again by its supervisor.
TaskFails(t) ==
    /\ tasks[t].state = "up"
    /\ May("failures") /\ Spend("failures")
    /\ \E state \in {"waiting", "done"} :  \* done: it panicked
         tasks' = [tasks EXCEPT ![t].state = state, ![t].erred = TRUE]
    /\ UNCHANGED <<disk, signals, daemon, client>>

TaskRestarts(t) ==
    /\ tasks[t].state = "waiting"
    /\ tasks' = [tasks EXCEPT ![t].state = "up"]
    /\ UNCHANGED <<disk, signals, daemon, client, spent>>

TaskStops(t) ==
    /\ tasks[t].state # "done" /\ tasks[t].stop
    /\ tasks' = [tasks EXCEPT ![t].state = "done", ![t].stop = FALSE]
    /\ UNCHANGED <<disk, signals, daemon, client, spent>>

-----------------------------------------------------------------------------
(* Edits: by hand, and by the dashboard *)

Rewrite(kind) == disk' = [version |-> disk.version + 1, kind |-> kind]

EditByHand ==
    /\ May("edits") /\ Spend("edits")
    /\ \E kind \in Kinds : Rewrite(kind)
    /\ UNCHANGED <<signals, daemon, tasks, client>>

\* api_apply: note the sequence number, replace the file, signal, answer.  What
\* it writes loads, if the rest of the configuration does.
NoteSeq ==
    /\ client.step \in {"idle", "done"}
    /\ May("applies") /\ Spend("applies")
    /\ client' = [Idle EXCEPT !.step = "noted", !.after = status.seq]
    /\ UNCHANGED <<disk, signals, daemon, tasks>>

WriteEdit ==
    /\ client.step = "noted"
    /\ \E kind \in Kinds : (kind = "unparsable" => disk.kind = kind) /\ Rewrite(kind)
    /\ client' = [client EXCEPT !.step = "written", !.edit = disk'.version]
    /\ UNCHANGED <<signals, daemon, tasks, spent>>

SignalReload ==
    /\ client.step = "written"
    /\ IF Alive
       THEN pending' = pending \cup {"reload"} /\ client' = [client EXCEPT !.step = "waiting"]
       ELSE client' = [client EXCEPT !.step = "done"] /\ UNCHANGED pending
    /\ UNCHANGED <<disk, permits, cancelled, daemon, tasks, spent>>

\* api_apply_status: the first record past the noted number is the answer.
ReadStatus ==
    /\ client.step = "waiting" /\ status.seq > client.after
    /\ client' = [client EXCEPT !.step = "done", !.verdict = status]
    /\ UNCHANGED <<disk, signals, daemon, tasks, spent>>

-----------------------------------------------------------------------------

Daemon ==
    \/ Ingested \/ IngestFails \/ Prepared \/ PrepareFails \/ Load \/ LoadFailed
    \/ Spawn \/ Stop \/ RefreshNow \/ Tick \/ Worked \/ Join

Dashboard == NoteSeq \/ WriteEdit \/ SignalReload \/ ReadStatus

TaskStep(t) == TaskFails(t) \/ TaskRestarts(t) \/ TaskStops(t)

Done == ~Alive /\ UNCHANGED vars

Next ==
    \/ Daemon \/ Dashboard \/ EditByHand \/ Done
    \/ \E s \in Signals : Send(s) \/ Hear(s)
    \/ \E t \in Tasks : TaskStep(t)

Spec == Init /\ [][Next]_vars

\* The runtime polls what can go on: the daemon, the listener, for which its
\* select picks arms at random, and each task, whose passes and sleeps end.
FairSpec ==
    /\ Spec
    /\ WF_vars(Daemon)
    /\ \A s \in Signals : WF_vars(Hear(s))
    /\ \A t \in Tasks : WF_vars(TaskStops(t))

-----------------------------------------------------------------------------
(* Properties *)

Outcomes == {"none", "applied", "failed", "reverted"}
Arc      == [arc : Nat, version : Nat, kind : Kinds]
Status   == [seq : Nat, outcome : Outcomes, arc : Nat, version : Nat]

TypeOK ==
    /\ disk \in [version : Nat, kind : Kinds]
    /\ pending \subseteq Signals /\ permits \in [Signals -> {0, 1}]
    /\ {cancelled, announce, reverted, again} \subseteq BOOLEAN
    /\ pc \in {"ingest", "prepare", "failed", "load", "spawn", "select", "refresh",
               "sweep", "swap", "join", "exited"}
    /\ station \in Arc /\ lastGood \in Arc /\ status \in Status
    /\ tasks \in [Tasks -> [arc : Nat, state : {"up", "waiting", "done"},
                            stop : BOOLEAN, erred : BOOLEAN]]
    /\ exit \in {"no", "clean", "error"}
    /\ client \in [step : {"idle", "noted", "written", "waiting", "done"}, after : Nat,
                   edit : Nat, verdict : Status]
    /\ log \in [read : Nat, reloads : Nat, parsed : Nat, announced : Nat]
    /\ spent \in [DOMAIN Bounds -> Nat]

OnAir == pc \in {"select", "refresh", "sweep", "swap"}

\* Never two generations at once: whatever task still runs, it runs the
\* configuration in force, and none runs when the next is read and prepared.
OneGeneration ==
    \A t \in Tasks : tasks[t].state # "done" =>
        tasks[t].arc = station.arc /\ (OnAir \/ pc = "join")

\* ADR 0001: once a generation has run, no edit takes the daemon off the air, and
\* no channel that failed.  It ends when it was told to, or when the machine
\* lets no configuration prepare.
EditNeverEndsIt ==
    ~Alive => cancelled \/ log.reloads = 0 \/ spent.faults > 0

\* Every reload leaves one record, about the text it read, and the record says
\* "applied" exactly when that text is what is now on the air.
OneRecordPerReload ==
    OnAir /\ log.reloads > 0 =>
        /\ status.seq = log.reloads /\ status.version = log.read
        /\ status.outcome = "applied" <=> status.arc = station.arc

\* Every reload that parses is announced to the hooks once, by whichever
\* configuration then goes on the air, and no other generation announces one.
AnnouncedOnce == OnAir => log.announced = log.parsed

\* An edit the dashboard signalled is read by the daemon, whatever it was doing,
\* unless the daemon ends: no SIGHUP is lost to another that came before.
EditIsRead ==
    \A v \in 1 .. 1 + MaxEdits + MaxApplies :
        (client.step = "waiting" /\ client.edit = v) ~> (log.read >= v \/ ~Alive)

\* A refresh asked for is taken up, however often the timers fire, unless the
\* daemon ends.
RefreshIsStarted == permits["refresh_now"] = 1 ~> (permits["refresh_now"] = 0 \/ ~Alive)

\* A shutdown ends the daemon, however often the timers fire and channels fail.
ShutdownEnds == cancelled ~> ~Alive

\* The order of the arms of the biased select starves neither (daemon.rs:1126).
SignalsAreServed == RefreshIsStarted /\ ShutdownEnds

\* The verdict the dashboard shows for an edit is about a reload that read it.
VerdictIsOwn == client.verdict # NoStatus => client.verdict.version >= client.edit

=============================================================================
