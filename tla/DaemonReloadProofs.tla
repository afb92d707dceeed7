------------------------- MODULE DaemonReloadProofs -------------------------
(***************************************************************************)
(* What holds of DaemonReload for any tasks and any bounds: the types, one *)
(* generation at a time, a truthful record of every reload, and that an    *)
(* edit never ends the daemon.                                             *)
(***************************************************************************)
EXTENDS DaemonReload, TLAPS

\* An Arc that was made later has a higher number, so two of the same number are
\* the same; a configuration that prepared once is good.  Another one than the
\* last good one is in force only while it is being prepared.
Arcs ==
    /\ station.arc \in 1 .. log.parsed + 1
    /\ lastGood.arc \in 0 .. log.parsed + 1
    /\ station.arc = lastGood.arc => station = lastGood
    /\ lastGood.arc = 0 => lastGood = NoStation
    /\ lastGood.kind = "good"
    /\ station.arc # lastGood.arc =>
        lastGood.arc = 0 \/ pc = "exited" \/ (pc = "prepare" /\ announce)

\* Only the first generation has none to go back to.
HasGood ==
    /\ lastGood.arc = 0 => pc \in {"ingest", "prepare", "exited"} /\ log.reloads = 0
    /\ pc = "ingest" => log.reloads = 0

\* run ends by a shutdown alone.
Cancels ==
    /\ permits["shutdown"] = 1 => cancelled
    /\ pc = "join" /\ ~again => cancelled
    /\ ~Alive => pc = "exited"

\* The announcement is pending from the load until the next generation starts,
\* and the revert from its record until that generation is prepared.
Flags ==
    /\ announce => pc \in {"prepare", "spawn", "exited"}
    /\ reverted => pc \in {"prepare", "exited"} /\ announce /\ station.arc = lastGood.arc
    /\ log.parsed = log.announced + (IF announce THEN 1 ELSE 0)

\* A reload is recorded once, when its outcome is known: after the load when that
\* fails, after the prepare otherwise.
Unrecorded == pc = "failed" \/ (pc = "prepare" /\ announce /\ ~reverted)
Recording ==
    pc # "exited" =>
        /\ log.reloads = status.seq + (IF Unrecorded THEN 1 ELSE 0)
        /\ (pc \in {"prepare", "spawn"} \/ OnAir) /\ log.reloads > 0 /\ ~Unrecorded =>
            /\ status.version = log.read
            /\ status.outcome = "applied" <=> status.arc = station.arc

IInv ==
    /\ TypeOK /\ OneGeneration
    /\ Arcs /\ HasGood /\ Cancels /\ Flags /\ Recording
    /\ EditNeverEndsIt

-----------------------------------------------------------------------------
\* Counting what the environment did: faults have a count of their own,
LEMMA Counters == "faults" \in DOMAIN Bounds
BY DEF Bounds

\* spending from any count leaves naturals and never lowers that one,
LEMMA Counted ==
    ASSUME spent \in [DOMAIN Bounds -> Nat], NEW k, Spend(k)
    PROVE  spent' \in [DOMAIN Bounds -> Nat] /\ spent'["faults"] >= spent["faults"]
<1> DEFINE D == DOMAIN Bounds
<1>1. spent \in [D -> Nat] /\ "faults" \in D
  BY Counters
<1> HIDE DEF D
<1>2. spent' = [spent EXCEPT ![k] = spent[k] + 1]
  BY DEF Spend
<1>3. CASE k \in D
  BY <1>1, <1>2, <1>3
<1>4. CASE ~ (k \in D)
  <2>1. spent' = spent
    BY <1>1, <1>2, <1>4
  <2> QED BY <1>1, <2>1
<1> QED BY <1>3, <1>4 DEF D

\* and a fault raises it.
LEMMA FaultCounted ==
    ASSUME spent \in [DOMAIN Bounds -> Nat], Spend("faults")
    PROVE  spent'["faults"] > 0
<1> DEFINE D == DOMAIN Bounds
<1>1. spent \in [D -> Nat] /\ "faults" \in D
  BY Counters
<1> HIDE DEF D
<1> QED BY <1>1 DEF Spend

\* The daemon starts in the invariant: ingesting, with nothing prepared yet.
LEMMA InitGood == Init => IInv
<1> SUFFICES ASSUME Init PROVE IInv
  OBVIOUS
<1>0. cancelled = FALSE /\ announce = FALSE /\ reverted = FALSE /\ again = FALSE
  BY DEF Init
<1>1. TypeOK
  <2>1. PICK kind \in {"good", "unpreparable"} :
           /\ disk = [version |-> 1, kind |-> kind]
           /\ station = [arc |-> 1, version |-> 1, kind |-> kind]
    BY DEF Init
  <2>2. disk \in [version : Nat, kind : Kinds] /\ station \in Arc /\ lastGood \in Arc
    BY <2>1 DEF Init, Arc, Kinds, NoStation
  <2>3. status \in Status /\ client \in [step : {"idle", "noted", "written", "waiting", "done"}, after : Nat,
                   edit : Nat, verdict : Status]
    BY DEF Init, Status, Idle, NoStatus, Outcomes
  <2>4. tasks \in [Tasks -> [arc : Nat, state : {"up", "waiting", "done"},
                            stop : BOOLEAN, erred : BOOLEAN]]
    BY DEF Init, NoTask
  <2>5. log \in [read : Nat, reloads : Nat, parsed : Nat, announced : Nat]
    BY DEF Init
  <2>6. spent \in [DOMAIN Bounds -> Nat]
    BY DEF Init
  <2>7. pending \subseteq Signals /\ permits \in [Signals -> {0, 1}]
    BY DEF Init
  <2> QED BY <1>0, <2>2, <2>3, <2>4, <2>5, <2>6, <2>7 DEF Init, TypeOK
<1>2. OneGeneration /\ EditNeverEndsIt
  BY DEF Init, OneGeneration, EditNeverEndsIt, NoTask, Alive
<1>3. Arcs /\ HasGood
  BY DEF Init, Arcs, HasGood, NoStation
<1>4. Cancels
  BY DEF Init, Cancels, Signals, Alive
<1>5. Flags 
  BY <1>0 DEF Init, Flags
<1>6. Recording
  BY <1>0 DEF Init, Recording, Unrecorded, NoStatus
<1> QED BY <1>1, <1>2, <1>3, <1>4, <1>5, <1>6 DEF IInv

\* Every step of the daemon, its tasks and its callers keeps the types.
LEMMA TypesStep == ASSUME TypeOK, [Next]_vars PROVE TypeOK'
<1> USE DEF TypeOK
<1>0. {cancelled, announce, reverted, again} \subseteq BOOLEAN
  OBVIOUS
<1>1. CASE Ingested
  BY <1>1 DEF Ingested, signals, Exit
<1>2. CASE IngestFails
  BY <1>2, Counted DEF IngestFails, signals, Exit
<1>3. CASE Prepared
  <2>1. status' \in Status
    BY <1>3 DEF Prepared, Recorded, Status, Outcomes, Arc
  <2>2. reverted' \in BOOLEAN
    BY <1>3 DEF Prepared, AfterApplied
  <2> QED BY <1>3, <2>1, <2>2 DEF Prepared, signals
<1>4. CASE PrepareFails
  <2>1. status' \in Status
    BY <1>4 DEF PrepareFails, Recorded, Status, Outcomes, Arc
  <2>2. reverted' \in BOOLEAN /\ station' \in Arc
    BY <1>4 DEF PrepareFails
  <2>3. spent' \in [DOMAIN Bounds -> Nat]
    BY <1>4, Counted DEF PrepareFails
  <2> QED BY <1>4, <2>1, <2>2, <2>3 DEF PrepareFails, signals, Exit
<1>5. CASE Load
  <2>1. station' \in Arc /\ announce' \in BOOLEAN
    <3>1. log.parsed + 2 \in Nat /\ disk.version \in Nat /\ disk.kind \in Kinds
      OBVIOUS
    <3>2. [arc |-> log.parsed + 2, version |-> disk.version, kind |-> disk.kind] \in Arc
      BY <3>1 DEF Arc
    <3> QED BY <1>5, <3>2 DEF Load
  <2>2. log' \in [read : Nat, reloads : Nat, parsed : Nat, announced : Nat]
    <3>1. /\ log \in [read : Nat, reloads : Nat, parsed : Nat, announced : Nat]
          /\ disk.version \in Nat
          /\ log.reloads + 1 \in Nat /\ log.parsed + 1 \in Nat
      OBVIOUS
    <3>2. \/ log' = [log EXCEPT !.read = disk.version, !.reloads = log.reloads + 1]
          \/ log' = [log EXCEPT !.read = disk.version, !.reloads = log.reloads + 1,
                               !.parsed = log.parsed + 1]
      BY <1>5 DEF Load
    <3> QED BY <3>1, <3>2
  <2> QED BY <1>5, <2>1, <2>2 DEF Load, signals
<1>6. CASE LoadFailed
  <2>1. status' \in Status
    BY <1>6 DEF LoadFailed, Recorded, Status, Outcomes
  <2> QED BY <1>6, <2>1 DEF LoadFailed, signals
<1>7. CASE Spawn
  <2>1. tasks' \in [Tasks -> [arc : Nat, state : {"up", "waiting", "done"},
                              stop : BOOLEAN, erred : BOOLEAN]]
    BY <1>7 DEF Spawn, Arc
  <2>2. log' \in [read : Nat, reloads : Nat, parsed : Nat, announced : Nat]
    BY <1>7 DEF Spawn
  <2> QED BY <1>7, <2>1, <2>2 DEF Spawn, signals, TakenAnnounce
<1>8. CASE Stop
  <2>1. tasks' \in [Tasks -> [arc : Nat, state : {"up", "waiting", "done"},
                              stop : BOOLEAN, erred : BOOLEAN]]
    <3> DEFINE Task == [arc : Nat, state : {"up", "waiting", "done"},
                        stop : BOOLEAN, erred : BOOLEAN]
    <3>1. tasks' = [t \in Tasks |-> [tasks[t] EXCEPT !.stop = TRUE]]
      BY <1>8 DEF Stop
    <3>2. ASSUME NEW t \in Tasks PROVE [tasks[t] EXCEPT !.stop = TRUE] \in Task
      <4>1. tasks[t] \in Task
        OBVIOUS
      <4> QED BY <4>1
    <3> HIDE DEF Task
    <3>3. tasks' \in [Tasks -> Task]
      BY <3>1, <3>2
    <3> QED BY <3>3 DEF Task
  <2>2. permits' \in [Signals -> {0, 1}] /\ again' \in BOOLEAN
    BY <1>8 DEF Stop, Taken
  <2> QED BY <1>8, <2>1, <2>2 DEF Stop
<1>9. CASE RefreshNow
  <2>1. permits' \in [Signals -> {0, 1}]
    BY <1>9 DEF RefreshNow, Taken
  <2> QED BY <1>9, <2>1 DEF RefreshNow
<1>10. CASE Tick \/ Worked \/ Join
  BY <1>10 DEF Tick, Worked, Join, signals, Exit
<1>11. CASE Dashboard \/ EditByHand
  <2>1. disk' \in [version : Nat, kind : Kinds]
    BY <1>11 DEF Dashboard, EditByHand, NoteSeq, WriteEdit, SignalReload, ReadStatus, Rewrite
  <2>2. client' \in [step : {"idle", "noted", "written", "waiting", "done"}, after : Nat,
                     edit : Nat, verdict : Status]
    <3>1. CASE NoteSeq
      BY <3>1 DEF NoteSeq, Idle, NoStatus, Status, Outcomes
    <3>2. CASE WriteEdit
      BY <3>2, <2>1 DEF WriteEdit
    <3>3. CASE SignalReload \/ ReadStatus \/ EditByHand
      BY <3>3 DEF SignalReload, ReadStatus, EditByHand
    <3> QED BY <1>11, <3>1, <3>2, <3>3 DEF Dashboard
  <2>3. pending' \subseteq Signals
    BY <1>11 DEF Dashboard, EditByHand, NoteSeq, WriteEdit, SignalReload, ReadStatus,
                 signals, Signals
  <2>4. spent' \in [DOMAIN Bounds -> Nat]
    BY <1>11, Counted DEF Dashboard, EditByHand, NoteSeq, WriteEdit, SignalReload, ReadStatus
  <2>5. UNCHANGED <<permits, cancelled, daemon, tasks>>
    BY <1>11 DEF Dashboard, EditByHand, NoteSeq, WriteEdit, SignalReload, ReadStatus, signals
  <2> QED BY <2>1, <2>2, <2>3, <2>4, <2>5 DEF daemon
<1>12. ASSUME NEW s \in Signals, Send(s) \/ Hear(s) PROVE TypeOK'
  <2>1. pending' \subseteq Signals /\ cancelled' \in BOOLEAN /\ permits' \in [Signals -> {0, 1}]
    BY <1>12 DEF Send, Hear, Notified
  <2>2. spent' \in [DOMAIN Bounds -> Nat]
    BY <1>12, Counted DEF Send, Hear
  <2> QED BY <1>12, <2>1, <2>2 DEF Send, Hear, daemon
<1>13. ASSUME NEW t \in Tasks, TaskStep(t) PROVE TypeOK'
  <2>1. tasks' \in [Tasks -> [arc : Nat, state : {"up", "waiting", "done"},
                              stop : BOOLEAN, erred : BOOLEAN]]
    BY <1>13 DEF TaskStep, TaskFails, TaskRestarts, TaskStops
  <2>2. spent' \in [DOMAIN Bounds -> Nat]
    BY <1>13, Counted DEF TaskStep, TaskFails, TaskRestarts, TaskStops
  <2> QED BY <1>13, <2>1, <2>2 DEF TaskStep, TaskFails, TaskRestarts, TaskStops, signals, daemon
<1>14. CASE UNCHANGED vars
  BY <1>14 DEF vars, signals, daemon
<1> QED BY <1>1, <1>2, <1>3, <1>4, <1>5, <1>6, <1>7, <1>8, <1>9, <1>10, <1>11, <1>12, <1>13,
           <1>14 DEF Next, Daemon, Done

\* A step that leaves the daemon and its generation as they are.
Beside ==
    /\ UNCHANGED daemon
    /\ \A t \in Tasks : tasks'[t].arc = tasks[t].arc
                        /\ (tasks[t].state = "done" => tasks'[t].state = "done")
    /\ permits'["shutdown"] = 1 => permits["shutdown"] = 1 \/ cancelled'
    /\ cancelled => cancelled'
    /\ spent'["faults"] >= spent["faults"]

\* Such a step keeps the invariant.
LEMMA BesideGood == ASSUME IInv, TypeOK', Beside PROVE IInv'
<1>1. OneGeneration'
  BY DEF IInv, OneGeneration, Beside, daemon, OnAir
<1>2. Arcs' /\ HasGood'
  BY DEF IInv, Arcs, HasGood, Beside, daemon
<1>3. Cancels'
  BY DEF IInv, Cancels, Beside, daemon, Alive
<1>4. Flags' /\ Recording'
  BY DEF IInv, Flags, Recording, Unrecorded, OnAir, Beside, daemon
<1>5. EditNeverEndsIt'
  <2>1. spent["faults"] \in Nat /\ spent'["faults"] \in Nat
    BY Counters DEF IInv, TypeOK
  <2>2. /\ exit' = exit /\ log' = log /\ (cancelled => cancelled')
        /\ spent'["faults"] >= spent["faults"]
    BY DEF Beside, daemon
  <2>3. exit # "no" => cancelled \/ log.reloads = 0 \/ spent["faults"] > 0
    BY DEF IInv, EditNeverEndsIt, Alive
  <2>4. exit' # "no" => cancelled' \/ log'.reloads = 0 \/ spent'["faults"] > 0
    <3>1. spent["faults"] > 0 => spent'["faults"] > 0
      BY <2>1, <2>2
    <3> QED BY <2>2, <2>3, <3>1
  <2> QED BY <2>4 DEF EditNeverEndsIt, Alive
<1> QED BY <1>1, <1>2, <1>3, <1>4, <1>5 DEF IInv

\* The tasks, the signals and those who edit take no other steps.
LEMMA StepsBeside ==
    ASSUME IInv, Dashboard \/ EditByHand \/ Done \/ UNCHANGED vars
                 \/ (\E s \in Signals : Send(s) \/ Hear(s)) \/ (\E t \in Tasks : TaskStep(t))
    PROVE  Beside
<1> USE DEF IInv
<1>1. CASE Dashboard \/ EditByHand
  <2>1. UNCHANGED <<permits, cancelled, daemon, tasks>>
    BY <1>1 DEF Dashboard, EditByHand, NoteSeq, WriteEdit, SignalReload, ReadStatus, signals
  <2>2. spent'["faults"] >= spent["faults"]
    <3>1. spent'["faults"] >= spent["faults"] \/ UNCHANGED spent
      BY <1>1, Counted DEF TypeOK, Dashboard, EditByHand, NoteSeq, WriteEdit, SignalReload,
                           ReadStatus
    <3> QED BY <3>1, Counters DEF TypeOK
  <2> QED BY <2>1, <2>2 DEF Beside
<1>2. CASE Done \/ UNCHANGED vars
  BY <1>2, Counters DEF Done, vars, signals, Beside, TypeOK
<1>3. ASSUME NEW s \in Signals, Send(s) \/ Hear(s) PROVE Beside
  <2>1. UNCHANGED <<daemon, tasks>> /\ (cancelled => cancelled')
    BY <1>3 DEF Send, Hear
  <2>2. permits'["shutdown"] = 1 => permits["shutdown"] = 1 \/ cancelled'
    BY <1>3 DEF Send, Hear, Notified, TypeOK, Signals
  <2>3. spent'["faults"] >= spent["faults"]
    BY <1>3, Counted, Counters DEF Send, Hear, TypeOK
  <2> QED BY <2>1, <2>2, <2>3 DEF Beside
<1>4. ASSUME NEW t \in Tasks, TaskStep(t) PROVE Beside
  <2>1. UNCHANGED <<signals, daemon>>
    BY <1>4 DEF TaskStep, TaskFails, TaskRestarts, TaskStops
  <2>2. \A u \in Tasks : tasks'[u].arc = tasks[u].arc
                         /\ (tasks[u].state = "done" => tasks'[u].state = "done")
    BY <1>4 DEF TaskStep, TaskFails, TaskRestarts, TaskStops, TypeOK
  <2>3. spent'["faults"] >= spent["faults"]
    BY <1>4, Counted, Counters DEF TaskStep, TaskFails, TaskRestarts, TaskStops, TypeOK
  <2> QED BY <2>1, <2>2, <2>3 DEF Beside, signals
<1> QED BY <1>1, <1>2, <1>3, <1>4

\* Every step keeps the invariant; those of `run` one by one.
LEMMA StepsGood == ASSUME IInv, [Next]_vars PROVE IInv'
<1> USE DEF IInv
<1>0. TypeOK'
  BY TypesStep
<1>t. /\ cancelled \in BOOLEAN /\ announce \in BOOLEAN /\ reverted \in BOOLEAN /\ again \in BOOLEAN
      /\ log.reloads \in Nat /\ log.parsed \in Nat /\ log.announced \in Nat /\ log.read \in Nat
      /\ status.seq \in Nat /\ station.arc \in Nat /\ lastGood.arc \in Nat
  BY DEF TypeOK, Status, Arc
<1>1. CASE Ingested \/ IngestFails
  <2>1. UNCHANGED <<permits, cancelled, station, lastGood, announce, reverted, again, status,
                    tasks, log>>
        /\ pc = "ingest" /\ pc' \in {"prepare", "exited"}
    BY <1>1 DEF Ingested, IngestFails, Exit, signals
  <2>2. OneGeneration'
    BY <2>1 DEF OneGeneration, OnAir
  <2>3. Arcs' /\ HasGood'
    BY <2>1 DEF Arcs, HasGood
  <2>4. Cancels' /\ EditNeverEndsIt'
    <3>1. CASE Ingested
      BY <2>1, <3>1 DEF Cancels, EditNeverEndsIt, Alive, Ingested, Exit
    <3>2. CASE IngestFails
      BY <2>1, <3>2, FaultCounted DEF Cancels, EditNeverEndsIt, Alive, IngestFails, Exit, TypeOK
    <3> QED BY <1>1, <3>1, <3>2
  <2>5. Flags' /\ Recording'
    BY <1>t, <2>1 DEF Flags, Recording, Unrecorded, OnAir, HasGood, Arcs
  <2> QED BY <1>0, <2>2, <2>3, <2>4, <2>5
<1>2. CASE Prepared
  <2>1. OneGeneration'
    BY <1>2 DEF Prepared, OneGeneration, OnAir
  <2>2. Arcs' /\ HasGood'
    BY <1>2 DEF Prepared, Arcs, HasGood
  <2>3. Cancels' /\ EditNeverEndsIt'
    BY <1>2 DEF Prepared, Cancels, EditNeverEndsIt, Alive, signals
  <2>4. Flags'
    BY <1>2, <1>t DEF Prepared, Flags, AfterApplied
  <2>5. Recording'
    BY <1>2, <1>t DEF Prepared, Recording, Unrecorded, OnAir, Recorded, ShouldRecordApplied, Flags
  <2> QED BY <1>0, <2>1, <2>2, <2>3, <2>4, <2>5
<1>3. CASE PrepareFails
  <2>1. OneGeneration'
    BY <1>3 DEF PrepareFails, OneGeneration, OnAir
  <2>2. CASE CanRevert
    <3>1. station.arc # lastGood.arc /\ lastGood.arc # 0 /\ announce /\ ~reverted
      BY <1>3, <2>2 DEF PrepareFails, CanRevert, Arcs, Flags
    <3>2. UNCHANGED <<permits, cancelled, pc, exit, lastGood, announce, again, log>>
          /\ pc = "prepare" /\ station' = lastGood /\ reverted' = TRUE
          /\ status' = Recorded("reverted", station.arc)
      BY <1>3, <2>2 DEF PrepareFails, signals
    <3>3. Arcs' /\ HasGood'
      BY <1>t, <3>1, <3>2 DEF Arcs, HasGood
    <3>4. Cancels' /\ EditNeverEndsIt'
      BY <3>2 DEF Cancels, EditNeverEndsIt, Alive
    <3>5. Flags'
      BY <1>t, <3>1, <3>2 DEF Flags
    <3>6. Recording'
      BY <1>t, <3>1, <3>2 DEF Recording, Unrecorded, OnAir, Recorded
    <3> QED BY <1>0, <2>1, <3>3, <3>4, <3>5, <3>6
  <2>3. CASE ~CanRevert
    <3>1. UNCHANGED <<permits, cancelled, station, lastGood, announce, reverted, again, log>>
          /\ pc = "prepare" /\ pc' = "exited"
      BY <1>3, <2>3 DEF PrepareFails, signals, Exit
    <3>2. Arcs' /\ HasGood' /\ Flags' /\ Recording' /\ Cancels'
      BY <1>t, <3>1 DEF Arcs, HasGood, Flags, Recording, Cancels
    <3>3. EditNeverEndsIt'
      <4>1. CASE station.kind = "unpreparable"
        BY <2>3, <3>1, <4>1 DEF CanRevert, Arcs, HasGood, NoStation, EditNeverEndsIt
      <4>2. CASE ~(station.kind = "unpreparable")
        BY <1>3, <4>2, FaultCounted DEF PrepareFails, EditNeverEndsIt, TypeOK
      <4> QED BY <4>1, <4>2
    <3> QED BY <1>0, <2>1, <3>2, <3>3
  <2> QED BY <2>2, <2>3
<1>4. CASE Load
  <2>1. OneGeneration'
    BY <1>4 DEF Load, OneGeneration, OnAir
  <2>2. lastGood.arc # 0 /\ station.arc = lastGood.arc /\ ~announce /\ ~reverted
    BY <1>4 DEF Load, HasGood, Arcs, Flags
  <2>3. UNCHANGED <<permits, cancelled, exit, lastGood, again, reverted, status>>
        /\ log'.reloads = log.reloads + 1 /\ pc = "load" /\ log'.announced = log.announced
    BY <1>4 DEF Load, signals, TypeOK
  <2>4. CASE disk.kind = "unparsable"
    <3>1. pc' = "failed" /\ UNCHANGED <<station, announce>> /\ log'.parsed = log.parsed
      BY <1>4, <2>4 DEF Load, TypeOK
    <3>2. Arcs' /\ HasGood' /\ Flags'
      BY <1>t, <2>2, <2>3, <3>1 DEF Arcs, HasGood, Flags
    <3>3. Recording'
      BY <1>t, <2>2, <2>3, <3>1 DEF Recording, Unrecorded, OnAir
    <3>4. Cancels' /\ EditNeverEndsIt'
      BY <2>3, <3>1 DEF Cancels, EditNeverEndsIt, Alive
    <3> QED BY <1>0, <2>1, <3>2, <3>3, <3>4
  <2>5. CASE disk.kind # "unparsable"
    <3>a. /\ pc' = "prepare" /\ announce' = TRUE
          /\ station' = [arc |-> log.parsed + 2, version |-> disk.version, kind |-> disk.kind]
          /\ log' = [log EXCEPT !.read = disk.version, !.reloads = log.reloads + 1,
                                !.parsed = log.parsed + 1]
      BY <1>4, <2>5 DEF Load
    <3>b. log \in [read : Nat, reloads : Nat, parsed : Nat, announced : Nat]
      BY DEF TypeOK
    <3>c. log'.parsed = log.parsed + 1
      BY <3>a, <3>b
    <3>1. /\ pc' = "prepare" /\ announce' = TRUE
          /\ log'.parsed = log.parsed + 1 /\ station'.arc = log.parsed + 2
      BY <3>a, <3>c
    <3>2. Arcs' /\ HasGood' /\ Flags'
      BY <1>t, <2>2, <2>3, <3>1 DEF Arcs, HasGood, Flags
    <3>3. Recording'
      BY <1>t, <2>2, <2>3, <3>1 DEF Recording, Unrecorded, OnAir
    <3>4. Cancels' /\ EditNeverEndsIt'
      BY <2>3, <3>1 DEF Cancels, EditNeverEndsIt, Alive
    <3> QED BY <1>0, <2>1, <3>2, <3>3, <3>4
  <2> QED BY <2>4, <2>5
<1>5. CASE LoadFailed
  <2>1. UNCHANGED <<permits, cancelled, station, lastGood, announce, reverted, again, tasks,
                    exit, log>>
        /\ pc = "failed" /\ pc' = "prepare" /\ status' = Recorded("failed", 0)
    BY <1>5 DEF LoadFailed, signals
  <2>2. lastGood.arc # 0 /\ station.arc = lastGood.arc /\ ~announce
    BY <2>1 DEF HasGood, Arcs, Flags
  <2>3. OneGeneration' /\ Arcs' /\ HasGood' /\ Cancels' /\ EditNeverEndsIt'
    BY <2>1, <2>2 DEF OneGeneration, OnAir, Arcs, HasGood, Cancels, EditNeverEndsIt, Alive
  <2>4. Flags'
    BY <1>t, <2>1, <2>2 DEF Flags
  <2>5. Recording'
    BY <1>t, <2>1, <2>2 DEF Recording, Unrecorded, OnAir, Recorded, Arcs
  <2> QED BY <1>0, <2>3, <2>4, <2>5
<1>6. CASE Spawn
  <2>1. UNCHANGED <<permits, cancelled, station, lastGood, reverted, again, status, exit>>
        /\ pc = "spawn" /\ pc' = "select" /\ announce' = FALSE
        /\ log'.reloads = log.reloads /\ log'.parsed = log.parsed /\ log'.read = log.read
        /\ log'.announced = log.announced + (IF announce THEN 1 ELSE 0)
    BY <1>6, <1>t DEF Spawn, signals, TakenAnnounce, TypeOK
  <2>2. OneGeneration'
    BY <1>6 DEF Spawn, OneGeneration, OnAir
  <2>3. Arcs' /\ HasGood' /\ Cancels' /\ EditNeverEndsIt'
    BY <1>6, <2>1 DEF Arcs, HasGood, Cancels, EditNeverEndsIt, Alive, Spawn
  <2>4. Flags'
    BY <1>t, <2>1 DEF Flags
  <2>5. Recording'
    BY <1>t, <2>1 DEF Recording, Unrecorded, OnAir
  <2> QED BY <1>0, <2>2, <2>3, <2>4, <2>5
<1>7. CASE Stop
  <2>1. UNCHANGED <<cancelled, station, lastGood, announce, reverted, status, exit, log, spent>>
        /\ pc = "select" /\ pc' = "join"
    BY <1>7 DEF Stop, Taken
  <2>2. OneGeneration'
    BY <1>7 DEF Stop, OneGeneration, OnAir, TypeOK
  <2>3. Cancels'
    <3>1. PICK s \in {"shutdown", "reload"} : Taken(s) /\ again' = (s = "reload")
      BY <1>7 DEF Stop
    <3>2. permits["shutdown"] = 1 => cancelled
      BY DEF Cancels
    <3>3. permits'["shutdown"] = 1 => permits["shutdown"] = 1
      BY <3>1 DEF Taken, TypeOK, Signals
    <3>4. ~again' => cancelled
      BY <3>1, <3>2 DEF Taken
    <3>5. exit = "no"
      BY <2>1 DEF Cancels, Alive
    <3> QED BY <2>1, <3>2, <3>3, <3>4, <3>5 DEF Cancels, Alive
  <2>4. Arcs' /\ HasGood' /\ Flags' /\ Recording' /\ EditNeverEndsIt'
    BY <1>t, <2>1 DEF Arcs, HasGood, Flags, Recording, Unrecorded, OnAir, EditNeverEndsIt, Alive
  <2> QED BY <1>0, <2>2, <2>3, <2>4
<1>8. CASE RefreshNow \/ Tick \/ Worked
  <2>1. UNCHANGED <<cancelled, station, lastGood, announce, reverted, again, status, exit, tasks,
                    log, spent>>
        /\ OnAir /\ OnAir' /\ permits'["shutdown"] = permits["shutdown"]
    BY <1>8 DEF RefreshNow, Tick, Worked, Taken, OnAir, signals, TypeOK, Signals
  <2>2. OneGeneration' /\ Arcs' /\ HasGood' /\ Cancels' /\ EditNeverEndsIt'
    BY <2>1 DEF OneGeneration, OnAir, Arcs, HasGood, Cancels, EditNeverEndsIt, Alive
  <2>3. Flags' /\ Recording'
    BY <1>t, <2>1 DEF Flags, Recording, Unrecorded, OnAir
  <2> QED BY <1>0, <2>2, <2>3
<1>9. CASE Join
  <2>1. UNCHANGED <<permits, cancelled, station, lastGood, announce, reverted, again, status, tasks,
                    log, spent>>
        /\ pc = "join" /\ pc' \in {"load", "exited"} /\ AllDone
    BY <1>9 DEF Join, Exit, signals
  <2>2. OneGeneration'
    BY <2>1 DEF OneGeneration, AllDone
  <2>3. Cancels' /\ EditNeverEndsIt'
    BY <1>9, <2>1 DEF Join, Exit, Cancels, EditNeverEndsIt, Alive
  <2>4. Arcs' /\ HasGood' /\ Flags' /\ Recording'
    BY <1>t, <2>1 DEF Arcs, HasGood, Flags, Recording, Unrecorded, OnAir
  <2> QED BY <1>0, <2>2, <2>3, <2>4
<1>10. CASE Dashboard \/ EditByHand \/ Done \/ UNCHANGED vars
            \/ (\E s \in Signals : Send(s) \/ Hear(s)) \/ (\E t \in Tasks : TaskStep(t))
  BY <1>0, <1>10, StepsBeside, BesideGood
<1> QED BY <1>1, <1>2, <1>3, <1>4, <1>5, <1>6, <1>7, <1>8, <1>9, <1>10 DEF Next, Daemon


-----------------------------------------------------------------------------
\* The strengthened invariant of the daemon, from which the theorems below follow.
LEMMA AlwaysGood == Spec => []IInv
BY InitGood, StepsGood, PTL DEF Spec

\* What `run` holds, the listener's permits, the record on disk and the tasks keep
\* their types through reloads, reverts and failures, for any tasks and bounds.
THEOREM TypeCorrect == Spec => []TypeOK
<1>1. IInv => TypeOK
  BY DEF IInv
<1> QED BY AlwaysGood, <1>1, PTL

\* A task that runs always runs the configuration in force: run_generation joins
\* every task of a generation before the next is loaded.
THEOREM OneAtATime == Spec => []OneGeneration
<1>1. IInv => OneGeneration
  BY DEF IInv
<1> QED BY AlwaysGood, <1>1, PTL

\* ADR 0001: an edit never ends the daemon once a generation ran, whatever the
\* edit is worth and however edits, signals and failures fall.
THEOREM EditsAreSurvived == Spec => []EditNeverEndsIt
<1>1. IInv => EditNeverEndsIt
  BY DEF IInv
<1> QED BY AlwaysGood, <1>1, PTL

\* reload_status.rs: each reload leaves one record about the text it read, which
\* says "applied" exactly when that text is the one on the air.
THEOREM RecordsAreTrue == Spec => []OneRecordPerReload
<1>1. IInv => OneRecordPerReload
  <2> SUFFICES ASSUME IInv, OnAir, log.reloads > 0
               PROVE  /\ status.seq = log.reloads /\ status.version = log.read
                      /\ status.outcome = "applied" <=> status.arc = station.arc
    BY DEF OneRecordPerReload
  <2>1. ~Unrecorded /\ pc # "exited"
    BY DEF OnAir, Unrecorded
  <2>2. log.reloads \in Nat /\ status.seq \in Nat
    BY DEF IInv, TypeOK, Status
  <2> QED BY <2>1, <2>2 DEF IInv, Recording
<1> QED BY AlwaysGood, <1>1, PTL

\* daemon.rs: the reload hooks are told of each reload that parsed, once, when
\* whatever came of it goes on the air.
THEOREM Announced == Spec => []AnnouncedOnce
<1>1. IInv => AnnouncedOnce
  <2> SUFFICES ASSUME IInv, OnAir PROVE log.announced = log.parsed
    BY DEF AnnouncedOnce
  <2>1. ~announce
    BY DEF OnAir, IInv, Flags
  <2>2. log.announced \in Nat /\ log.parsed \in Nat
    BY DEF IInv, TypeOK
  <2> QED BY <2>1, <2>2 DEF IInv, Flags
<1> QED BY AlwaysGood, <1>1, PTL

=============================================================================
