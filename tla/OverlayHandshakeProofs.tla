----------------------- MODULE OverlayHandshakeProofs -----------------------
(***************************************************************************)
(* What holds of OverlayHandshake for any timeouts that satisfy its        *)
(* assumption and any number of items, crashes and reloads: a worker that  *)
(* asks is never slept through and is served within its patience, and an   *)
(* overlay leaves only once it has been alone for long enough.             *)
(***************************************************************************)
EXTENDS OverlayHandshake, TLAPS

\* A request counts from 1, and so does a fifo; nobody knows a later one than
\* the last.
Numbered ==
    /\ wanted =< spent["requests"] /\ sup.served =< spent["requests"] /\ sup.cold =< spent["requests"]
    /\ worker.state \in {"waiting", "reading", "stalled"} => worker.fifo # Absent

\* The supervisor has a child exactly while there is a process, and is cold only
\* without one.
Parent ==
    /\ sup.child => sup.up /\ sup.cold = Absent
    /\ sup.child <=> overlay.phase # "none"

\* The warm-up ends in time, before anybody was served; what waits for a reader
\* holds no fifo.
Phases ==
    /\ overlay.phase = "warming" => overlay.timer >= IdleTimeout - WarmUp /\ ~overlay.served
    /\ overlay.phase \in {"warming", "opening"} => overlay.fifo = Absent
    /\ overlay.phase = "opening" /\ overlay.served => alone + overlay.timer >= IdleTimeout

Pending == worker.state \in {"touched", "waiting"} /\ ~excused

\* A request that is pending is the last one, and newer than what made the
\* channel cold; the overlay started for it is there and will not leave.
Asked ==
    Pending =>
        /\ sup.up /\ wanted = spent["requests"] /\ wanted # Absent /\ sup.cold < wanted
        /\ worker.state = "waiting" => worker.fifo = fifo
        /\ sup.child /\ sup.served = wanted =>
            /\ overlay.phase \in {"warming", "opening", "writing"}
            /\ overlay.phase = "opening" => overlay.timer > 0
            /\ overlay.phase = "writing" => worker.state = "waiting" /\ overlay.fifo = fifo

\* The units that may pass before the worker is served: a poll to reap, a poll
\* to start, a warm-up.
ToPoll == IF sup.polled THEN 1 ELSE 0
Need ==
    CASE overlay.phase = "none"                            -> ToPoll + WarmUp
      [] overlay.phase = "warming"                         -> overlay.timer - (IdleTimeout - WarmUp)
      [] overlay.phase = "opening" /\ overlay.timer = 0    -> 2 + WarmUp
      [] overlay.phase \in {"idle", "crashed"}             -> ToPoll + 1 + WarmUp
      [] OTHER                                             -> 0

InTime == worker.state = "waiting" /\ ~excused => worker.timer > Need

\* The inductive invariant: InTime counts the units, the others say why the count
\* is right.
IInv == TypeOK /\ Numbered /\ Parent /\ Phases /\ Asked /\ InTime

\* run clears what a prior run left; who has asked before is excused,
LEMMA StartUpStep ==
    ASSUME IInv, StartUp PROVE IInv'
<1>1. TypeOK'
  <2>1. sup' = [up |-> TRUE, polled |-> FALSE, child |-> FALSE, readyObserved |-> FALSE,
               cold |-> 0, served |-> 0]
    BY DEF StartUp, Gone, Absent
  <2>2. fifo' \in Nat /\ made' \in Nat
    BY DEF IInv, TypeOK, StartUp, EnsureFifo, MakeFifo
  <2>3. sup' \in [up : BOOLEAN, polled : BOOLEAN, child : BOOLEAN, readyObserved : BOOLEAN,
                  cold : Nat, served : Nat]
    BY <2>1
  <2>4. wanted' = 0 /\ ready' = FALSE /\ excused' = TRUE /\ UNCHANGED <<overlay, worker, alone, spent>>
    BY DEF StartUp, Absent
  <2> QED BY <2>2, <2>3, <2>4 DEF IInv, TypeOK
<1>2. Numbered'
  BY DEF IInv, TypeOK, Numbered, Gone, Absent, StartUp
<1>3. Parent' /\ Phases' /\ InTime'
  BY DEF IInv, Parent, Gone, StartUp, Phases, InTime
<1>4. Asked'
  BY DEF Asked, Pending, StartUp
<1> QED BY <1>1, <1>2, <1>3, <1>4 DEF IInv

\* and so is who asks of a station that goes away.
LEMMA ShutDownStep ==
    ASSUME IInv, ShutDown PROVE IInv'
<1>1. TypeOK'
  <2>1. sup' = [up |-> FALSE, polled |-> FALSE, child |-> FALSE, readyObserved |-> FALSE,
               cold |-> 0, served |-> 0]
    BY DEF ShutDown, Gone, Absent
  <2>2. overlay' = [phase |-> "none", timer |-> 0, quiet |-> 0, served |-> FALSE, fifo |-> 0]
    BY DEF ShutDown, NoOverlay, Absent
  <2>3. spent' \in [{"requests", "faults", "reloads"} -> Nat]
    BY DEF IInv, TypeOK, ShutDown, Spend
  <2>4. sup' \in [up : BOOLEAN, polled : BOOLEAN, child : BOOLEAN, readyObserved : BOOLEAN,
                  cold : Nat, served : Nat]
    BY <2>1
  <2>5. overlay' \in [phase : {"none", "warming", "opening", "writing", "idle", "crashed"},
                      timer : 0 .. IdleTimeout, quiet : 0 .. IdleTimeout + 1,
                      served : BOOLEAN, fifo : Nat]
    BY <2>2, TimeoutAssumption
  <2>6. wanted' = 0 /\ fifo' = 0 /\ ready' = FALSE /\ excused' = TRUE /\ UNCHANGED <<made, worker, alone>>
    BY DEF ShutDown, Absent
  <2> QED BY <2>3, <2>4, <2>5, <2>6 DEF IInv, TypeOK
<1>2. Numbered'
  BY DEF IInv, TypeOK, Numbered, Gone, Absent, ShutDown, Spend
<1>3. Parent' /\ Phases' /\ InTime'
  BY DEF Parent, NoOverlay, Gone, ShutDown, Phases, InTime
<1>4. Asked'
  BY DEF Asked, Pending, ShutDown
<1> QED BY <1>1, <1>2, <1>3, <1>4 DEF IInv

\* The request an overlay was started for is older than one that still waits.
LEMMA ReapStep ==
    ASSUME IInv, Reap PROVE IInv'
<1>1. TypeOK'
  <2>1. \E cold \in Nat :
          sup' = [up |-> sup.up, polled |-> TRUE, child |-> FALSE, readyObserved |-> FALSE,
                  cold |-> cold, served |-> sup.served]
    BY DEF IInv, TypeOK, Reap, Served
  <2>2. overlay' = [phase |-> "none", timer |-> 0, quiet |-> 0, served |-> FALSE, fifo |-> 0]
    BY DEF Reap, NoOverlay, Absent
  <2>3. sup' \in [up : BOOLEAN, polled : BOOLEAN, child : BOOLEAN, readyObserved : BOOLEAN,
                  cold : Nat, served : Nat]
    BY <2>1 DEF IInv, TypeOK
  <2>4. overlay' \in [phase : {"none", "warming", "opening", "writing", "idle", "crashed"},
                      timer : 0 .. IdleTimeout, quiet : 0 .. IdleTimeout + 1,
                      served : BOOLEAN, fifo : Nat]
    BY <2>2, TimeoutAssumption
  <2>5. ready' = FALSE /\ UNCHANGED <<wanted, fifo, made, worker, alone, excused, spent>>
    BY DEF Reap
  <2> QED BY <2>3, <2>4, <2>5 DEF IInv, TypeOK
<1>2. Numbered' /\ Parent'
  BY DEF IInv, Numbered, Reap, Served, Parent, NoOverlay
<1>3. Phases'
  BY DEF Phases, NoOverlay, Reap
<1>4. Asked'
  BY DEF IInv, TypeOK, Numbered, Asked, Pending, Reap, Served
<1>5. InTime'
  BY DEF IInv, InTime, Need, ToPoll, NoOverlay, Reap
<1> QED BY <1>1, <1>2, <1>3, <1>4, <1>5 DEF IInv

\* A poll that only looks costs no unit that was counted on,
LEMMA ObserveStep ==
    ASSUME IInv, Observe PROVE IInv'
<1>1. TypeOK' /\ Numbered' /\ Parent' /\ Phases'
  BY DEF IInv, TypeOK, Observe, Numbered, Parent, Phases
<1>2. Asked'
  BY DEF IInv, Asked, Pending, Observe
<1>3. InTime'
  BY DEF IInv, Parent, InTime, Need, Observe
<1> QED BY <1>1, <1>2, <1>3 DEF IInv

\* A start answers the request that stands, with a warm-up's need; a failed one
\* excuses.
LEMMA SpawnStep ==
    ASSUME IInv, Spawn PROVE IInv'
<1>0. fifo' \in Nat /\ made' \in Nat /\ ready' = FALSE /\ (fifo # Absent => fifo' = fifo)
      /\ UNCHANGED <<wanted, worker, alone>>
  BY DEF IInv, TypeOK, Spawn, EnsureFifo, MakeFifo
<1>1. CASE /\ sup' = [sup EXCEPT !.polled = TRUE, !.child = TRUE, !.readyObserved = FALSE,
                                 !.cold = Absent, !.served = wanted]
           /\ overlay' = [NoOverlay EXCEPT !.phase = "warming", !.timer = IdleTimeout]
           /\ UNCHANGED <<excused, spent>>
  <2>1. sup' = [up |-> sup.up, polled |-> TRUE, child |-> TRUE, readyObserved |-> FALSE,
               cold |-> 0, served |-> wanted]
    BY <1>1 DEF IInv, TypeOK, Absent
  <2>2. overlay' = [phase |-> "warming", timer |-> IdleTimeout, quiet |-> 0, served |-> FALSE, fifo |-> 0]
    BY <1>1 DEF NoOverlay, Absent
  <2>3. sup' \in [up : BOOLEAN, polled : BOOLEAN, child : BOOLEAN, readyObserved : BOOLEAN,
                  cold : Nat, served : Nat]
    BY <2>1 DEF IInv, TypeOK
  <2>4. overlay' \in [phase : {"none", "warming", "opening", "writing", "idle", "crashed"},
                      timer : 0 .. IdleTimeout, quiet : 0 .. IdleTimeout + 1,
                      served : BOOLEAN, fifo : Nat]
    BY <2>2, TimeoutAssumption
  <2>5. TypeOK'
    <3>1. UNCHANGED <<wanted, worker, alone, excused, spent>>
      BY <1>0, <1>1
    <3>2. fifo' \in Nat /\ made' \in Nat /\ ready' \in BOOLEAN
      BY <1>0
    <3> QED BY <2>3, <2>4, <3>1, <3>2 DEF IInv, TypeOK
  <2>6. sup'.cold = 0 /\ sup'.served = wanted
    BY <2>1
  <2>7. Numbered'
    <3>1. UNCHANGED <<wanted, worker, spent>>
      BY <1>0, <1>1
    <3> QED BY <2>6, <3>1 DEF IInv, TypeOK, Numbered
  <2>8. Parent' /\ Phases'
    <3>1. sup'.up = sup.up /\ sup'.child /\ sup.up /\ sup'.cold = 0
      BY <2>1 DEF Spawn
    <3>2. overlay'.phase = "warming" /\ overlay'.timer = IdleTimeout /\ ~overlay'.served /\ overlay'.fifo = 0
      BY <2>2
    <3> QED BY <3>1, <3>2, TimeoutAssumption DEF Parent, Phases, Absent
  <2>9. Asked'
    BY <1>0, <1>1, <2>1, <2>2, <2>5 DEF IInv, TypeOK, Numbered, Asked, Pending, Spawn, Absent
  <2>10. InTime'
    BY <1>0, <1>1, <2>1, <2>2, TimeoutAssumption
       DEF IInv, TypeOK, Parent, InTime, Need, ToPoll, Spawn
  <2> QED BY <2>5, <2>7, <2>8, <2>9, <2>10 DEF IInv
<1>2. CASE /\ May("faults") /\ Spend("faults")
           /\ sup' = [sup EXCEPT !.polled = TRUE]
           /\ excused' = TRUE
           /\ UNCHANGED overlay
  <2>1. spent' \in [{"requests", "faults", "reloads"} -> Nat]
        /\ spent'["requests"] = spent["requests"]
    BY <1>2 DEF IInv, TypeOK, Spend
  <2>2. TypeOK'
    BY <1>0, <1>2, <2>1 DEF IInv, TypeOK
  <2>3. Numbered' /\ Parent' /\ Phases'
    BY <1>0, <1>2, <2>1 DEF IInv, TypeOK, Numbered, Parent, Phases
  <2>4. Asked' /\ InTime'
    BY <1>2 DEF Asked, InTime, Pending
  <2> QED BY <2>2, <2>3, <2>4 DEF IInv
<1> QED BY <1>1, <1>2 DEF Spawn

\* and none is slept through while a request waits.
LEMMA SleepStep ==
    ASSUME IInv, Sleep PROVE IInv'
<1>1. TypeOK' /\ Numbered' /\ Parent' /\ Phases'
  BY DEF IInv, TypeOK, Sleep, Numbered, Parent, Phases
<1>2. Asked' /\ InTime'
  BY DEF IInv, Asked, Pending, Sleep, InTime, WantsOverlay
<1> QED BY <1>1, <1>2 DEF IInv

\* The warm-up leaves a deadline to wait under,
LEMMA WarmedStep ==
    ASSUME IInv, Warmed PROVE IInv'
<1>1. TypeOK' /\ Numbered' /\ Parent' /\ Phases'
  BY DEF IInv, TypeOK, Warmed, Numbered, Parent, Phases
<1>2. Asked'
  BY TimeoutAssumption DEF IInv, TypeOK, Phases, Asked, Pending, Warmed
<1>3. InTime'
  BY TimeoutAssumption DEF IInv, TypeOK, Phases, InTime, Need, Warmed
<1> QED BY <1>1, <1>2, <1>3 DEF IInv

\* and the fifo that is opened is the one the worker reads.
LEMMA OpenStep ==
    ASSUME IInv, Open PROVE IInv'
<1>1. TypeOK' /\ Numbered' /\ Parent' /\ Phases'
  BY DEF IInv, TypeOK, Open, Numbered, Parent, Phases
<1>2. Asked'
  BY DEF IInv, Asked, Pending, Open, HasReader
<1>3. InTime'
  BY DEF IInv, InTime, Need, Open
<1> QED BY <1>1, <1>2, <1>3 DEF IInv

\* A deadline that has passed leaves room for a reaping and a start.
LEMMA IdleOutStep ==
    ASSUME IInv, IdleOut PROVE IInv'
<1>1. TypeOK' /\ Numbered' /\ Parent' /\ Phases'
  BY DEF IInv, TypeOK, IdleOut, Numbered, Parent, Phases
<1>2. Asked'
  BY DEF IInv, Asked, Pending, IdleOut
<1>3. InTime'
  BY TimeoutAssumption DEF IInv, TypeOK, InTime, Need, ToPoll, IdleOut
<1> QED BY <1>1, <1>2, <1>3 DEF IInv

\* The first frame ends the wait.
LEMMA WriteFrameStep ==
    ASSUME IInv, WriteFrame PROVE IInv'
<1>1. TypeOK'
  <2>1. overlay' = [phase |-> overlay.phase, timer |-> overlay.timer, quiet |-> 0, served |-> TRUE,
                     fifo |-> overlay.fifo]
    BY DEF IInv, TypeOK, WriteFrame
  <2>2. worker' = [state |-> "reading", timer |-> 0, fifo |-> worker.fifo]
    BY DEF IInv, TypeOK, WriteFrame
  <2>3. overlay' \in [phase : {"none", "warming", "opening", "writing", "idle", "crashed"},
                      timer : 0 .. IdleTimeout, quiet : 0 .. IdleTimeout + 1,
                      served : BOOLEAN, fifo : Nat]
    BY <2>1, TimeoutAssumption DEF IInv, TypeOK
  <2>4. worker' \in [state : {"none", "touched", "waiting", "reading", "stalled"},
                     timer : 0 .. WriterTimeout, fifo : Nat]
    BY <2>2, TimeoutAssumption DEF IInv, TypeOK
  <2>5. ready' = TRUE /\ UNCHANGED <<wanted, fifo, made, sup, alone, excused, spent>>
    BY DEF WriteFrame
  <2> QED BY <2>3, <2>4, <2>5 DEF IInv, TypeOK
<1>2. Numbered' /\ Parent' /\ Phases'
  BY DEF IInv, Numbered, WriteFrame, HasReader, Parent, Phases
<1>3. Asked' /\ InTime'
  BY DEF Asked, Pending, WriteFrame, InTime
<1> QED BY <1>1, <1>2, <1>3 DEF IInv

\* A new reader is waited for all of the idle timeout again.
LEMMA BrokenPipeStep ==
    ASSUME IInv, BrokenPipe PROVE IInv'
<1>1. TypeOK'
  <2>1. overlay' = [phase |-> "opening", timer |-> IdleTimeout, quiet |-> overlay.quiet,
                     served |-> overlay.served, fifo |-> 0]
    BY DEF IInv, TypeOK, BrokenPipe, ReopenTimeout, Absent
  <2> QED BY <2>1, TimeoutAssumption DEF IInv, TypeOK, BrokenPipe
<1>2. Numbered' /\ Parent'
  BY DEF IInv, Numbered, BrokenPipe, Parent
<1>3. Phases'
  BY TimeoutAssumption DEF IInv, TypeOK, Phases, BrokenPipe, ReopenTimeout
<1>4. Asked'
  BY DEF IInv, Asked, Pending, BrokenPipe, HasReader
<1>5. InTime'
  BY TimeoutAssumption DEF IInv, InTime, Need, BrokenPipe, ReopenTimeout
<1> QED BY <1>1, <1>2, <1>3, <1>4, <1>5 DEF IInv

\* A crash excuses what follows.
LEMMA CrashStep ==
    ASSUME IInv, Crash PROVE IInv'
<1>1. TypeOK' /\ Numbered' /\ Parent'
  BY DEF IInv, TypeOK, Crash, Spend, Numbered, Parent
<1>2. Phases' /\ Asked' /\ InTime'
  BY DEF Phases, Crash, Asked, Pending, InTime
<1> QED BY <1>1, <1>2 DEF IInv

\* A request is later than all before it, and a fifo
LEMMA TouchStep ==
    ASSUME IInv, Touch PROVE IInv'
<1>1. TypeOK'
  BY TimeoutAssumption DEF IInv, TypeOK, NoReader, Absent, Touch, Spend
<1>2. Numbered' /\ Parent'
  BY DEF IInv, TypeOK, Numbered, Touch, Spend, Parent
<1>3. Phases' /\ InTime'
  BY DEF IInv, Phases, Touch, InTime
<1>4. Asked'
  <2>1. wanted' = spent["requests"] + 1 /\ spent' = [spent EXCEPT !["requests"] = @ + 1]
        /\ worker'.state = "touched" /\ (~excused' => sup.up)
        /\ UNCHANGED <<fifo, sup, overlay>>
    BY DEF Touch, Spend, NoReader
  <2>2. sup.cold < wanted' /\ sup.served < wanted' /\ wanted' # Absent /\ wanted' = spent'["requests"]
    BY <2>1 DEF IInv, TypeOK, Numbered, Absent
  <2> QED BY <2>1, <2>2 DEF IInv, TypeOK, Asked, Pending
<1> QED BY <1>1, <1>2, <1>3, <1>4 DEF IInv

\* comes with all of the worker's patience, which covers every need.
LEMMA OpenReaderStep ==
    ASSUME IInv, OpenReader PROVE IInv'
<1>1. TypeOK'
  BY TimeoutAssumption DEF IInv, TypeOK, NoReader, Absent, OpenReader, MakeFifo, Spend
<1>2. Numbered'
  BY DEF IInv, TypeOK, Numbered, NoReader, Absent, OpenReader, Spend
<1>3. Parent' /\ Phases'
  BY DEF IInv, Parent, OpenReader, Phases
<1>4. Asked'
  BY DEF IInv, Asked, Pending, NoReader, OpenReader, MakeFifo
<1>5. InTime'
  BY TimeoutAssumption DEF IInv, TypeOK, InTime, Need, ToPoll, NoReader, OpenReader
<1> QED BY <1>1, <1>2, <1>3, <1>4, <1>5 DEF IInv

\* A worker that waits no more asks for nothing,
LEMMA GiveUpStep ==
    ASSUME IInv, GiveUp PROVE IInv'
<1>1. TypeOK' /\ Numbered'
  BY DEF IInv, TypeOK, NoReader, Absent, GiveUp, Numbered
<1>2. Parent' /\ Phases' /\ InTime'
  BY DEF IInv, Parent, GiveUp, Phases, InTime, NoReader
<1>3. Asked'
  BY DEF Asked, Pending, NoReader, GiveUp
<1> QED BY <1>1, <1>2, <1>3 DEF IInv

\* wedges without being waited for
LEMMA StallStep ==
    ASSUME IInv, Stall PROVE IInv'
<1>1. TypeOK' /\ Numbered' /\ Parent' /\ Phases'
  BY DEF IInv, TypeOK, Stall, Numbered, Parent, Phases
<1>2. Asked' /\ InTime'
  BY DEF Asked, Pending, Stall, InTime
<1> QED BY <1>1, <1>2 DEF IInv

\* or leaves at the end of its item.
LEMMA ItemEndsStep ==
    ASSUME IInv, ItemEnds PROVE IInv'
<1>1. TypeOK'
  BY TimeoutAssumption DEF IInv, TypeOK, NoReader, Absent, ItemEnds
<1>2. Numbered' /\ Parent' /\ Phases'
  BY DEF IInv, Numbered, NoReader, ItemEnds, Parent, Phases
<1>3. Asked' /\ InTime'
  BY DEF Asked, Pending, NoReader, ItemEnds, InTime
<1> QED BY <1>1, <1>2, <1>3 DEF IInv

\* A unit ends with nothing left to do in it: patience and need shrink together.
LEMMA TickStep ==
    ASSUME IInv, Tick PROVE IInv'
<1>1. TypeOK'
  <2>1. PICK timer \in 0 .. IdleTimeout, quiet \in 0 .. IdleTimeout + 1 :
          overlay' = [phase |-> overlay.phase, timer |-> timer, quiet |-> quiet,
                      served |-> overlay.served, fifo |-> overlay.fifo]
    <3> DEFINE timer == overlay'.timer
               quiet == overlay'.quiet
    <3>1. overlay' = [phase |-> overlay.phase, timer |-> timer, quiet |-> quiet,
                      served |-> overlay.served, fifo |-> overlay.fifo]
      BY DEF IInv, TypeOK, Tick
    <3>2. timer \in 0 .. IdleTimeout /\ quiet \in 0 .. IdleTimeout + 1
      BY TimeoutAssumption DEF IInv, TypeOK, Tick, CountDown, CountUp
    <3> QED BY <3>1, <3>2
  <2>2. worker' = [state |-> worker.state, timer |-> CountDown(worker.timer), fifo |-> worker.fifo]
    BY DEF IInv, TypeOK, Tick
  <2>3. CountDown(worker.timer) \in 0 .. WriterTimeout
    BY TimeoutAssumption DEF IInv, TypeOK, CountDown
  <2>4. sup' \in [up : BOOLEAN, polled : BOOLEAN, child : BOOLEAN, readyObserved : BOOLEAN,
                  cold : Nat, served : Nat]
    BY DEF IInv, TypeOK, Tick
  <2>5. alone' \in Nat
    BY TimeoutAssumption DEF IInv, TypeOK, Tick, CountUp
  <2> QED BY <2>1, <2>2, <2>3, <2>4, <2>5 DEF IInv, TypeOK, Tick
<1>2. Numbered' /\ Parent'
  BY DEF IInv, Numbered, Tick, Parent
<1>3. Phases'
  BY TimeoutAssumption DEF IInv, TypeOK, Numbered, Phases, Tick, Due, HasReader, CountDown, CountUp
<1>4. Asked'
  BY DEF IInv, Asked, Pending, Tick, Due, HasReader
<1>5. InTime'
  BY TimeoutAssumption DEF IInv, TypeOK, Asked, Pending, InTime, Need, ToPoll, Tick, Due, HasReader, CountDown
<1> QED BY <1>1, <1>2, <1>3, <1>4, <1>5 DEF IInv

-----------------------------------------------------------------------------
\* The invariant holds from the start, through every step, and so always.
LEMMA InitIInv == Init => IInv
<1> SUFFICES ASSUME Init PROVE IInv
  OBVIOUS
<1>1. sup = [up |-> FALSE, polled |-> FALSE, child |-> FALSE, readyObserved |-> FALSE,
             cold |-> 0, served |-> 0]
  BY DEF Init, Gone, Absent
<1>2. overlay = [phase |-> "none", timer |-> 0, quiet |-> 0, served |-> FALSE, fifo |-> 0]
  BY DEF Init, NoOverlay, Absent
<1>3. worker = [state |-> "none", timer |-> 0, fifo |-> 0]
  BY DEF Init, NoReader, Absent
<1>4. wanted = 0 /\ fifo = 0 /\ made = 0 /\ alone = 0 /\ ready = FALSE /\ excused = FALSE
      /\ spent = [k \in {"requests", "faults", "reloads"} |-> 0]
  BY DEF Init, Absent
<1>5. TypeOK
  <2>1. spent \in [{"requests", "faults", "reloads"} -> Nat]
    BY <1>4
  <2>2. worker \in [state : {"none", "touched", "waiting", "reading", "stalled"},
                    timer : 0 .. WriterTimeout, fifo : Nat]
    BY <1>3, TimeoutAssumption
  <2>3. overlay \in [phase : {"none", "warming", "opening", "writing", "idle", "crashed"},
                     timer : 0 .. IdleTimeout, quiet : 0 .. IdleTimeout + 1,
                     served : BOOLEAN, fifo : Nat]
    BY <1>2, TimeoutAssumption
  <2> QED BY <1>1, <1>4, <2>1, <2>2, <2>3 DEF TypeOK
<1>6. Numbered /\ Parent /\ Phases /\ Asked /\ InTime
  BY <1>1, <1>2, <1>3, <1>4 DEF Numbered, Parent, Phases, Asked, InTime, Pending
<1> QED BY <1>5, <1>6 DEF IInv

LEMMA NextIInv ==
    ASSUME IInv, [Next]_vars PROVE IInv'
<1>1. CASE Next
  <2>1. CASE Supervisor
    BY <2>1, StartUpStep, ReapStep, ObserveStep, SpawnStep, SleepStep DEF Supervisor
  <2>2. CASE Process
    BY <2>2, WarmedStep, OpenStep, IdleOutStep, WriteFrameStep, BrokenPipeStep DEF Process
  <2>3. CASE Worker
    BY <2>3, TouchStep, OpenReaderStep, GiveUpStep, StallStep, ItemEndsStep DEF Worker
  <2> QED BY <1>1, <2>1, <2>2, <2>3, ShutDownStep, CrashStep, TickStep DEF Next
<1>2. CASE UNCHANGED vars
  <2>1. UNCHANGED <<wanted, ready, fifo, made, sup, overlay, worker, alone, excused, spent>>
    BY <1>2 DEF vars
  <2>2. TypeOK' /\ Numbered' /\ Parent' /\ Phases'
    BY <2>1 DEF IInv, TypeOK, Numbered, Parent, Phases
  <2>3. Asked' /\ InTime'
    BY <2>1 DEF IInv, Asked, InTime, Pending, Need, ToPoll
  <2> QED BY <2>2, <2>3 DEF IInv
<1> QED BY <1>1, <1>2

LEMMA Invariance == Spec => []IInv
<1>1. Init => IInv
  BY InitIInv
<1>2. IInv /\ [Next]_vars => IInv'
  BY NextIInv
<1> QED BY <1>1, <1>2, PTL DEF Spec

-----------------------------------------------------------------------------
\* The supervisor, the overlay and the worker keep to their states, and no
\* deadline or count of theirs leaves its range.
THEOREM TypeCorrect == Spec => []TypeOK
<1>1. IInv => TypeOK
  BY DEF IInv
<1> QED BY <1>1, Invariance, PTL

\* A worker that asks for the overlay has it before OVERLAY_WRITER_TIMEOUT,
\* unless the overlay crashes or the station reloads, for any idle timeout, any
\* warm-up that leaves room for two polls, and any number of items.
THEOREM Served_InTime == Spec => []ServedInTime
<1>1. IInv => ServedInTime
  <2> SUFFICES ASSUME IInv, worker.state = "waiting", worker.timer = 0, ~excused PROVE FALSE
    BY DEF ServedInTime
  <2>1. Need >= 0
    BY TimeoutAssumption DEF IInv, TypeOK, Parent, Phases, Need, ToPoll
  <2>2. worker.timer > Need
    BY DEF IInv, InTime
  <2>3. Need \in Int
    BY TimeoutAssumption DEF IInv, TypeOK, Need, ToPoll
  <2> QED BY <2>1, <2>2, <2>3
<1> QED BY <1>1, Invariance, PTL

\* While a worker has asked and waits, the supervisor has a process running or
\* starts one at its next poll.
THEOREM Never_SleepsThrough == Spec => []NeverSleepsThrough
<1>1. IInv => NeverSleepsThrough
  BY DEF IInv, TypeOK, Asked, Pending, NeverSleepsThrough, WantsOverlay
<1> QED BY <1>1, Invariance, PTL

\* An overlay that has served exits over idleness only when its idle timeout has
\* passed without a reader.
THEOREM Quits_OnlyAlone == Spec => QuitsOnlyAlone
<1>1. IInv /\ [Next]_vars => [IdleOut /\ overlay.served => alone >= IdleTimeout]_vars
  BY TimeoutAssumption DEF IInv, TypeOK, Phases, IdleOut
<1> QED BY <1>1, Invariance, PTL DEF Spec, QuitsOnlyAlone

=============================================================================
