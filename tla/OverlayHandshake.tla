-------------------------- MODULE OverlayHandshake --------------------------
(***************************************************************************)
(* The overlay of one channel: the supervisor of overlay_supervisor.rs,    *)
(* the etv-overlay process it starts (its frame loop and fifo_writer.rs),  *)
(* and the ErsatzTV-next worker that reads the frames for each item it     *)
(* plays.  They meet through a fifo and two marker files.                  *)
(*                                                                         *)
(* Time passes in units of the supervisor's poll interval: Tick ends a     *)
(* unit once everything that is due in it has been done.  The time stamp   *)
(* of the wanted marker is the number of the request that touched it.      *)
(***************************************************************************)
EXTENDS Integers

CONSTANTS
    IdleTimeout,    \* IDLE_TIMEOUT of etv-overlay,
    WarmUp,         \* how long it takes to warm its renderer at most,
    WriterTimeout,  \* OVERLAY_WRITER_TIMEOUT of the worker
    MaxRequests,    \* bounds: items the worker plays,
    MaxFaults,      \* crashes of the overlay and failed spawns,
    MaxReloads      \* reloads of the station

\* A worker's patience covers the poll that reaps an overlay, the poll that
\* starts the next one, and its warm-up; so does the overlay's.
ASSUME TimeoutAssumption ==
    /\ WarmUp \in Nat \ {0} /\ {IdleTimeout, WriterTimeout} \subseteq Nat
    /\ WriterTimeout > 2 + WarmUp
    /\ IdleTimeout > WarmUp + 1
ASSUME BoundAssumption == {MaxRequests, MaxFaults, MaxReloads} \subseteq Nat

VARIABLES
    wanted,    \* .overlay-wanted: the request that touched it last, or Absent
    ready,     \* whether .overlay-ready is there
    fifo,      \* the fifo at the path: the how-manieth one made, or Absent
    made,      \* how many have been made
    sup,       \* the supervisor
    overlay,   \* the overlay process
    worker,    \* the worker's reader
    alone,     \* how long the overlay has been without a reader
    excused,   \* a crash or a reload came between the worker's request and now
    spent      \* how often the environment has acted

vars == <<wanted, ready, fifo, made, sup, overlay, worker, alone, excused, spent>>

Absent == 0

May(k)   == spent[k] < (CASE k = "requests" -> MaxRequests
                          [] k = "faults"   -> MaxFaults
                          [] k = "reloads"  -> MaxReloads)
Spend(k) == spent' = [spent EXCEPT ![k] = @ + 1]

NoOverlay == [phase |-> "none", timer |-> 0, quiet |-> 0, served |-> FALSE, fifo |-> Absent]
NoReader  == [state |-> "none", timer |-> 0, fifo |-> Absent]
Gone      == [up |-> FALSE, polled |-> FALSE, child |-> FALSE, readyObserved |-> FALSE,
              cold |-> Absent, served |-> Absent]

Init ==
    /\ wanted = Absent /\ ready = FALSE /\ fifo = Absent /\ made = 0
    /\ sup = Gone /\ overlay = NoOverlay /\ worker = NoReader
    /\ alone = 0 /\ excused = FALSE
    /\ spent = [k \in {"requests", "faults", "reloads"} |-> 0]

\* Whether the worker has its end of a pipe open.
HasReader(pipe) == worker.state \in {"waiting", "reading", "stalled"} /\ worker.fifo = pipe

MakeFifo   == made' = made + 1 /\ fifo' = made + 1
EnsureFifo == IF fifo = Absent THEN MakeFifo ELSE UNCHANGED <<fifo, made>>

-----------------------------------------------------------------------------
(* The supervisor *)

\* run, up to its loop: the fifo is made, the markers of a prior run go.
StartUp ==
    /\ ~sup.up
    /\ sup' = [Gone EXCEPT !.up = TRUE]
    /\ EnsureFifo
    /\ wanted' = Absent /\ ready' = FALSE
    /\ excused' = TRUE
    /\ UNCHANGED <<overlay, worker, alone, spent>>

\* The shutdown arm, when the station reloads or stops.
ShutDown ==
    /\ sup.up
    /\ May("reloads") /\ Spend("reloads")
    /\ sup' = Gone /\ overlay' = NoOverlay
    /\ fifo' = Absent /\ wanted' = Absent /\ ready' = FALSE
    /\ excused' = TRUE
    /\ UNCHANGED <<made, worker, alone>>

\* A request that has not been served to a cold exit yet.
WantsOverlay == wanted # Absent /\ (sup.cold = Absent \/ wanted > sup.cold)

\* The request a retired overlay has served: the one it was started for.
\* (AtReaping is the mutant that takes the marker as it stands at the reaping,
\* NeverCold the one that retires no overlay.)
AtReaping == wanted
NeverCold == Absent
Served    == sup.served

\* A poll that finds the overlay gone.  A clean exit without a reader ever
\* makes the channel cold.
Reap ==
    /\ sup.up /\ ~sup.polled /\ sup.child
    /\ overlay.phase \in {"idle", "crashed"}
    /\ LET hadReader == sup.readyObserved \/ ready
           retire    == overlay.phase = "idle" /\ ~hadReader
       IN  sup' = [sup EXCEPT !.polled = TRUE, !.child = FALSE, !.readyObserved = FALSE,
                              !.cold = IF retire THEN Served ELSE @]
    /\ ready' = FALSE
    /\ overlay' = NoOverlay
    /\ UNCHANGED <<wanted, fifo, made, worker, alone, excused, spent>>

\* A poll that finds it running.
Observe ==
    /\ sup.up /\ ~sup.polled /\ sup.child
    /\ overlay.phase \notin {"idle", "crashed"}
    /\ sup' = [sup EXCEPT !.polled = TRUE, !.readyObserved = @ \/ ready]
    /\ UNCHANGED <<wanted, ready, fifo, made, overlay, worker, alone, excused, spent>>

\* A poll that starts one, or fails to.
Spawn ==
    /\ sup.up /\ ~sup.polled /\ ~sup.child /\ WantsOverlay
    /\ EnsureFifo /\ ready' = FALSE
    /\ \/ /\ sup' = [sup EXCEPT !.polled = TRUE, !.child = TRUE, !.readyObserved = FALSE,
                                !.cold = Absent, !.served = wanted]
          /\ overlay' = [NoOverlay EXCEPT !.phase = "warming", !.timer = IdleTimeout]
          /\ UNCHANGED <<excused, spent>>
       \/ /\ May("faults") /\ Spend("faults")
          /\ sup' = [sup EXCEPT !.polled = TRUE]
          /\ excused' = TRUE
          /\ UNCHANGED overlay
    /\ UNCHANGED <<wanted, worker, alone>>

Sleep ==
    /\ sup.up /\ ~sup.polled /\ ~sup.child /\ ~WantsOverlay
    /\ sup' = [sup EXCEPT !.polled = TRUE]
    /\ UNCHANGED <<wanted, ready, fifo, made, overlay, worker, alone, excused, spent>>

-----------------------------------------------------------------------------
(* The overlay process *)

Warmed ==
    /\ overlay.phase = "warming"
    /\ overlay' = [overlay EXCEPT !.phase = "opening"]
    /\ UNCHANGED <<wanted, ready, fifo, made, sup, worker, alone, excused, spent>>

\* open_for_writing opens what is at the path now, and succeeds once that has
\* a reader.  The deadline is looked at before every try.
Open ==
    /\ overlay.phase = "opening" /\ overlay.timer > 0 /\ HasReader(fifo)
    /\ overlay' = [overlay EXCEPT !.phase = "writing", !.fifo = fifo]
    /\ UNCHANGED <<wanted, ready, fifo, made, sup, worker, alone, excused, spent>>

IdleOut ==
    /\ overlay.phase = "opening" /\ overlay.timer = 0
    /\ overlay' = [overlay EXCEPT !.phase = "idle"]
    /\ UNCHANGED <<wanted, ready, fifo, made, sup, worker, alone, excused, spent>>

\* A frame gets through; the first one makes the ready file and ends the
\* worker's wait.
WriteFrame ==
    /\ overlay.phase = "writing" /\ HasReader(overlay.fifo) /\ worker.state # "stalled"
    /\ overlay' = [overlay EXCEPT !.quiet = 0, !.served = TRUE]
    /\ ready' = TRUE
    /\ worker' = [worker EXCEPT !.state = "reading", !.timer = 0]
    /\ UNCHANGED <<wanted, fifo, made, sup, alone, excused, spent>>

\* How long a new reader is waited for: from this disconnect on.
\* (SinceLastWrite is the mutant that counts from the last frame written.)
SinceLastWrite == IdleTimeout - overlay.quiet
ReopenTimeout  == IdleTimeout

BrokenPipe ==
    /\ overlay.phase = "writing" /\ ~HasReader(overlay.fifo)
    /\ overlay' = [overlay EXCEPT !.phase = "opening", !.timer = ReopenTimeout, !.fifo = Absent]
    /\ UNCHANGED <<wanted, ready, fifo, made, sup, worker, alone, excused, spent>>

Crash ==
    /\ overlay.phase \in {"warming", "opening", "writing"}
    /\ May("faults") /\ Spend("faults")
    /\ overlay' = [overlay EXCEPT !.phase = "crashed"]
    /\ excused' = TRUE
    /\ UNCHANGED <<wanted, ready, fifo, made, sup, worker, alone>>

-----------------------------------------------------------------------------
(* The worker, once per item *)

Touch ==
    /\ worker.state = "none"
    /\ May("requests") /\ Spend("requests")
    /\ wanted' = spent["requests"] + 1
    /\ worker' = [NoReader EXCEPT !.state = "touched"]
    /\ excused' = ~sup.up
    /\ UNCHANGED <<ready, fifo, made, sup, overlay, alone>>

\* open_overlay_fifo: every item reads from a pipe of its own, renamed over
\* the one at the path, so that it begins with a whole frame.  It may fail,
\* and the item then plays bare.
OpenReader ==
    /\ worker.state = "touched"
    /\ \/ /\ MakeFifo
          /\ worker' = [state |-> "waiting", timer |-> WriterTimeout, fifo |-> made + 1]
          /\ UNCHANGED spent
       \/ /\ May("faults") /\ Spend("faults")
          /\ worker' = NoReader
          /\ UNCHANGED <<fifo, made>>
    /\ UNCHANGED <<wanted, ready, sup, overlay, alone, excused>>

GiveUp ==
    /\ worker.state = "waiting" /\ worker.timer = 0
    /\ worker' = NoReader
    /\ UNCHANGED <<wanted, ready, fifo, made, sup, overlay, alone, excused, spent>>

\* ffmpeg may wedge with the fifo open, and ends with the item.
Stall ==
    /\ worker.state \in {"reading", "stalled"}
    /\ \E state \in {"reading", "stalled"} : worker' = [worker EXCEPT !.state = state]
    /\ UNCHANGED <<wanted, ready, fifo, made, sup, overlay, alone, excused, spent>>

ItemEnds ==
    /\ worker.state \in {"reading", "stalled"}
    /\ worker' = NoReader
    /\ UNCHANGED <<wanted, ready, fifo, made, sup, overlay, alone, excused, spent>>

-----------------------------------------------------------------------------

\* What is due in a unit: the poll, an open, a first frame, a broken pipe, an
\* expired deadline.
Due ==
    \/ sup.up /\ ~sup.polled
    \/ overlay.phase = "warming" /\ overlay.timer = IdleTimeout - WarmUp
    \/ overlay.phase = "opening" /\ (HasReader(fifo) \/ overlay.timer = 0)
    \/ overlay.phase = "writing" /\ (~HasReader(overlay.fifo) \/ worker.state = "waiting")
    \/ worker.state = "touched"
    \/ worker.state = "waiting" /\ worker.timer = 0

CountDown(n) == IF n = 0 THEN 0 ELSE n - 1
CountUp(n)   == IF n > IdleTimeout THEN n ELSE n + 1

Tick ==
    /\ ~Due
    /\ sup' = [sup EXCEPT !.polled = FALSE]
    /\ overlay' = [overlay EXCEPT !.timer = IF overlay.phase \in {"warming", "opening"}
                                            THEN CountDown(@) ELSE 0,
                                  !.quiet = IF worker.state = "stalled" THEN CountUp(@) ELSE @]
    /\ worker' = [worker EXCEPT !.timer = CountDown(@)]
    /\ alone' = IF HasReader(overlay.fifo) THEN 0 ELSE CountUp(alone)
    /\ UNCHANGED <<wanted, ready, fifo, made, excused, spent>>

Supervisor == StartUp \/ Reap \/ Observe \/ Spawn \/ Sleep
Process    == Warmed \/ Open \/ IdleOut \/ WriteFrame \/ BrokenPipe
Worker     == Touch \/ OpenReader \/ GiveUp \/ Stall \/ ItemEnds

Next == Supervisor \/ Process \/ Worker \/ ShutDown \/ Crash \/ Tick

Spec == Init /\ [][Next]_vars

\* Everybody is scheduled, deadlines expire, an item comes to its end.
FairSpec ==
    /\ Spec
    /\ WF_vars(Supervisor) /\ WF_vars(Warmed) /\ WF_vars(Open) /\ WF_vars(IdleOut)
    /\ WF_vars(WriteFrame) /\ WF_vars(BrokenPipe)
    /\ WF_vars(OpenReader) /\ WF_vars(GiveUp) /\ WF_vars(ItemEnds)
    /\ WF_vars(Tick)

-----------------------------------------------------------------------------
(* Properties *)

TypeOK ==
    /\ wanted \in Nat /\ fifo \in Nat /\ made \in Nat /\ alone \in Nat
    /\ ready \in BOOLEAN /\ excused \in BOOLEAN
    /\ sup \in [up : BOOLEAN, polled : BOOLEAN, child : BOOLEAN, readyObserved : BOOLEAN,
                cold : Nat, served : Nat]
    /\ overlay \in [phase : {"none", "warming", "opening", "writing", "idle", "crashed"},
                    timer : 0 .. IdleTimeout, quiet : 0 .. IdleTimeout + 1,
                    served : BOOLEAN, fifo : Nat]
    /\ worker \in [state : {"none", "touched", "waiting", "reading", "stalled"},
                   timer : 0 .. WriterTimeout, fifo : Nat]
    /\ spent \in [{"requests", "faults", "reloads"} -> Nat]

\* A worker that asks for the overlay gets it before its patience ends, at
\* whatever moment of the overlay's life it asks, unless the overlay crashes or
\* the station reloads meanwhile.  (The failure of 2026-08-16 that the comment
\* on `served_mtime` tells of.)
ServedInTime == worker.state = "waiting" /\ worker.timer = 0 => excused

\* The supervisor never sleeps through a worker that has asked and still waits.
NeverSleepsThrough ==
    sup.up /\ ~sup.child /\ worker.state \in {"touched", "waiting"} => WantsOverlay \/ excused

\* An overlay that has served a reader only exits once none has been there for
\* all of the idle timeout, however long the last one sat on a full pipe.
QuitsOnlyAlone == [][IdleOut /\ overlay.served => alone >= IdleTimeout]_vars

\* When nobody asks any more the process goes away, and stays away.
WindsDown == <>[](worker.state = "none") => <>[](overlay.phase = "none")

=============================================================================
