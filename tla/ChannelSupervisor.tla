------------------------- MODULE ChannelSupervisor -------------------------
(***************************************************************************)
(* What runs around a channel's loop (`supervise` of daemon.rs and         *)
(* channel_card.rs): it takes the error cards out of the future, runs the  *)
(* loop, and when the loop keeps failing covers the rest of the window     *)
(* with cards and tries again later.  Beside it the reconciliation sweep   *)
(* (reconcile.rs) reads a playout file, asks the catalog about its items   *)
(* and writes the file back by name, while the loop goes on.               *)
(*                                                                         *)
(* A card is an item that plays no title of the list.  Cards are written   *)
(* by the writer of the loop, so `gen` holds them on their way.            *)
(***************************************************************************)
EXTENDS ChannelLoop, TLC

CONSTANTS
    CardLen,            \* CARD_SEGMENT
    FailuresBeforeCard, \* CHANNEL_FAILURES_BEFORE_CARD
    BackoffStart,       \* CHANNEL_RESTART_BACKOFF_START
    MaxSweeps           \* the bound on files a sweep may rewrite

ASSUME SupervisorAssumption ==
    /\ {CardLen, FailuresBeforeCard, BackoffStart} \subseteq Nat \ {0}
    /\ MaxSweeps \in Nat

VARIABLES
    sup,        \* the supervisor: its stage and what the stage works on
    sweeper     \* the file a sweep has read and not yet written, and how many it read

supervised == <<vars, sup, sweeper>>

IsCard(i) == i.pos = ListLen
Cards     == {i \in Items : IsCard(i)}
Programme == Items \ Cards

\* One attempt of the supervisor starts by clearing the cards.  `damage`: what failures have left on
\* the disk so far, for the properties only.
Attempt(failures, backoff, damage) ==
    [damage |-> damage, stage |-> "scan", failures |-> failures, backoff |-> backoff, wake |-> 0,
     at |-> 0, todo |-> {}, doomed |-> {}, cleared |-> TRUE, covered |-> 0]

NoRead == [file |-> {}, items |-> {}]

SInit ==
    /\ Init
    /\ sup = Attempt(0, BackoffStart, {})
    /\ sweeper = [read |-> NoRead, sweeps |-> 0]

-----------------------------------------------------------------------------
(* wipe_cards_from *)

ScanCards ==
    /\ sup.stage = "scan"
    /\ sup' = [sup EXCEPT !.stage = "clear", !.at = now, !.todo = {f \in files : f.finish > now}]
    /\ UNCHANGED <<vars, sweeper>>

\* (KeptFromHere is the mutant that leaves a card alone that starts right now.)
KeptFromHere(f) == {i \in f.items : ~(IsCard(i) /\ i.start > sup.at)}
Kept(f)         == {i \in f.items : ~(IsCard(i) /\ i.start >= sup.at)}

\* A file that loses its cards goes, or is written under the name of what is left.
ClearFile ==
    /\ sup.stage = "clear" /\ sup.doomed = {}
    /\ \E f \in sup.todo :
         /\ \A g \in sup.todo : f.start <= g.start
         /\ LET kept   == Kept(f)
                left   == [start |-> f.start, finish |-> Max(Finishes(kept)), items |-> kept]
                rest   == sup.todo \ {f}
            IN  CASE kept = f.items -> sup' = [sup EXCEPT !.todo = rest] /\ UNCHANGED files
                  [] kept = {} /\ f.items # {} ->
                       sup' = [sup EXCEPT !.todo = rest] /\ files' = files \ {f}
                  [] OTHER ->
                       /\ files' = Put(files, left)
                       /\ sup' = [sup EXCEPT !.todo = rest,
                                             !.doomed = IF SameName(f, left) THEN {} ELSE {f}]
    /\ UNCHANGED <<world, sidecar, history, memory, pc, sweeper>>

\* The file the rewriting replaces goes, if it can be removed.
RemoveCleared ==
    /\ sup.stage = "clear" /\ sup.doomed # {}
    /\ \E stuck \in SUBSET sup.doomed :
         /\ files' = files \ (sup.doomed \ stuck)
         /\ IF stuck = {} THEN UNCHANGED spent ELSE May("faults") /\ Spend("faults")
         /\ sup' = [sup EXCEPT !.doomed = {}, !.cleared = @ /\ stuck = {},
                                !.damage = IF stuck = {} THEN @ ELSE @ \cup {"leftover", "uncleared"}]
    /\ UNCHANGED <<now, config, lost, marker, sidecar, history, memory, pc, sweeper>>

\* Clearing fails half-way and the loop is run all the same.
ClearFails ==
    /\ sup.stage = "clear" /\ sup.todo # {} /\ sup.doomed = {}
    /\ May("faults") /\ Spend("faults")
    /\ sup' = [sup EXCEPT !.todo = {}, !.cleared = FALSE, !.damage = @ \cup {"uncleared"}]
    /\ UNCHANGED <<now, config, lost, marker, disk, memory, pc, sweeper>>

-----------------------------------------------------------------------------
(* The loop under the supervisor *)

\* (LaunchEarly is the mutant that runs the loop with files still to clear.)
LaunchEarly ==
    /\ sup.stage = "clear" /\ sup.doomed = {}
    /\ Start
    /\ sup' = [sup EXCEPT !.stage = "run"]
    /\ UNCHANGED sweeper
Launch ==
    /\ sup.stage = "clear" /\ sup.todo = {} /\ sup.doomed = {}
    /\ Start
    /\ sup' = [sup EXCEPT !.stage = "run"]
    /\ UNCHANGED sweeper

\* What a failing step leaves: a chunk's predecessor that could not be removed; or, in the middle of
\* a wipe, a generation or a roll tick that has laid one, a schedule that the map of the loop or the
\* sidecar does not tell of.
Faulted == spent'["faults"] # spent["faults"]
Damage  ==
    CASE ~Faulted -> {}
      [] Faulted /\ pc \in {"tidy", "unlink"} -> {"leftover", "torn"}
      [] Faulted /\ (pc \in WipeSteps \cup WriteSteps \/ (pass.phase = "roll" /\ pass.generations > 0)) -> {"torn"}
      [] OTHER -> {}

\* Whatever the loop does short of ending.
Runs ==
    /\ sup.stage = "run"
    /\ Task \/ (Fail /\ pc' # "down")
    /\ sup' = [sup EXCEPT !.damage = @ \cup Damage]
    /\ UNCHANGED sweeper

\* The loop ends with an error: it is tried again, after cards if it keeps failing.
LoopFails ==
    /\ sup.stage = "run"
    /\ Fail /\ pc' = "down"
    /\ sup' = [sup EXCEPT !.failures = @ + 1, !.at = now, !.damage = @ \cup Damage,
                          !.stage = IF sup.failures + 1 >= FailuresBeforeCard THEN "cover" ELSE "rest"]
    /\ UNCHANGED sweeper

-----------------------------------------------------------------------------
(* cover_after_written *)

\* (CoverFromNow is the mutant that lays cards over what is written.)
CoverFromNow == {now}
CoverFrom    == HighestFinishes(files, now)

\* (CardsWithin is the mutant that lays no card across the end of the window.)
CardsWithin(from, target) ==
    {[start |-> from + (k - 1) * CardLen, finish |-> from + k * CardLen,
      pos |-> ListLen, config |-> NoConfig, edition |-> 0] : k \in 1 .. Max({1, (target - from) \div CardLen})}
CardsFrom(from, target) ==
    LET count == (target - from + CardLen - 1) \div CardLen
    IN  {[start |-> from + (k - 1) * CardLen, finish |-> from + k * CardLen,
          pos |-> ListLen, config |-> NoConfig, edition |-> 0] : k \in 1 .. count}

\* A card after the last written item, and so on to the end of the window.
Cover ==
    /\ sup.stage = "cover" /\ pc = "down"
    /\ \E from \in CoverFrom :
         LET cards == CardsFrom(from, now + Window)
         IN  IF from >= now + Window
             THEN /\ sup' = [sup EXCEPT !.stage = "rest", !.covered = now + Window]
                  /\ UNCHANGED <<gen, pc>>
             ELSE /\ gen' = [NoGen EXCEPT !.items = cards, !.cursor = from, !.to = Max(Finishes(cards))]
                  /\ pc' = "write"
                  /\ sup' = [sup EXCEPT !.at = now]
    /\ UNCHANGED <<world, disk, resume, work, seen, pass, wipe, tickAt, sweeper>>

\* The writer of the loop, chunk by chunk.
CoverChunk ==
    /\ sup.stage = "cover"
    /\ WriteChunk \/ DropOthers
    /\ sup' = [sup EXCEPT !.damage = @ \cup Damage]
    /\ UNCHANGED sweeper

Covers == sup.stage = "cover" /\ pc = "record"
CoverEnds ==
    /\ Covers
    /\ pc' = "down" /\ gen' = NoGen
    /\ sup' = [sup EXCEPT !.stage = "rest", !.covered = sup.at + Window]
    /\ UNCHANGED <<world, disk, resume, work, seen, pass, wipe, tickAt, sweeper>>

CoverFails ==
    /\ sup.stage = "cover" /\ pc \in {"down", "write"}
    /\ May("faults") /\ Spend("faults")
    /\ pc' = "down" /\ gen' = NoGen
    /\ sup' = [sup EXCEPT !.stage = "rest", !.damage = @ \cup Damage]
    /\ UNCHANGED <<now, config, lost, marker, disk, resume, work, seen, pass, wipe, tickAt, sweeper>>

-----------------------------------------------------------------------------
(* Backing off, and going down *)

Rest ==
    /\ sup.stage = "rest"
    /\ sup' = [sup EXCEPT !.stage = "backoff", !.wake = now + sup.backoff]
    /\ UNCHANGED <<vars, sweeper>>

BackoffCap == Max({RollInterval, BackoffStart})
Retry ==
    /\ sup.stage = "backoff"
    /\ now >= sup.wake \/ now = MaxNow
    /\ sup' = Attempt(sup.failures, Min({2 * sup.backoff, BackoffCap}), sup.damage)
    /\ UNCHANGED <<vars, sweeper>>

\* A stop is taken between two passes or while backing off, a crash anywhere.
Stop ==
    /\ sup.stage \in {"run", "backoff"}
    /\ GoDown \/ (pc = "down" /\ May("outages") /\ Spend("outages")
                   /\ UNCHANGED <<now, config, lost, marker, disk, memory, pc>>)
    /\ sup' = Attempt(0, BackoffStart, sup.damage)
    /\ sweeper' = [sweeper EXCEPT !.read = NoRead]

-----------------------------------------------------------------------------
(* The sweep *)

\* An item whose title is gone becomes an error card in its place; it keeps its id and its times.
Reconciled(i) == IF i.finish > now /\ Unplayable(i) THEN [carded |-> TRUE] @@ i ELSE i

SweepReads ==
    /\ sweeper.sweeps < MaxSweeps /\ sweeper.read = NoRead
    /\ \E f \in files :
         LET items == {Reconciled(i) : i \in f.items}
         IN  /\ f.finish > now /\ items # f.items
             /\ sweeper' = [read |-> [file |-> {f}, items |-> items], sweeps |-> sweeper.sweeps + 1]
    /\ UNCHANGED <<vars, sup>>

SweepWrites ==
    /\ \E f \in sweeper.read.file :
         files' = Put(files, [start |-> f.start, finish |-> f.finish, items |-> sweeper.read.items])
    /\ sweeper' = [sweeper EXCEPT !.read = NoRead]
    /\ UNCHANGED <<world, sidecar, history, memory, pc, sup>>

-----------------------------------------------------------------------------

\* Passes and attempts are due on time and take no time.
SClock ==
    /\ now < MaxNow
    /\ (sup.stage = "run" /\ pc = "idle" /\ now < tickAt) \/ (sup.stage = "backoff" /\ now < sup.wake)
    /\ now' = now + 1
    /\ UNCHANGED <<config, lost, marker, spent, disk, memory, pc, sup, sweeper>>

SLoseTitle == LoseTitle /\ UNCHANGED <<sup, sweeper>>
SRequest   == RequestRefresh /\ UNCHANGED <<sup, sweeper>>

Supervision ==
    \/ ScanCards \/ ClearFile \/ RemoveCleared \/ Launch
    \/ Cover \/ CoverChunk \/ CoverEnds
    \/ Rest \/ Retry

SNext ==
    \/ Supervision \/ Runs
    \/ ClearFails \/ LoopFails \/ CoverFails \/ Stop
    \/ SClock \/ SLoseTitle

SSpec == SInit /\ [][SNext]_supervised

\* The runtime polls the supervisor and its loop, and time passes.
SFairSpec == SSpec /\ WF_supervised(Supervision \/ Runs) /\ WF_supervised(SClock)

\* With the sweep and forced refreshes beside it.
SweptSpec == SInit /\ [][SNext \/ SweepReads \/ SweepWrites \/ SRequest]_supervised

-----------------------------------------------------------------------------
(* Properties *)

\* The supervisor's own state, and whose turn it is: the loop and the supervisor never write at once,
\* and the loop starts when the supervisor is done with the folder.
SupervisorOK ==
    /\ sup.stage \in {"scan", "clear", "run", "cover", "rest", "backoff"}
    /\ sup.stage \in {"scan", "clear", "rest", "backoff"} => pc = "down"
    /\ sup.stage = "cover" => pc \in {"down", "write", "tidy", "record"}
    /\ sup.failures \in Nat /\ sup.backoff \in 1 .. BackoffCap
    /\ sup.stage # "clear" => sup.todo = {} /\ sup.doomed = {}

\* Cards come after everything real and never over it, whatever the loop lays once it is back,
\* but for the chunks that are on disk under two names.
CardsOverNothing ==
    "leftover" \notin sup.damage => \A c \in Cards : \A i \in Programme : i.finish <= c.start \/ c.finish <= i.start

\* A channel that has come back replaces its cards: none is left to come, if clearing them did not fail.
NoCardAhead == Resting /\ sup.cleared => \A c \in Cards : c.start < pass.at

\* Cards stand after what is real, and only as long as the channel is away (channel_card.rs:14).
CardsInTheirPlace == CardsOverNothing /\ NoCardAhead

\* The list goes on behind the cards where it stopped before them: nothing is skipped and nothing is
\* repeated for the time the loop was broken, unless it broke in the middle of a generation.
ListGoesOn ==
    sup.damage = {} => \A i, j \in Programme :
        /\ i.finish <= j.start
        /\ \A t \in i.finish .. j.start - 1 : Spans(Cards, t)
        => j.pos = Title(i.pos + 1)

\* A channel whose loop keeps failing is not dark: while it waits, what is written and the cards reach a
\* window ahead of the last attempt, unless a write of them was cut short (channel_card.rs:8).
CardedToTheEnd ==
    sup.stage = "backoff" /\ sup.covered > now /\ sup.damage = {} =>
        \A t \in now .. sup.covered - 1 : Playable(files, t)

\* The sweep leaves the timeline as it was (reconcile.rs:42): between two passes, no two programmes are
\* on the disk for the same time.
SweptTimeline ==
    Resting => \A i, j \in Items :
        \/ i.finish <= j.start \/ j.finish <= i.start
        \/ i.start = j.start /\ i.pos = j.pos /\ i.edition = j.edition

=============================================================================
