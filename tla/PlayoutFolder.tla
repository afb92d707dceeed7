--------------------------- MODULE PlayoutFolder ---------------------------
(***************************************************************************)
(* One channel's playout folder: the chunk files the daemon writes and     *)
(* ErsatzTV-next reads (ADR 0003).  Pure operators, no state.              *)
(*                                                                         *)
(* A file is [start, finish, items]: its name is the pair start, finish,   *)
(* and a folder is a set of files in which no two share that pair.  An     *)
(* item has at least a start and a finish, its airtime; what else it has   *)
(* is the channel's.  Items are laid in ascending order, so the last of a  *)
(* file is the one that finishes last and a set of items says as much as   *)
(* the list in the file does.  Time counts in units; the chunk grid is     *)
(* uniform (the daylight-saving days, on which one chunk is an hour        *)
(* shorter or longer, are abstracted away).                                *)
(***************************************************************************)
EXTENDS Integers, FiniteSets, FiniteSetsExt

CONSTANT ChunkLen       \* the length of a chunk, `chunk_hours`

ASSUME ChunkLenAssumption == ChunkLen \in Nat \ {0}

\* The chunk grid: the boundary at or before t, and the one after it.
ChunkStart(t) == (t \div ChunkLen) * ChunkLen
ChunkEnd(t)   == ChunkStart(t) + ChunkLen

Spans(items, t)    == \E i \in items : i.start <= t /\ t < i.finish
Finishes(items)    == {i.finish : i \in items}
ItemsOnDisk(files) == UNION {f.items : f \in files}
SameName(f, g)     == f.start = g.start /\ f.finish = g.finish

\* Writing a file replaces the one of the same name, in one rename.
Put(files, f) == {g \in files : ~SameName(f, g)} \cup {f}

-----------------------------------------------------------------------------
(* Emission *)

\* The items of a generation that a chunk pass over [from, to) writes: those
\* still running at `from` are written whole, and so are those running past `to`.
\* (ItemsRunningAt is the mutant that writes one item to a chunk.)
ItemsRunningAt(items, from, to) == {i \in items : i.start <= from /\ i.finish > from}
ItemsCovering(items, from, to) ==
    {i \in items : i.start < to /\ i.finish > from}

\* The span a chunk file claims: the whole chunk once its content reaches the
\* boundary, else up to the last item.  (WholeChunk is the mutant that always
\* claims the chunk.)
WholeChunk(chunk, items) == chunk + ChunkLen
NameFinish(chunk, items) ==
    LET content == Max({chunk} \cup Finishes(items))
    IN  IF content >= chunk + ChunkLen THEN chunk + ChunkLen ELSE content

\* What a chunk may already hold: the content of the first file the scan lists
\* for it.  Files with one start come in directory order, so any may be first.
ChunkContents(files, chunk) ==
    LET mine == {f \in files : f.start = chunk}
    IN  IF mine = {} THEN {{}} ELSE {f.items : f \in mine}

\* The chunk with both.  (ReplacedChunk is the mutant that forgets the first.)
ReplacedChunk(chunk, existing, new) ==
    [start |-> chunk, finish |-> NameFinish(chunk, new), items |-> new]
GrownChunk(chunk, existing, new) ==
    [start  |-> chunk,
     finish |-> NameFinish(chunk, new),
     items  |-> existing \cup new]

-----------------------------------------------------------------------------
(* Where the schedule on disk ends *)

\* The files a scan may list last.
LastFiles(files) == {f \in files : \A g \in files : g.start <= f.start}

\* Every file's name counts, but only the last file is opened for an item that
\* runs past its name.  `floor` stands for the empty folder and for max(floor).
HighestFinishes(files, floor) ==
    IF files = {} THEN {floor}
    ELSE {Max({floor} \cup {f.finish : f \in files} \cup Finishes(l.items)) :
            l \in LastFiles(files)}

-----------------------------------------------------------------------------
(* Coverage *)

\* The spans the coverage scan reads: the file name decides which files it
\* opens, the item which spans count.
ScannedItems(files, from, horizon) ==
    {i \in ItemsOnDisk({f \in files : f.finish > from /\ f.start < horizon}) :
        i.finish > from /\ i.start < horizon}

\* The instants of [from, horizon) that nothing covers although something later
\* airs, and the first of them.
Holes(files, from, horizon) ==
    LET seen == ScannedItems(files, from, horizon)
    IN  {t \in from .. horizon - 1 : ~Spans(seen, t) /\ \E i \in seen : i.start > t}

FirstCoverageGap(files, from, horizon) ==
    LET holes == Holes(files, from, horizon)
    IN  {t \in holes : \A u \in holes : t <= u}

-----------------------------------------------------------------------------
(* Wiping *)

\* The files a wipe at `cut` must shorten: their name reaches past it and so
\* does an item.
Overrunning(files, cut) ==
    {f \in files : /\ f.start < cut
                   /\ f.finish > cut
                   /\ \E i \in f.items : i.finish > cut}

Truncated(f, cut) ==
    LET kept == {i \in f.items : i.finish <= cut}
    IN  [start |-> f.start, finish |-> Max(Finishes(kept)), items |-> kept]

\* The instant from which it is safe to lay items anew, given a chunk boundary:
\* past the item that straddles it.  (FolderEnds is the mutant that looks past
\* the boundary too.)
FolderEnds(files, from) == HighestFinishes(files, from)
RegenFloors(files, from) ==
    LET before == {f \in files : f.start < from}
    IN  IF before = {} THEN {from}
        ELSE {Max({from} \cup Finishes(f.items)) : f \in LastFiles(before)}

\* The finish of the item on screen at t, else t.
AiringFinish(files, t) ==
    LET near == {f \in files : f.start <= t /\ f.finish >= t}
    IN  Max({t} \cup {i.finish : i \in {j \in ItemsOnDisk(near) : j.start <= t}})

\* The two ends of the window sweep.
Elapsed(files, cutoff)         == {f \in files : f.finish < cutoff}
Unreachable(files, unreachable) == {f \in files : f.start >= unreachable}

\* Two chunks past the one that holds the window's target.
UnreachableAfter(target) == ChunkStart(target) + 2 * ChunkLen

-----------------------------------------------------------------------------
(* ErsatzTV-next's lookup, the reader of the folder *)

\* Any file whose name brackets t may be picked, and the lookup stops there.
Candidates(files, t) == {f \in files : f.start <= t /\ t < f.finish}

\* Whichever file is picked, it holds an item for t.
Playable(files, t) ==
    /\ Candidates(files, t) # {}
    /\ \A f \in Candidates(files, t) : Spans(f.items, t)

=============================================================================
