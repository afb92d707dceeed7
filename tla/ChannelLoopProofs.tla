------------------------- MODULE ChannelLoopProofs -------------------------
(***************************************************************************)
(* What the operators of PlayoutFolder return for every folder, and what   *)
(* holds of a channel's emission loop for every chunk length, window, list *)
(* of titles and clock, however often it crashes or fails.                 *)
(***************************************************************************)
EXTENDS ChannelLoop, FiniteSetTheorems, WellFoundedInduction, TLAPS

-----------------------------------------------------------------------------
(* Finite sets *)

\* A finite set that is not empty has a member with the fewest members above it:
\* a greatest one.  Max of the folder's finish times is well defined.
LEMMA MaxExists ==
    ASSUME NEW S \in SUBSET Int, IsFiniteSet(S), S # {}
    PROVE  /\ Max(S) \in S
           /\ \A x \in S : Max(S) >= x
<1> DEFINE Above(x) == {y \in S : y > x}
           Family   == {Above(x) : x \in S}
<1>1. Family \subseteq FiniteSubsetsOf(S) /\ Family # {}
  <2>1. ASSUME NEW x \in S PROVE Above(x) \in FiniteSubsetsOf(S)
    <3>1. Above(x) \in SUBSET S
      OBVIOUS
    <3>2. IsFiniteSet(Above(x))
      BY <3>1, FS_Subset
    <3> QED BY <3>1, <3>2 DEF FiniteSubsetsOf
  <2> QED BY <2>1
<1>2. PICK A \in Family : \A B \in Family : ~ (<<B, A>> \in StrictSubsetOrdering(S))
  <2> HIDE DEF Family
  <2>1. IsWellFoundedOn(StrictSubsetOrdering(S), FiniteSubsetsOf(S))
    BY FS_StrictSubsetOrderingWellFounded
  <2> QED BY <1>1, <2>1, WFMin
<1>3. PICK top \in S : A = Above(top)
  BY <1>2
<1>4. \A y \in S : top >= y
  <2> SUFFICES ASSUME NEW y \in S, y > top PROVE FALSE
    BY SMT
  <2>1. Above(y) \subseteq Above(top)
    <3> SUFFICES ASSUME NEW z \in S, z > y PROVE z > top
      OBVIOUS
    <3> QED BY SMT
  <2>2. y \in Above(top) /\ ~ (y \in Above(y))
    BY SMT
  <2>3. Above(y) \in SUBSET S /\ Above(top) \in SUBSET S /\ Above(y) # Above(top)
    BY <2>2
  <2>4. <<Above(y), Above(top)>> \in StrictSubsetOrdering(S)
    <3> HIDE DEF Above
    <3> QED BY <2>1, <2>3 DEF StrictSubsetOrdering
  <2>5. Above(y) \in Family
    OBVIOUS
  <2> QED BY <1>2, <1>3, <2>4, <2>5
<1> QED BY <1>4 DEF Max

\* A finite set of finite sets has a finite union.
LEMMA FiniteUnion ==
    ASSUME NEW F, IsFiniteSet(F), \A X \in F : IsFiniteSet(X)
    PROVE  IsFiniteSet(UNION F)
<1> DEFINE Bad == {G \in SUBSET F : ~ IsFiniteSet(UNION G)}
<1> SUFFICES ASSUME Bad # {} PROVE FALSE
  OBVIOUS
<1>1. Bad \subseteq FiniteSubsetsOf(F)
  BY FS_Subset DEF FiniteSubsetsOf
<1>2. PICK G \in Bad : \A H \in Bad : ~ (<<H, G>> \in StrictSubsetOrdering(F))
  <2> HIDE DEF Bad
  <2>1. IsWellFoundedOn(StrictSubsetOrdering(F), FiniteSubsetsOf(F))
    BY FS_StrictSubsetOrderingWellFounded
  <2> QED BY <1>1, <2>1, WFMin
<1>3. PICK X : X \in G
  <2>1. UNION {} = {}
    OBVIOUS
  <2>2. IsFiniteSet(UNION {})
    BY <2>1, FS_EmptySet
  <2> QED BY <1>2, <2>2
<1> DEFINE Rest == G \ {X}
<1>4. IsFiniteSet(UNION Rest)
  <2>1. Rest \in SUBSET F /\ Rest \subseteq G /\ Rest # G /\ G \in SUBSET F
    BY <1>2, <1>3
  <2>2. <<Rest, G>> \in StrictSubsetOrdering(F)
    BY <2>1 DEF StrictSubsetOrdering
  <2> QED BY <1>2, <2>1, <2>2
<1>5. UNION G = (UNION Rest) \cup X
  BY <1>3
<1>6. IsFiniteSet(X) /\ ~ IsFiniteSet(UNION G)
  BY <1>2, <1>3
<1>7. IsFiniteSet((UNION Rest) \cup X)
  BY <1>4, <1>6, FS_Union
<1> QED BY <1>5, <1>6, <1>7

-----------------------------------------------------------------------------
(* The chunk grid *)

\* A chunk brackets every instant in it, and the next one starts where it ends.
LEMMA ChunkGrid ==
    ASSUME NEW t \in Int
    PROVE  /\ ChunkStart(t) \in Int /\ ChunkEnd(t) \in Int
           /\ ChunkStart(t) <= t /\ t < ChunkEnd(t)
           /\ ChunkStart(ChunkEnd(t)) = ChunkEnd(t)
<1> DEFINE k == t \div ChunkLen
<1>1. ChunkLen \in Nat /\ ChunkLen > 0
  BY ChunkLenAssumption
<1>2. k \in Int /\ t = ChunkLen * k + (t % ChunkLen) /\ (t % ChunkLen) \in 0 .. ChunkLen - 1
  BY <1>1
<1>3. ChunkStart(t) = k * ChunkLen /\ ChunkEnd(t) = k * ChunkLen + ChunkLen
  BY DEF ChunkStart, ChunkEnd
<1>4. k * ChunkLen \in Int /\ k * ChunkLen = ChunkLen * k
  BY <1>1, <1>2
<1>5. ChunkEnd(t) \div ChunkLen = k + 1
  BY <1>1, <1>2, <1>3
<1>6. ChunkStart(ChunkEnd(t)) = (k + 1) * ChunkLen
  BY <1>5 DEF ChunkStart
<1>7. (k + 1) * ChunkLen = k * ChunkLen + ChunkLen
  BY <1>1, <1>2
<1> HIDE DEF k
<1> QED BY <1>1, <1>2, <1>3, <1>4, <1>6, <1>7

-----------------------------------------------------------------------------
(* Folders *)

Timed(x)       == x.start \in Int /\ x.finish \in Int
TimedItems(S)  == IsFiniteSet(S) /\ \A i \in S : Timed(i)
TimedFolder(F) == IsFiniteSet(F) /\ \A f \in F : Timed(f) /\ TimedItems(f.items)

\* The finish times of finitely many items, with any instant, have a latest.
LEMMA LatestFinish ==
    ASSUME NEW S, TimedItems(S), NEW t \in Int
    PROVE  /\ Max({t} \cup Finishes(S)) \in Int
           /\ Max({t} \cup Finishes(S)) >= t
           /\ \A i \in S : Max({t} \cup Finishes(S)) >= i.finish
           /\ Max({t} \cup Finishes(S)) = t \/ \E i \in S : Max({t} \cup Finishes(S)) = i.finish
<1> DEFINE f == [i \in S |-> i.finish]
           T == {t} \cup Finishes(S)
<1>1. f \in Surjection(S, Finishes(S))
  BY DEF Surjection, Finishes
<1>2. IsFiniteSet(Finishes(S))
  BY <1>1, FS_Surjection DEF TimedItems
<1>3. IsFiniteSet(T)
  BY <1>2, FS_Singleton, FS_Union
<1>4. T \in SUBSET Int /\ T # {}
  BY DEF TimedItems, Timed, Finishes
<1>5. Max(T) \in T /\ \A x \in T : Max(T) >= x
  <2> HIDE DEF T
  <2> QED BY <1>3, <1>4, MaxExists
<1>6. Max(T) \in Int /\ Max(T) >= t
  BY <1>4, <1>5
<1>7. \A i \in S : i.finish \in T
  BY DEF Finishes
<1>8. Max(T) = t \/ \E i \in S : Max(T) = i.finish
  BY <1>5 DEF Finishes
<1> HIDE DEF T
<1>9. \A i \in S : Max(T) >= i.finish
  BY <1>5, <1>7
<1> QED BY <1>6, <1>8, <1>9 DEF T

\* Any part of the items of a folder is finite, and timed.
LEMMA SomeItems ==
    ASSUME NEW F, TimedFolder(F), NEW G \in SUBSET F, NEW S \in SUBSET ItemsOnDisk(G)
    PROVE  TimedItems(S)
<1> DEFINE Contents == {f.items : f \in G}
           g == [f \in G |-> f.items]
<1>1. IsFiniteSet(G)
  BY FS_Subset DEF TimedFolder
<1>2. g \in Surjection(G, Contents)
  BY DEF Surjection
<1>3. IsFiniteSet(Contents)
  <2> HIDE DEF g, Contents
  <2> QED BY <1>1, <1>2, FS_Surjection
<1>4. \A X \in Contents : IsFiniteSet(X)
  BY DEF TimedFolder, TimedItems
<1>5. IsFiniteSet(UNION Contents)
  <2> HIDE DEF Contents
  <2> QED BY <1>3, <1>4, FiniteUnion
<1>6. IsFiniteSet(S)
  BY <1>5, FS_Subset DEF ItemsOnDisk
<1>7. \A i \in S : Timed(i)
  BY DEF ItemsOnDisk, TimedFolder, TimedItems
<1> QED BY <1>6, <1>7 DEF TimedItems

-----------------------------------------------------------------------------
(* What a scan, a cut and a write give back *)

\* Where generation resumes is at or past now and past every file's name.
LEMMA ResumesPastNames ==
    ASSUME NEW F, TimedFolder(F), NEW floor \in Int, NEW h \in HighestFinishes(F, floor)
    PROVE  h \in Int /\ h >= floor /\ \A f \in F : h >= f.finish
<1>1. CASE F = {}
  BY <1>1 DEF HighestFinishes
<1>2. CASE F # {}
  <2>1. PICK l \in LastFiles(F) :
            h = Max({floor} \cup {f.finish : f \in F} \cup Finishes(l.items))
    BY <1>2 DEF HighestFinishes
  <2> DEFINE S == F \cup l.items
  <2>2. l \in F
    BY DEF LastFiles
  <2>3. TimedItems(S)
    BY <2>2, FS_Union DEF TimedFolder, TimedItems
  <2>4. Finishes(S) = {f.finish : f \in F} \cup Finishes(l.items)
    BY DEF Finishes
  <2>5. {floor} \cup {f.finish : f \in F} \cup Finishes(l.items) = {floor} \cup Finishes(S)
    BY <2>4
  <2>6. \A f \in F : f \in S
    OBVIOUS
  <2> HIDE DEF S
  <2> QED BY <2>1, <2>3, <2>5, <2>6, LatestFinish
<1> QED BY <1>1, <1>2

\* A heal lays items anew from the boundary or later.
LEMMA RegensFromBoundary ==
    ASSUME NEW F, TimedFolder(F), NEW from \in Int, NEW r \in RegenFloors(F, from)
    PROVE  r \in Int /\ r >= from
<1> DEFINE before == {f \in F : f.start < from}
<1>1. CASE before = {}
  BY <1>1 DEF RegenFloors
<1>2. CASE before # {}
  <2>1. PICK f \in LastFiles(before) : r = Max({from} \cup Finishes(f.items))
    BY <1>2 DEF RegenFloors
  <2>2. TimedItems(f.items)
    BY DEF LastFiles, TimedFolder
  <2> QED BY <2>1, <2>2, LatestFinish
<1> QED BY <1>1, <1>2

\* A cut after the item on screen is at or past now.
LEMMA CutsAfterAiring ==
    ASSUME NEW F, TimedFolder(F), NEW t \in Int
    PROVE  AiringFinish(F, t) \in Int /\ AiringFinish(F, t) >= t
<1> DEFINE near == {f \in F : f.start <= t /\ f.finish >= t}
           S    == {j \in ItemsOnDisk(near) : j.start <= t}
<1>1. near \in SUBSET F /\ S \in SUBSET ItemsOnDisk(near)
  OBVIOUS
<1>2. TimedItems(S)
  <2> HIDE DEF near, S
  <2> QED BY <1>1, SomeItems
<1>3. AiringFinish(F, t) = Max({t} \cup Finishes(S))
  BY DEF AiringFinish, Finishes
<1> HIDE DEF S
<1> QED BY <1>2, <1>3, LatestFinish

\* A chunk file is named inside its chunk, and never past its last item.
LEMMA NamedInChunk ==
    ASSUME NEW chunk \in Int, NEW S, TimedItems(S)
    PROVE  /\ NameFinish(chunk, S) \in Int
           /\ chunk <= NameFinish(chunk, S) /\ NameFinish(chunk, S) <= chunk + ChunkLen
           /\ NameFinish(chunk, S) > chunk => \E i \in S : NameFinish(chunk, S) <= i.finish
<1>1. ChunkLen \in Nat
  BY ChunkLenAssumption
<1>2. /\ Max({chunk} \cup Finishes(S)) \in Int
      /\ Max({chunk} \cup Finishes(S)) >= chunk
      /\ Max({chunk} \cup Finishes(S)) = chunk \/ \E i \in S : Max({chunk} \cup Finishes(S)) = i.finish
  BY LatestFinish
<1> QED BY <1>1, <1>2 DEF NameFinish, TimedItems, Timed

\* A shortened file keeps the items that finish by the cut, and is named after
\* the last of them.
LEMMA ShortensToCut ==
    ASSUME NEW f, Timed(f), TimedItems(f.items), NEW cut \in Int,
           \E i \in f.items : i.finish <= cut
    PROVE  LET g == Truncated(f, cut) IN
           /\ g.start = f.start /\ g.items \subseteq f.items
           /\ Timed(g) /\ TimedItems(g.items)
           /\ g.finish <= cut /\ \E i \in g.items : g.finish = i.finish
<1> DEFINE kept == {i \in f.items : i.finish <= cut}
<1>1. PICK k \in kept : TRUE
  OBVIOUS
<1>2. TimedItems(kept)
  BY FS_Subset DEF TimedItems
<1>3. Finishes(kept) = {k.finish} \cup Finishes(kept) /\ k.finish \in Int
  BY <1>2 DEF Finishes, TimedItems, Timed
<1>4. /\ Max(Finishes(kept)) \in Int
      /\ Max(Finishes(kept)) = k.finish \/ \E i \in kept : Max(Finishes(kept)) = i.finish
  <2> HIDE DEF kept
  <2> QED BY <1>2, <1>3, LatestFinish
<1>5. Truncated(f, cut) = [start |-> f.start, finish |-> Max(Finishes(kept)), items |-> kept]
  BY DEF Truncated
<1>6. \E i \in kept : Max(Finishes(kept)) = i.finish /\ i.finish <= cut
  BY <1>1, <1>4
<1> DEFINE g == Truncated(f, cut)
<1>7. g.start = f.start /\ g.finish = Max(Finishes(kept)) /\ g.items = kept
  BY <1>5
<1>8. Timed(g) /\ g.finish <= cut
  BY <1>4, <1>6, <1>7 DEF Timed
<1>9. kept \subseteq f.items
  OBVIOUS
<1> HIDE DEF g, kept
<1> QED BY <1>2, <1>6, <1>7, <1>8, <1>9 DEF g

-----------------------------------------------------------------------------
(* Well-kept folders *)

\* Any two chunk boundaries are a chunk apart.
LEMMA BoundariesApart ==
    ASSUME NEW a \in Int, NEW b \in Int, ChunkStart(a) = a, ChunkStart(b) = b, a < b
    PROVE  a + ChunkLen <= b
<1> DEFINE k == a \div ChunkLen
           m == b \div ChunkLen
<1>1. ChunkLen \in Nat /\ ChunkLen > 0
  BY ChunkLenAssumption
<1>2. k \in Int /\ m \in Int /\ a = k * ChunkLen /\ b = m * ChunkLen
  BY <1>1 DEF ChunkStart
<1> HIDE DEF k, m
<1>3. ~ m <= k
  <2> SUFFICES ASSUME m <= k PROVE FALSE
    OBVIOUS
  <2>1. (k - m) * ChunkLen >= 0
    BY <1>1, <1>2
  <2>2. (k - m) * ChunkLen = k * ChunkLen - m * ChunkLen
    BY <1>1, <1>2
  <2> QED BY <1>2, <2>1, <2>2
<1>4. (m - (k + 1)) * ChunkLen >= 0
  BY <1>1, <1>2, <1>3
<1>5. (m - (k + 1)) * ChunkLen = m * ChunkLen - k * ChunkLen - ChunkLen
  BY <1>1, <1>2
<1> QED BY <1>1, <1>2, <1>4, <1>5

\* The boundary of an instant is a boundary, and the only one whose chunk holds it.
LEMMA OnlyChunk ==
    ASSUME NEW t \in Int
    PROVE  /\ ChunkStart(ChunkStart(t)) = ChunkStart(t)
           /\ \A a \in Int : ChunkStart(a) = a /\ a <= t /\ t < a + ChunkLen => a = ChunkStart(t)
<1> DEFINE c == ChunkStart(t)
<1>1. ChunkLen \in Nat /\ ChunkLen > 0
  BY ChunkLenAssumption
<1>2. c \in Int /\ c <= t /\ t < c + ChunkLen
  BY ChunkGrid DEF ChunkEnd
<1>3. ChunkStart(c) = c
  <2> DEFINE k == t \div ChunkLen
  <2>1. k \in Int /\ c = k * ChunkLen
    BY <1>1 DEF ChunkStart
  <2> HIDE DEF c, k
  <2>2. c = ChunkLen * k
    BY <1>1, <2>1
  <2>3. c \div ChunkLen = k
    <3>1. c = ChunkLen * (c \div ChunkLen) + (c % ChunkLen)
          /\ (c % ChunkLen) \in 0 .. ChunkLen - 1 /\ (c \div ChunkLen) \in Int
      BY <1>1, <1>2
    <3> DEFINE j == c \div ChunkLen
               r == c % ChunkLen
    <3>2. ChunkLen * (k - j) = r /\ r >= 0 /\ r < ChunkLen /\ j \in Int
      <4>1. ChunkLen * (k - j) = ChunkLen * k - ChunkLen * j
        BY <1>1, <2>1, <3>1
      <4> QED BY <1>1, <2>1, <2>2, <3>1, <4>1
    <3> HIDE DEF j, r
    <3>3. ~ k - j >= 1
      <4> SUFFICES ASSUME k - j >= 1 PROVE FALSE
        OBVIOUS
      <4>1. ChunkLen * (k - j - 1) >= 0 /\ ChunkLen * (k - j - 1) = ChunkLen * (k - j) - ChunkLen
        BY <1>1, <2>1, <3>2
      <4> QED BY <1>1, <2>1, <3>2, <4>1
    <3>4. ~ k - j <= -1
      <4> SUFFICES ASSUME k - j <= -1 PROVE FALSE
        OBVIOUS
      <4>1. ChunkLen * (j - k - 1) >= 0 /\ ChunkLen * (j - k - 1) = - (ChunkLen * (k - j)) - ChunkLen
        BY <1>1, <2>1, <3>2
      <4> QED BY <1>1, <2>1, <3>2, <4>1
    <3>5. k = j
      BY <2>1, <3>2, <3>3, <3>4
    <3> QED BY <3>5 DEF j
  <2> QED BY <2>1, <2>3 DEF ChunkStart
<1>4. ASSUME NEW a \in Int, ChunkStart(a) = a, a <= t, t < a + ChunkLen PROVE a = c
  <2>1. ~ a < c
    BY <1>1, <1>2, <1>3, <1>4, BoundariesApart
  <2>2. ~ c < a
    BY <1>1, <1>2, <1>3, <1>4, BoundariesApart
  <2> QED BY <1>2, <2>1, <2>2
<1> QED BY <1>3, <1>4

\* A chunk file as the writer leaves it: on the grid, named after its last item.
Honest(f) ==
    /\ ChunkStart(f.start) = f.start
    /\ f.start < f.finish /\ f.finish = NameFinish(f.start, f.items)

Meets(i, chunk) == i.start < chunk + ChunkLen /\ i.finish > chunk

\* A folder of such files, one to a chunk.
Tidy(F) ==
    /\ \A f \in F : Honest(f) /\ \A i \in f.items : i.start < i.finish /\ Meets(i, f.start)
    /\ \A f, g \in F : f.start = g.start => f = g

Apart(S) == \A i, j \in S : i = j \/ i.finish <= j.start \/ j.finish <= i.start

\* The file of the chunk of t has an item for it.
Holds(F, t) == \E f \in F : f.start = ChunkStart(t) /\ Spans(f.items, t)

\* What is on screen can be read, whichever file of the folder is opened.
OnAir(F, t) == Spans(ItemsOnDisk(F), t) => Playable(F, t)

\* A folder without overlap, nor hole from t0 on.
Sound(F, t0) ==
    /\ Tidy(F) /\ Apart(ItemsOnDisk(F))
    /\ \A i \in ItemsOnDisk(F), t \in Int : t0 <= t /\ t < i.finish => Holds(F, t)

\* What the name of a chunk file says of its items.
LEMMA HonestName ==
    ASSUME NEW f, Timed(f), TimedItems(f.items), Honest(f)
    PROVE  /\ f.finish <= f.start + ChunkLen
           /\ \E i \in f.items : f.finish <= i.finish
           /\ \A i \in f.items : i.finish <= f.finish \/ f.finish = f.start + ChunkLen
<1>1. ChunkLen \in Nat
  BY ChunkLenAssumption
<1>2. f.finish <= f.start + ChunkLen /\ \E i \in f.items : f.finish <= i.finish
  BY NamedInChunk DEF Honest, Timed
<1>3. Max({f.start} \cup Finishes(f.items)) \in Int
      /\ \A i \in f.items : Max({f.start} \cup Finishes(f.items)) >= i.finish
  BY LatestFinish DEF Timed
<1>4. \A i \in f.items : i.finish <= f.finish \/ f.finish = f.start + ChunkLen
  BY <1>1, <1>3 DEF Honest, NameFinish, TimedItems, Timed
<1> QED BY <1>2, <1>4

\* In a tidy folder an instant that the file of its chunk has an item for can be
\* read: there is a file to pick, and only that one.
LEMMA HoldsPlays ==
    ASSUME NEW F, TimedFolder(F), Tidy(F), NEW t \in Int, Holds(F, t)
    PROVE  /\ Playable(F, t)
           /\ \E f \in F : f.start <= t /\ t < f.finish
           /\ \A f \in F : f.start <= t /\ t < f.start + ChunkLen => Spans(f.items, t)
<1>1. ChunkLen \in Nat /\ ChunkLen > 0
  BY ChunkLenAssumption
<1>2. PICK f \in F : f.start = ChunkStart(t) /\ Spans(f.items, t)
  BY DEF Holds
<1>3. ASSUME NEW g \in F, g.start <= t, t < g.start + ChunkLen PROVE g = f
  <2>1. g.start = ChunkStart(t)
    BY <1>3, OnlyChunk DEF TimedFolder, Timed, Tidy, Honest
  <2> QED BY <1>2, <2>1 DEF Tidy
<1>4. f.start <= t /\ t < f.start + ChunkLen
  BY <1>2, ChunkGrid DEF ChunkEnd
<1>5. t < f.finish
  <2>1. PICK i \in f.items : t < i.finish
    BY <1>2 DEF Spans
  <2>2. i.finish <= f.finish \/ f.finish = f.start + ChunkLen
    BY HonestName DEF TimedFolder, Tidy
  <2>3. i.finish \in Int /\ f.finish \in Int
    BY DEF TimedFolder, TimedItems, Timed
  <2> QED BY <1>4, <2>1, <2>2, <2>3
<1>6. \A g \in F : g.start <= t /\ t < g.finish => t < g.start + ChunkLen
  <2> TAKE g \in F
  <2>1. g.finish <= g.start + ChunkLen /\ g.start \in Int /\ g.finish \in Int
    BY HonestName DEF TimedFolder, Timed, Tidy
  <2> QED BY <1>1, <2>1
<1> QED BY <1>2, <1>3, <1>4, <1>5, <1>6 DEF Playable, Candidates

\* A part of a tidy folder is tidy.
LEMMA FewerTidy ==
    ASSUME NEW F, Tidy(F), NEW G \in SUBSET F
    PROVE  /\ Tidy(G)
           /\ Apart(ItemsOnDisk(F)) => Apart(ItemsOnDisk(G))
BY DEF Tidy, Apart, ItemsOnDisk

LEMMA FewerTimed ==
    ASSUME NEW F, TimedFolder(F), NEW G \in SUBSET F
    PROVE  TimedFolder(G)
BY FS_Subset DEF TimedFolder

\* What all sound folders give: no hole in a scan ...
LEMMA SoundHasNoHoles ==
    ASSUME NEW F, TimedFolder(F), NEW t0 \in Int, NEW horizon \in Int, Sound(F, t0)
    PROVE  Holes(F, t0, horizon) = {}
<1> DEFINE near == {f \in F : f.finish > t0 /\ f.start < horizon}
           scanned == ScannedItems(F, t0, horizon)
<1> SUFFICES ASSUME NEW t \in t0 .. horizon - 1, NEW i \in scanned, i.start > t, ~ Spans(scanned, t)
             PROVE  FALSE
  BY DEF Holes
<1>1. i \in ItemsOnDisk(F) /\ i.start < i.finish /\ i.start \in Int /\ i.finish \in Int
  BY DEF ScannedItems, ItemsOnDisk, Sound, Tidy, TimedFolder, TimedItems, Timed
<1>2. Holds(F, t)
  <2>1. t0 <= t /\ t < i.finish
    BY <1>1
  <2> QED BY <1>1, <2>1 DEF Sound
<1>3. PICK f \in F : f.start = ChunkStart(t) /\ Spans(f.items, t)
  BY <1>2 DEF Holds
<1>4. PICK k \in f.items : k.start <= t /\ t < k.finish
  BY <1>3 DEF Spans
<1>5. f.start <= t /\ t < f.start + ChunkLen /\ f.start \in Int /\ f.finish \in Int
  BY <1>3, ChunkGrid DEF ChunkEnd, TimedFolder, Timed
<1>6. k.start \in Int /\ k.finish \in Int
  BY DEF TimedFolder, TimedItems, Timed
<1>7. f.finish > t0
  <2>1. k.finish <= f.finish \/ f.finish = f.start + ChunkLen
    BY HonestName DEF TimedFolder, Sound, Tidy
  <2>2. ChunkLen \in Nat
    BY ChunkLenAssumption
  <2> QED BY <1>4, <1>5, <1>6, <2>1, <2>2
<1>8. f \in near /\ k \in ItemsOnDisk(near)
  BY <1>5, <1>7 DEF ItemsOnDisk
<1>9. k \in scanned
  BY <1>4, <1>6, <1>8 DEF ScannedItems
<1> QED BY <1>4, <1>9 DEF Spans

\* ... the end of the schedule where the scan says it is ...
LEMMA SoundEnds ==
    ASSUME NEW F, TimedFolder(F), NEW t0 \in Int, Sound(F, t0), NEW h \in HighestFinishes(F, t0)
    PROVE  h \in Int /\ h >= t0 /\ \A i \in ItemsOnDisk(F) : i.finish <= h
<1>1. h \in Int /\ h >= t0 /\ \A f \in F : h >= f.finish
  BY ResumesPastNames
<1>2. ASSUME NEW i \in ItemsOnDisk(F), i.finish > h PROVE FALSE
  <2>1. i.finish \in Int /\ i.start \in Int /\ i.start < i.finish
    BY DEF ItemsOnDisk, TimedFolder, TimedItems, Timed, Sound, Tidy
  <2> DEFINE t == i.finish - 1
  <2>2. t \in Int /\ t0 <= t /\ t < i.finish /\ i.start <= t
    BY <1>1, <1>2, <2>1
  <2> HIDE DEF t
  <2>3. PICK f \in F : f.start = ChunkStart(t) /\ Spans(f.items, t)
    BY <2>2 DEF Sound, Holds
  <2>4. i \in f.items
    <3>1. PICK k \in f.items : k.start <= t /\ t < k.finish
      BY <2>3 DEF Spans
    <3>2. k \in ItemsOnDisk(F) /\ k.start \in Int /\ k.finish \in Int
      BY DEF ItemsOnDisk, TimedFolder, TimedItems, Timed
    <3>3. k = i
      BY <2>1, <2>2, <3>1, <3>2 DEF Sound, Apart
    <3> QED BY <3>1, <3>3
  <2>5. PICK l \in LastFiles(F) : h = Max({t0} \cup {g.finish : g \in F} \cup Finishes(l.items))
    BY <2>3 DEF HighestFinishes
  <2>6. l \in F /\ f.start <= l.start /\ l.start \in Int /\ l.finish \in Int /\ f.start \in Int
    BY DEF LastFiles, TimedFolder, Timed
  <2>7. CASE f.start = l.start
    <3>1. i \in l.items
      BY <2>4, <2>6, <2>7 DEF Sound, Tidy
    <3> DEFINE S == F \cup l.items
    <3>2. TimedItems(S)
      BY <2>6, FS_Union DEF TimedFolder, TimedItems
    <3>3. {t0} \cup {g.finish : g \in F} \cup Finishes(l.items) = {t0} \cup Finishes(S)
      BY DEF Finishes
    <3>4. i \in S
      BY <3>1
    <3> HIDE DEF S
    <3>5. h >= i.finish
      BY <2>5, <3>2, <3>3, <3>4, LatestFinish
    <3> QED BY <1>1, <1>2, <2>1, <3>5
  <2>8. CASE f.start < l.start
    <3>1. ChunkStart(f.start) = f.start /\ ChunkStart(l.start) = l.start /\ l.start < l.finish
      BY <2>6 DEF Sound, Tidy, Honest
    <3>2. f.start + ChunkLen <= l.start
      BY <2>6, <2>8, <3>1, BoundariesApart
    <3>3. t < f.start + ChunkLen
      BY <2>2, <2>3, ChunkGrid DEF ChunkEnd
    <3>4. l.finish <= h
      BY <1>1, <2>6
    <3>5. ChunkLen \in Nat
      BY ChunkLenAssumption
    <3> QED BY <1>1, <1>2, <2>1, <2>6, <3>1, <3>2, <3>3, <3>4, <3>5 DEF t
  <2> QED BY <2>6, <2>7, <2>8
<1>3. \A i \in ItemsOnDisk(F) : i.finish \in Int
  BY DEF ItemsOnDisk, TimedFolder, TimedItems, Timed
<1> QED BY <1>1, <1>2, <1>3

\* ... and nothing on screen or ahead that cannot be read.
LEMMA SoundPlays ==
    ASSUME NEW F, TimedFolder(F), NEW t0 \in Int, Sound(F, t0)
    PROVE  /\ \A i \in ItemsOnDisk(F), t \in Int : t0 <= t /\ t < i.finish => Playable(F, t)
           /\ OnAir(F, t0)
<1>1. \A i \in ItemsOnDisk(F), t \in Int : t0 <= t /\ t < i.finish => Playable(F, t)
  BY HoldsPlays DEF Sound
<1> QED BY <1>1 DEF OnAir, Spans

\* The sweep at the near end takes nothing that is still to be read.
LEMMA AgesSoundly ==
    ASSUME NEW F, TimedFolder(F), NEW t0 \in Int, NEW cutoff \in Int, cutoff <= t0, Sound(F, t0)
    PROVE  Sound(F \ Elapsed(F, cutoff), t0)
<1> DEFINE G == F \ Elapsed(F, cutoff)
<1>1. G \in SUBSET F
  OBVIOUS
<1>2. Tidy(G) /\ Apart(ItemsOnDisk(G))
  BY <1>1, FewerTidy DEF Sound
<1>3. ASSUME NEW i \in ItemsOnDisk(G), NEW t \in Int, t0 <= t, t < i.finish PROVE Holds(G, t)
  <2>1. i \in ItemsOnDisk(F)
    BY DEF ItemsOnDisk
  <2>2. PICK f \in F : f.start = ChunkStart(t) /\ Spans(f.items, t)
    BY <1>3, <2>1 DEF Sound, Holds
  <2>3. Holds(F, t)
    BY <2>2 DEF Holds
  <2>4. PICK g \in F : g.start <= t /\ t < g.finish
    BY <2>3, HoldsPlays DEF Sound
  <2>5. g.start = ChunkStart(t)
    <3>1. g.start \in Int /\ g.finish \in Int /\ g.finish <= g.start + ChunkLen /\ ChunkLen \in Nat
      BY HonestName, ChunkLenAssumption DEF Sound, Tidy, TimedFolder, Timed
    <3> QED BY <2>4, <3>1, OnlyChunk DEF Sound, Tidy, Honest
  <2>6. g = f
    BY <2>2, <2>5 DEF Sound, Tidy
  <2>7. ~ f.finish < cutoff
    BY <1>3, <2>4, <2>6 DEF TimedFolder, Timed
  <2>8. f \in G
    BY <2>7 DEF Elapsed
  <2> QED BY <2>2, <2>8 DEF Holds
<1> HIDE DEF G
<1>4. Sound(G, t0)
  BY <1>2, <1>3 DEF Sound
<1> QED BY <1>4 DEF G


-----------------------------------------------------------------------------
(* A wipe of a sound folder *)

\* A folder on its way to be cut: no item lies across the cut, none that has begun
\* lies behind it, and there is no hole before it.
CutAt(F, t0, cut) ==
    /\ Tidy(F) /\ Apart(ItemsOnDisk(F))
    /\ \A i \in ItemsOnDisk(F) : i.finish <= cut \/ (i.start >= cut /\ i.start > t0)
    /\ \A i \in ItemsOnDisk(F), t \in Int : t0 <= t /\ t < i.finish /\ t < cut => Holds(F, t)

\* A cut behind the item on screen is one, and takes all that has not begun.
LEMMA CutsBehindScreen ==
    ASSUME NEW F, TimedFolder(F), NEW t \in Int, Sound(F, t)
    PROVE  /\ CutAt(F, t, AiringFinish(F, t))
           /\ \A i \in ItemsOnDisk(F) : i.finish <= AiringFinish(F, t) => i.start <= t
<1> DEFINE near == {f \in F : f.start <= t /\ f.finish >= t}
           S    == {j \in ItemsOnDisk(near) : j.start <= t}
           cut  == AiringFinish(F, t)
<1>1. \A i \in ItemsOnDisk(F) : i.start \in Int /\ i.finish \in Int /\ i.start < i.finish
  BY DEF ItemsOnDisk, TimedFolder, TimedItems, Timed, Sound, Tidy
<1>2. near \in SUBSET F /\ S \in SUBSET ItemsOnDisk(near) /\ S \subseteq ItemsOnDisk(F)
  BY DEF ItemsOnDisk
<1>3. TimedItems(S)
  <2> HIDE DEF near, S
  <2> QED BY <1>2, SomeItems
<1>4. cut = Max({t} \cup Finishes(S))
  BY DEF AiringFinish, Finishes
<1>5. /\ cut \in Int /\ cut >= t /\ \A i \in S : cut >= i.finish
      /\ cut = t \/ \E i \in S : cut = i.finish
  <2> HIDE DEF S, cut
  <2> QED BY <1>3, <1>4, LatestFinish
<1>6. ASSUME NEW i \in ItemsOnDisk(F), i.start <= t PROVE i.finish <= cut
  <2> SUFFICES ASSUME i.finish > t PROVE i.finish <= cut
    BY <1>1, <1>5
  <2>1. PICK f \in F : f.start = ChunkStart(t) /\ Spans(f.items, t)
    BY DEF Sound, Holds
  <2>2. PICK k \in f.items : k.start <= t /\ t < k.finish
    BY <2>1 DEF Spans
  <2>3. k \in ItemsOnDisk(F)
    BY DEF ItemsOnDisk
  <2>4. k = i
    BY <1>1, <1>6, <2>2, <2>3 DEF Sound, Apart
  <2>5. Holds(F, t)
    BY <2>1 DEF Holds
  <2>6. f.finish > t /\ f.start <= t
    <3>1. f.start <= t /\ t < f.start + ChunkLen
      BY <2>1, ChunkGrid DEF ChunkEnd
    <3>2. k.finish <= f.finish \/ f.finish = f.start + ChunkLen
      BY HonestName DEF TimedFolder, Sound, Tidy
    <3>3. ChunkLen \in Nat /\ f.start \in Int /\ f.finish \in Int
      BY ChunkLenAssumption DEF TimedFolder, Timed
    <3> QED BY <1>1, <2>2, <2>3, <3>1, <3>2, <3>3
  <2>7. f \in near
    BY <2>6 DEF TimedFolder, Timed
  <2>8. i \in S
    BY <1>6, <2>4, <2>7 DEF ItemsOnDisk
  <2> QED BY <1>1, <1>5, <2>8
<1>7. ASSUME NEW i \in ItemsOnDisk(F), ~ i.start <= t PROVE i.start >= cut /\ i.start > t
  <2>1. CASE cut = t
    BY <1>1, <1>7, <2>1
  <2>2. CASE cut # t
    <3>1. PICK k \in S : cut = k.finish
      BY <1>5, <2>2
    <3>2. k \in ItemsOnDisk(F) /\ k.start <= t
      BY <1>2
    <3>3. i = k \/ i.finish <= k.start \/ k.finish <= i.start
      BY <3>2 DEF Sound, Apart
    <3> HIDE DEF cut, S
    <3> QED BY <1>1, <1>7, <3>1, <3>2, <3>3
  <2> QED BY <2>1, <2>2
<1> HIDE DEF cut
<1>8. CutAt(F, t, cut)
  <2>1. \A i \in ItemsOnDisk(F) : i.finish <= cut \/ (i.start >= cut /\ i.start > t)
    BY <1>6, <1>7
  <2> QED BY <2>1 DEF CutAt, Sound
<1>9. \A i \in ItemsOnDisk(F) : i.finish <= cut => i.start <= t
  BY <1>1, <1>5, <1>7
<1> QED BY <1>8, <1>9 DEF cut

\* So is a cut before an item that has not begun.
LEMMA CutsBefore ==
    ASSUME NEW F, TimedFolder(F), NEW t0 \in Int, Sound(F, t0),
           NEW i \in ItemsOnDisk(F), i.start > t0
    PROVE  CutAt(F, t0, i.start)
<1>1. \A j \in ItemsOnDisk(F) : j.start \in Int /\ j.finish \in Int /\ j.start < j.finish
  BY DEF ItemsOnDisk, TimedFolder, TimedItems, Timed, Sound, Tidy
<1>2. ASSUME NEW j \in ItemsOnDisk(F)
      PROVE  j.finish <= i.start \/ (j.start >= i.start /\ j.start > t0)
  <2>1. i = j \/ i.finish <= j.start \/ j.finish <= i.start
    BY DEF Sound, Apart
  <2> QED BY <1>1, <2>1
<1> QED BY <1>2 DEF CutAt, Sound

\* Between two steps of the wipe the item on screen can be read.
LEMMA CutPlays ==
    ASSUME NEW F, TimedFolder(F), NEW t0 \in Int, NEW cut \in Int, CutAt(F, t0, cut)
    PROVE  OnAir(F, t0)
<1> SUFFICES ASSUME NEW i \in ItemsOnDisk(F), i.start <= t0, t0 < i.finish PROVE Playable(F, t0)
  BY DEF OnAir, Spans
<1>1. i.start \in Int /\ i.finish \in Int
  BY DEF ItemsOnDisk, TimedFolder, TimedItems, Timed
<1>2. t0 < cut
  BY <1>1 DEF CutAt
<1>3. Holds(F, t0)
  BY <1>2 DEF CutAt
<1> QED BY <1>3, HoldsPlays DEF CutAt

\* A file may go that no instant before the cut needs.
LEMMA CutWithout ==
    ASSUME NEW F, TimedFolder(F), NEW t0 \in Int, NEW cut \in Int, CutAt(F, t0, cut),
           NEW f \in F, f.start >= cut \/ \A i \in f.items : i.finish > cut
    PROVE  CutAt(F \ {f}, t0, cut)
<1> DEFINE G == F \ {f}
<1>1. G \in SUBSET F
  OBVIOUS
<1>2. Tidy(G) /\ Apart(ItemsOnDisk(G))
  BY <1>1, FewerTidy DEF CutAt
<1>3. \A i \in ItemsOnDisk(G) : i \in ItemsOnDisk(F)
  BY DEF ItemsOnDisk
<1>4. ASSUME NEW t \in Int, t < cut, Holds(F, t) PROVE Holds(G, t)
  <2>1. PICK h \in F : h.start = ChunkStart(t) /\ Spans(h.items, t)
    BY <1>4 DEF Holds
  <2>2. h # f
    <3> SUFFICES ASSUME h = f PROVE FALSE
      OBVIOUS
    <3>1. f.start <= t /\ f.start \in Int
      BY <2>1, ChunkGrid DEF TimedFolder, Timed
    <3>2. ~ f.start >= cut
      BY <1>4, <3>1
    <3>3. PICK i \in f.items : i.start <= t /\ t < i.finish
      BY <2>1 DEF Spans
    <3>4. i \in ItemsOnDisk(F) /\ i.start \in Int /\ i.finish \in Int
      BY DEF ItemsOnDisk, TimedFolder, TimedItems, Timed
    <3>5. i.finish > cut
      BY <3>2
    <3>6. i.finish <= cut \/ i.start >= cut
      BY <3>4 DEF CutAt
    <3> QED BY <1>4, <3>3, <3>4, <3>5, <3>6
  <2> QED BY <2>1, <2>2 DEF Holds
<1> HIDE DEF G
<1>5. CutAt(G, t0, cut)
  BY <1>2, <1>3, <1>4 DEF CutAt
<1> QED BY <1>5 DEF G

\* A file that reaches past the cut is shortened: its new name stands beside the
\* old one, and either serves the item on screen until the old one goes.
LEMMA CutShortens ==
    ASSUME NEW F, TimedFolder(F), NEW t0 \in Int, NEW cut \in Int, CutAt(F, t0, cut),
           NEW f, f \in Overrunning(F, cut), \E i \in f.items : i.finish <= cut,
           NEW G, G = Put(F, Truncated(f, cut))
    PROVE  /\ f \in G /\ TimedFolder(G)
           /\ CutAt(G \ {f}, t0, cut) /\ OnAir(G, t0)
           /\ ItemsOnDisk(G) = ItemsOnDisk(F)
           /\ \A k \in ItemsOnDisk(F) \ ItemsOnDisk(G \ {f}) : k.finish > cut
<1> DEFINE g == Truncated(f, cut)
           R == G \ {f}
<1>1. f \in F /\ f.start < cut /\ f.finish > cut
  BY DEF Overrunning
<1>2. Timed(f) /\ TimedItems(f.items) /\ Honest(f)
      /\ \A k \in f.items : k.start < k.finish /\ Meets(k, f.start)
  BY <1>1 DEF TimedFolder, CutAt, Tidy
<1>3. /\ g.start = f.start /\ Timed(g) /\ TimedItems(g.items)
      /\ g.finish <= cut /\ \E k \in g.items : g.finish = k.finish
  BY <1>2, ShortensToCut
<1>4. g.items = {k \in f.items : k.finish <= cut} /\ g.finish = Max(Finishes(g.items))
  BY DEF Truncated
<1>0. G = Put(F, g)
  OBVIOUS
<1> HIDE DEF g
<1>5. ASSUME NEW h \in F, SameName(h, g) PROVE FALSE
  <2>1. h.start = f.start /\ h.finish = g.finish
    BY <1>3, <1>5 DEF SameName
  <2>2. h = f
    BY <1>1, <2>1 DEF CutAt, Tidy
  <2> QED BY <1>1, <1>2, <1>3, <2>1, <2>2 DEF Timed
<1>6. G = F \cup {g} /\ g \notin F
  BY <1>0, <1>5 DEF Put, SameName
<1>7. R = (F \ {f}) \cup {g}
  BY <1>1, <1>6
<1> HIDE DEF R
<1>8. TimedFolder(G) /\ f \in G
  BY <1>1, <1>3, <1>6, FS_AddElement DEF TimedFolder
<1>9. TimedFolder(R)
  <2>1. R \in SUBSET G
    BY DEF R
  <2> QED BY <1>8, <2>1, FewerTimed
<1>10. Honest(g)
  <2>1. PICK k \in g.items : g.finish = k.finish
    BY <1>3
  <2>2. k \in f.items /\ k.finish \in Int
    BY <1>2, <1>4 DEF TimedItems, Timed
  <2>3. g.start < g.finish
    BY <1>2, <1>3, <2>1, <2>2 DEF Meets
  <2>4. f.finish <= f.start + ChunkLen
    BY <1>2, HonestName
  <2>5. ~ g.finish >= g.start + ChunkLen
    BY <1>1, <1>2, <1>3, <2>4, ChunkLenAssumption DEF Timed
  <2> DEFINE top == Max({g.start} \cup Finishes(g.items))
  <2>6. /\ top \in Int /\ top >= g.start /\ \A j \in g.items : top >= j.finish
        /\ top = g.start \/ \E j \in g.items : top = j.finish
    BY <1>3, LatestFinish DEF Timed
  <2>7. \A j \in g.items : j.finish <= g.finish
    <3>1. Finishes(g.items) = {k.finish} \cup Finishes(g.items)
      BY DEF Finishes
    <3>2. \A j \in g.items : Max({k.finish} \cup Finishes(g.items)) >= j.finish
      BY <1>3, <2>2, LatestFinish
    <3> QED BY <1>4, <3>1, <3>2
  <2>8. top = g.finish
    <3>1. top >= g.finish
      BY <2>1, <2>6
    <3> HIDE DEF top
    <3>2. \E j \in g.items : top = j.finish
      BY <1>3, <2>3, <2>6, <3>1 DEF Timed
    <3>3. top <= g.finish
      BY <2>7, <3>2
    <3> QED BY <1>3, <2>6, <3>1, <3>3 DEF Timed
  <2>9. NameFinish(g.start, g.items) = g.finish
    BY <2>5, <2>8 DEF NameFinish
  <2>10. ChunkStart(g.start) = g.start
    BY <1>2, <1>3 DEF Honest
  <2> QED BY <2>3, <2>9, <2>10 DEF Honest
<1>11. Tidy(R)
  <2>1. \A h \in R : Honest(h) /\ \A k \in h.items : k.start < k.finish /\ Meets(k, h.start)
    <3> TAKE h \in R
    <3>1. CASE h \in F
      BY <3>1 DEF CutAt, Tidy
    <3>2. CASE h = g
      BY <1>2, <1>3, <1>4, <1>10, <3>2
    <3> QED BY <1>7, <3>1, <3>2
  <2>2. \A h, e \in R : h.start = e.start => h = e
    BY <1>1, <1>3, <1>7 DEF CutAt, Tidy
  <2> QED BY <2>1, <2>2 DEF Tidy
<1>12. ItemsOnDisk(G) = ItemsOnDisk(F) /\ ItemsOnDisk(R) \subseteq ItemsOnDisk(F)
  BY <1>1, <1>4, <1>6, <1>7 DEF ItemsOnDisk
<1>13. \A k \in ItemsOnDisk(F) \ ItemsOnDisk(R) : k.finish > cut
  <2> TAKE k \in ItemsOnDisk(F) \ ItemsOnDisk(R)
  <2>1. PICK h \in F : k \in h.items
    BY DEF ItemsOnDisk
  <2>2. h = f /\ k \notin g.items
    BY <1>7, <2>1 DEF ItemsOnDisk
  <2>3. k.finish \in Int
    BY <1>2, <2>1, <2>2 DEF TimedItems, Timed
  <2> QED BY <1>4, <2>1, <2>2, <2>3
<1>14. ASSUME NEW t \in Int, t < cut, Holds(F, t) PROVE Holds(R, t)
  <2>1. PICK h \in F : h.start = ChunkStart(t) /\ Spans(h.items, t)
    BY <1>14 DEF Holds
  <2>2. CASE h = f
    <3>1. PICK k \in f.items : k.start <= t /\ t < k.finish
      BY <2>1, <2>2 DEF Spans
    <3>2. k \in ItemsOnDisk(F) /\ k.start \in Int /\ k.finish \in Int
      BY <1>1, <1>2 DEF ItemsOnDisk, TimedItems, Timed
    <3>3. k.finish <= cut
      BY <1>14, <3>1, <3>2 DEF CutAt
    <3>4. Spans(g.items, t)
      BY <1>4, <3>1, <3>3 DEF Spans
    <3> QED BY <1>3, <1>7, <2>1, <2>2, <3>4 DEF Holds
  <2>3. CASE h # f
    BY <1>7, <2>1, <2>3 DEF Holds
  <2> QED BY <2>2, <2>3
<1>15. CutAt(R, t0, cut)
  <2>1. Apart(ItemsOnDisk(R))
    BY <1>12 DEF CutAt, Apart
  <2> QED BY <1>11, <1>12, <1>14, <2>1 DEF CutAt
<1>16. OnAir(G, t0)
  <2> SUFFICES ASSUME NEW k \in ItemsOnDisk(F), k.start <= t0, t0 < k.finish PROVE Playable(G, t0)
    BY <1>12 DEF OnAir, Spans
  <2>1. k.start \in Int /\ k.finish \in Int
    BY DEF ItemsOnDisk, TimedFolder, TimedItems, Timed
  <2>2. k.finish <= cut /\ t0 < cut
    BY <2>1 DEF CutAt
  <2>3. Holds(F, t0) /\ Holds(R, t0)
    BY <1>14, <2>2 DEF CutAt
  <2>4. Playable(R, t0) /\ Playable(F, t0)
    BY <1>9, <1>11, <2>3, HoldsPlays DEF CutAt
  <2>5. Candidates(G, t0) = Candidates(R, t0) \cup Candidates(F, t0)
    BY <1>6, <1>7 DEF Candidates
  <2> QED BY <2>4, <2>5 DEF Playable
<1> QED BY <1>8, <1>12, <1>13, <1>15, <1>16 DEF R

\* What it loses lies past the cut.
LEMMA ShortensBehind ==
    ASSUME NEW F, TimedFolder(F), NEW t0 \in Int, NEW cut \in Int, CutAt(F, t0, cut),
           NEW f, f \in Overrunning(F, cut), \E i \in f.items : i.finish <= cut,
           NEW G, G = Put(F, Truncated(f, cut)),
           NEW k, k \in ItemsOnDisk(F), k \notin ItemsOnDisk(G \ {f})
    PROVE  k.finish > cut
BY CutShortens

\* Once nothing reaches past the cut, no item does: the folder is sound again.
LEMMA CutEnds ==
    ASSUME NEW F, TimedFolder(F), NEW t0 \in Int, NEW cut \in Int, CutAt(F, t0, cut),
           \A f \in F : f.start < cut, Overrunning(F, cut) = {}
    PROVE  Sound(F, t0) /\ \A i \in ItemsOnDisk(F) : i.finish <= cut
<1>1. ASSUME NEW f \in F, NEW i \in f.items, i.finish > cut PROVE FALSE
  <2>1. f \notin Overrunning(F, cut)
    OBVIOUS
  <2>2. ~ f.finish > cut
    BY <1>1, <2>1 DEF Overrunning
  <2>3. i.finish <= f.finish \/ f.finish = f.start + ChunkLen
    BY HonestName DEF TimedFolder, CutAt, Tidy
  <2>4. i.start >= cut /\ i.start < f.start + ChunkLen
    <3>1. i \in ItemsOnDisk(F) /\ i.finish \in Int
      BY DEF ItemsOnDisk, TimedFolder, TimedItems, Timed
    <3> QED BY <1>1, <3>1 DEF CutAt, Tidy, Meets
  <2>5. i.start \in Int /\ i.finish \in Int /\ f.start \in Int /\ f.finish \in Int /\ ChunkLen \in Nat
    BY ChunkLenAssumption DEF TimedFolder, TimedItems, Timed
  <2> QED BY <1>1, <2>2, <2>3, <2>4, <2>5
<1>2. \A i \in ItemsOnDisk(F) : i.finish <= cut /\ i.finish \in Int
  BY <1>1 DEF ItemsOnDisk, TimedFolder, TimedItems, Timed
<1> QED BY <1>2 DEF CutAt, Sound


-----------------------------------------------------------------------------
(* Laying a generation into a sound folder *)

\* A folder that ends at `to`, without a hole before it.
Filled(F, t0, to) ==
    /\ Tidy(F) /\ Apart(ItemsOnDisk(F))
    /\ t0 <= to
    /\ \A i \in ItemsOnDisk(F) : i.finish <= to
    /\ \A t \in Int : t0 <= t /\ t < to => Holds(F, t)

\* A folder into which the items I are being laid: up to the cursor it is filled,
\* from there on to the end of the generation the items leave no hole.
Growing(F, I, t0, cursor, to) ==
    /\ Tidy(F) /\ Apart(ItemsOnDisk(F) \cup I)
    /\ t0 <= cursor /\ t0 <= to
    /\ \A i \in ItemsOnDisk(F) : i.finish <= to /\ (i.finish <= cursor \/ t0 < cursor)
    /\ \A f \in F : \/ f.start < ChunkStart(cursor)
                    \/ f.start = ChunkStart(cursor) /\ \A i \in f.items : i.finish <= cursor
    /\ \A t \in Int : t0 <= t /\ t < cursor /\ t < to => Holds(F, t)
    /\ \A t \in Int : cursor <= t /\ t < to => Spans(I, t)

\* The end of a sound schedule is where generation resumes.
LEMMA SoundIsFilled ==
    ASSUME NEW F, TimedFolder(F), NEW t0 \in Int, Sound(F, t0), NEW h \in HighestFinishes(F, t0)
    PROVE  Filled(F, t0, h)
<1>1. h \in Int /\ h >= t0 /\ \A i \in ItemsOnDisk(F) : i.finish <= h
  BY SoundEnds
<1>2. h = t0 \/ \E i \in ItemsOnDisk(F) : h <= i.finish
  <2>1. CASE F = {}
    BY <2>1 DEF HighestFinishes
  <2>2. CASE F # {}
    <3>1. PICK l \in LastFiles(F) : h = Max({t0} \cup {f.finish : f \in F} \cup Finishes(l.items))
      BY <2>2 DEF HighestFinishes
    <3> DEFINE S == F \cup l.items
    <3>2. l \in F
      BY DEF LastFiles
    <3>3. TimedItems(S)
      BY <3>2, FS_Union DEF TimedFolder, TimedItems
    <3>4. {t0} \cup {f.finish : f \in F} \cup Finishes(l.items) = {t0} \cup Finishes(S)
      BY DEF Finishes
    <3>5. h = t0 \/ \E x \in S : h = x.finish
      <4> HIDE DEF S
      <4> QED BY <3>1, <3>3, <3>4, LatestFinish
    <3>6. ASSUME NEW f \in F, h = f.finish PROVE \E i \in ItemsOnDisk(F) : h <= i.finish
      <4>1. \E i \in f.items : f.finish <= i.finish
        BY HonestName DEF Sound, Tidy, TimedFolder
      <4> QED BY <3>6, <4>1 DEF ItemsOnDisk
    <3>7. ASSUME NEW i \in l.items, h = i.finish PROVE \E j \in ItemsOnDisk(F) : h <= j.finish
      BY <1>1, <3>2, <3>7 DEF ItemsOnDisk
    <3> QED BY <3>5, <3>6, <3>7
  <2> QED BY <2>1, <2>2
<1>3. \A i \in ItemsOnDisk(F) : i.finish \in Int
  BY DEF ItemsOnDisk, TimedFolder, TimedItems, Timed
<1>4. ASSUME NEW t \in Int, t0 <= t, t < h PROVE Holds(F, t)
  <2>1. PICK i \in ItemsOnDisk(F) : h <= i.finish
    BY <1>1, <1>2, <1>4
  <2>2. t < i.finish
    BY <1>1, <1>3, <1>4, <2>1
  <2> QED BY <1>4, <2>2 DEF Sound
<1> QED BY <1>1, <1>4 DEF Filled, Sound

LEMMA FilledIsSound ==
    ASSUME NEW F, TimedFolder(F), NEW t0 \in Int, NEW to \in Int, Filled(F, t0, to)
    PROVE  Sound(F, t0)
<1>1. \A i \in ItemsOnDisk(F) : i.finish \in Int /\ i.finish <= to
  BY DEF ItemsOnDisk, TimedFolder, TimedItems, Timed, Filled
<1>2. \A i \in ItemsOnDisk(F), t \in Int : t0 <= t /\ t < i.finish => Holds(F, t)
  BY <1>1 DEF Filled
<1> QED BY <1>2 DEF Filled, Sound

\* A generation starts at the end of what is there.
LEMMA GrowsFromEnd ==
    ASSUME NEW F, TimedFolder(F), NEW t0 \in Int, NEW from \in Int, Filled(F, t0, from),
           NEW to \in Int, from <= to,
           NEW I, TimedItems(I), Apart(I),
           \A i \in I : i.start < i.finish,
           F = {} \/ \A i \in I : from <= i.start,
           \A t \in Int : from <= t /\ t < to => Spans(I, t)
    PROVE  Growing(F, I, t0, from, to)
<1>1. \A i \in ItemsOnDisk(F) : i.finish \in Int /\ i.finish <= from /\ i.finish <= to
  BY DEF ItemsOnDisk, TimedFolder, TimedItems, Timed, Filled
<1>2. Apart(ItemsOnDisk(F) \cup I)
  <2>1. \A i \in ItemsOnDisk(F), j \in I : i.finish <= j.start
    <3>1. CASE F = {}
      BY <3>1 DEF ItemsOnDisk
    <3>2. CASE \A i \in I : from <= i.start
      BY <1>1, <3>2 DEF TimedItems, Timed
    <3> QED BY <3>1, <3>2
  <2> QED BY <2>1 DEF Apart, Filled
<1>3. ASSUME NEW f \in F PROVE f.start <= ChunkStart(from)
  <2>1. f.start \in Int /\ f.finish \in Int /\ f.start < f.finish /\ ChunkStart(f.start) = f.start
    BY DEF TimedFolder, Timed, Filled, Tidy, Honest
  <2>2. PICK i \in f.items : f.finish <= i.finish
    BY HonestName DEF TimedFolder, Filled, Tidy
  <2>3. i.finish \in Int /\ i.finish <= from
    BY <1>1 DEF ItemsOnDisk
  <2>4. ChunkStart(from) \in Int /\ from < ChunkStart(from) + ChunkLen
        /\ ChunkStart(ChunkStart(from)) = ChunkStart(from)
    BY ChunkGrid, OnlyChunk DEF ChunkEnd
  <2>5. ~ ChunkStart(from) < f.start
    <3> SUFFICES ASSUME ChunkStart(from) < f.start PROVE FALSE
      OBVIOUS
    <3>1. ChunkStart(from) + ChunkLen <= f.start
      BY <2>1, <2>4, BoundariesApart
    <3> QED BY <2>1, <2>2, <2>3, <2>4, <3>1, ChunkLenAssumption
  <2> QED BY <2>1, <2>4, <2>5
<1>4. \A f \in F : \A i \in f.items : i.finish <= from
  BY <1>1 DEF ItemsOnDisk
<1>5. \A f \in F : \/ f.start < ChunkStart(from)
                   \/ f.start = ChunkStart(from) /\ \A i \in f.items : i.finish <= from
  <2> TAKE f \in F
  <2>1. f.start \in Int /\ ChunkStart(from) \in Int
    BY ChunkGrid DEF TimedFolder, Timed
  <2> QED BY <1>3, <1>4, <2>1
<1>6. t0 <= to
  BY DEF Filled
<1> QED BY <1>1, <1>2, <1>5, <1>6 DEF Growing, Filled

\* A chunk's name depends on its last items only ...
LEMMA NamedByLast ==
    ASSUME NEW chunk \in Int, NEW T, TimedItems(T), NEW S \in SUBSET T,
           \A i \in T : \E j \in S : i.finish <= j.finish
    PROVE  NameFinish(chunk, S) = NameFinish(chunk, T)
<1> DEFINE a == Max({chunk} \cup Finishes(S))
           b == Max({chunk} \cup Finishes(T))
<1>1. TimedItems(S)
  BY FS_Subset DEF TimedItems
<1>2. /\ a \in Int /\ a >= chunk /\ \A i \in S : a >= i.finish
      /\ a = chunk \/ \E i \in S : a = i.finish
  BY <1>1, LatestFinish
<1>3. /\ b \in Int /\ b >= chunk /\ \A i \in T : b >= i.finish
      /\ b = chunk \/ \E i \in T : b = i.finish
  BY LatestFinish
<1> HIDE DEF a, b
<1>4. \A i \in T : i.finish \in Int
  BY DEF TimedItems, Timed
<1>5. a <= b
  BY <1>2, <1>3, <1>4
<1>6. b <= a
  <2>1. CASE b = chunk
    BY <1>2, <2>1
  <2>2. CASE b # chunk
    <3>1. PICK i \in T : b = i.finish
      BY <1>3, <2>2
    <3>2. PICK j \in S : i.finish <= j.finish
      OBVIOUS
    <3> QED BY <1>2, <1>3, <1>4, <3>1, <3>2
  <2> QED BY <2>1, <2>2
<1>7. a = b
  BY <1>2, <1>3, <1>5, <1>6
<1> QED BY <1>7 DEF NameFinish, a, b

\* ... and reaches as far into the chunk as they do.
LEMMA NameReaches ==
    ASSUME NEW chunk \in Int, NEW S, TimedItems(S), NEW i \in S, NEW t \in Int,
           t < i.finish, t < chunk + ChunkLen
    PROVE  t < NameFinish(chunk, S)
<1>1. Max({chunk} \cup Finishes(S)) \in Int /\ Max({chunk} \cup Finishes(S)) >= i.finish
  BY LatestFinish
<1>2. i.finish \in Int /\ ChunkLen \in Nat
  BY ChunkLenAssumption DEF TimedItems, Timed
<1> QED BY <1>1, <1>2 DEF NameFinish


\* The files of a chunk that a write of it leaves behind under another name.
Others(F, chunk, name) == {f \in F : f.start = chunk /\ f.finish # name}

\* One chunk of a generation: what is there and what is new are in its file, named
\* after the last of the new items; while the chunk's former file is still there
\* either serves the item on screen, and without it the folder has grown to the
\* end of the chunk.
LEMMA GrowsByChunk ==
    ASSUME NEW F, TimedFolder(F), NEW I, TimedItems(I),
           NEW t0 \in Int, NEW cursor \in Int, NEW to \in Int, cursor < to,
           Growing(F, I, t0, cursor, to),
           \A i \in I : i.start < i.finish /\ i.finish <= to,
           NEW existing \in ChunkContents(F, ChunkStart(cursor))
    PROVE  LET chunk == ChunkStart(cursor)
               new   == ItemsCovering(I, cursor, ChunkEnd(cursor))
               G     == Put(F, GrownChunk(chunk, existing, new))
               R     == G \ Others(G, chunk, NameFinish(chunk, new))
           IN  /\ TimedFolder(G) /\ OnAir(G, t0)
               /\ Growing(R, I, t0, ChunkEnd(cursor), to)
               /\ ItemsOnDisk(R) = ItemsOnDisk(G)
               /\ ItemsOnDisk(G) \subseteq ItemsOnDisk(F) \cup I
               /\ ItemsOnDisk(F) \subseteq ItemsOnDisk(G)
               /\ \A f \in G : f \in F \/ f.start = chunk
<1> DEFINE chunk == ChunkStart(cursor)
           end   == ChunkEnd(cursor)
           new   == ItemsCovering(I, cursor, end)
           g     == GrownChunk(chunk, existing, new)
           G     == Put(F, g)
           R     == G \ Others(G, chunk, NameFinish(chunk, new))
<1>1. /\ chunk \in Int /\ end \in Int /\ end = chunk + ChunkLen /\ ChunkLen \in Nat
      /\ chunk <= cursor /\ cursor < end /\ ChunkStart(chunk) = chunk /\ ChunkStart(end) = end
  BY ChunkGrid, OnlyChunk, ChunkLenAssumption DEF ChunkEnd
<1>2. g.start = chunk /\ g.finish = NameFinish(chunk, new) /\ g.items = existing \cup new
  BY DEF GrownChunk
<1>3. new \in SUBSET I /\ \A i \in new : i.start < end /\ i.finish > cursor
  BY DEF ItemsCovering
<1>4. \A i \in I : (i.start < end /\ i.finish > cursor) => i \in new
  BY DEF ItemsCovering
<1> HIDE DEF new, g, chunk, end
<1>5. TimedItems(new)
  BY <1>3, FS_Subset DEF TimedItems
<1>6. PICK last \in new : last.start <= cursor /\ cursor < last.finish /\ last.finish \in Int
  <2>1. PICK i \in I : i.start <= cursor /\ cursor < i.finish
    BY DEF Growing, Spans
  <2>2. i.start \in Int /\ i.finish \in Int
    BY DEF TimedItems, Timed
  <2> QED BY <1>1, <1>4, <2>1, <2>2
<1>7. existing = {} \/ \E f \in F : f.start = chunk /\ existing = f.items
  BY DEF ChunkContents, chunk
<1>8. TimedItems(existing) /\ \A i \in existing : i.finish <= cursor /\ i \in ItemsOnDisk(F)
      /\ i.start < i.finish /\ Meets(i, chunk)
  <2>1. CASE existing = {}
    BY <2>1, FS_EmptySet DEF TimedItems
  <2>2. CASE existing # {}
    <3>1. PICK f \in F : f.start = chunk /\ existing = f.items
      BY <1>7, <2>2
    <3>2. ~ f.start < chunk
      BY <1>1, <3>1
    <3> QED BY <3>1, <3>2 DEF TimedFolder, Growing, chunk, ItemsOnDisk, Tidy
  <2> QED BY <2>1, <2>2
<1>9. TimedItems(g.items)
  BY <1>2, <1>5, <1>8, FS_Union DEF TimedItems
<1>10. \A i \in new : i.start < i.finish /\ Meets(i, chunk) /\ i.finish \in Int /\ i.start \in Int
  <2> TAKE i \in new
  <2>1. i.start < i.finish /\ i.finish > cursor /\ i.start < end /\ i.start \in Int /\ i.finish \in Int
    BY <1>3, <1>5 DEF TimedItems, Timed
  <2> QED BY <1>1, <2>1 DEF Meets
<1>11. g.finish \in Int /\ cursor < g.finish
  BY <1>1, <1>2, <1>5, <1>6, NameReaches, NamedInChunk
<1>12. Honest(g)
  <2>1. \A i \in g.items : \E j \in new : i.finish <= j.finish
    <3> TAKE i \in g.items
    <3>1. CASE i \in new
      BY <1>10, <3>1
    <3>2. CASE i \in existing
      <4>1. i.finish <= cursor /\ i.finish \in Int
        BY <1>8, <3>2 DEF TimedItems, Timed
      <4> QED BY <1>6, <4>1
    <3> QED BY <1>2, <3>1, <3>2
  <2>2. new \in SUBSET g.items
    BY <1>2
  <2>3. NameFinish(chunk, new) = NameFinish(chunk, g.items)
    BY <1>1, <1>9, <2>1, <2>2, NamedByLast
  <2> QED BY <1>1, <1>2, <1>11, <2>3 DEF Honest
<1>13. R = {f \in F : f.start # chunk} \cup {g}
  <2>1. G = {f \in F : ~ (f.start = chunk /\ f.finish = g.finish)} \cup {g}
    BY <1>2 DEF Put, SameName
  <2>2. Others(G, chunk, NameFinish(chunk, new)) = {f \in G : f.start = chunk /\ f.finish # g.finish}
    BY <1>2 DEF Others
  <2> DEFINE O == Others(G, chunk, NameFinish(chunk, new))
  <2> HIDE DEF G, O
  <2> QED BY <1>2, <2>1, <2>2 DEF O
<1>14. G \subseteq F \cup {g} /\ R \subseteq G /\ G = R \cup {f \in G : f \in F /\ f.start = chunk}
  <2>1. G \subseteq F \cup {g}
    BY DEF Put
  <2> QED BY <1>13, <2>1
<1> HIDE DEF G, R
<1>15. TimedFolder(G) /\ TimedFolder(R)
  <2>1. IsFiniteSet(F \cup {g})
    BY FS_AddElement DEF TimedFolder
  <2>2. Timed(g)
    BY <1>1, <1>2, <1>11 DEF Timed
  <2>3. TimedFolder(F \cup {g})
    BY <1>9, <2>1, <2>2 DEF TimedFolder
  <2>4. G \in SUBSET (F \cup {g}) /\ R \in SUBSET (F \cup {g})
    BY <1>14
  <2> QED BY <2>3, <2>4, FewerTimed
<1>16. Tidy(R)
  <2>1. \A f \in R : Honest(f) /\ \A i \in f.items : i.start < i.finish /\ Meets(i, f.start)
    <3> TAKE f \in R
    <3>1. CASE f \in F
      BY <3>1 DEF Growing, Tidy
    <3>2. CASE f = g
      BY <1>2, <1>8, <1>10, <1>12, <3>2
    <3> QED BY <1>13, <3>1, <3>2
  <2>2. \A f, h \in R : f.start = h.start => f = h
    BY <1>2, <1>13 DEF Growing, Tidy
  <2> QED BY <2>1, <2>2 DEF Tidy
<1>17. \A f \in F : f.start = chunk => f.items = existing
  <2> TAKE f \in F
  <2> HAVE f.start = chunk
  <2>1. \E h \in F : h.start = chunk /\ existing = h.items
    BY DEF ChunkContents, chunk
  <2> QED BY <2>1 DEF Growing, Tidy
<1>18. /\ ItemsOnDisk(R) = ItemsOnDisk(G)
       /\ ItemsOnDisk(G) \subseteq ItemsOnDisk(F) \cup I
       /\ ItemsOnDisk(F) \subseteq ItemsOnDisk(G)
  <2>1. ItemsOnDisk(R) \subseteq ItemsOnDisk(F) \cup I
    <3> SUFFICES ASSUME NEW f \in R, NEW i \in f.items PROVE i \in ItemsOnDisk(F) \cup I
      BY DEF ItemsOnDisk
    <3>1. CASE f \in F
      BY <3>1 DEF ItemsOnDisk
    <3>2. CASE f = g
      BY <1>2, <1>3, <1>8, <3>2
    <3> QED BY <1>13, <3>1, <3>2
  <2>2. ItemsOnDisk(F) \subseteq ItemsOnDisk(R)
    <3> SUFFICES ASSUME NEW f \in F, NEW i \in f.items PROVE i \in ItemsOnDisk(R)
      BY DEF ItemsOnDisk
    <3>1. CASE f.start = chunk
      <4>1. i \in g.items /\ g \in R
        BY <1>2, <1>13, <1>17, <3>1
      <4> QED BY <4>1 DEF ItemsOnDisk
    <3>2. CASE f.start # chunk
      BY <1>13, <3>2 DEF ItemsOnDisk
    <3> QED BY <3>1, <3>2
  <2>3. ItemsOnDisk(G) \subseteq ItemsOnDisk(R)
    <3> SUFFICES ASSUME NEW f \in G, NEW i \in f.items PROVE i \in ItemsOnDisk(R)
      BY DEF ItemsOnDisk
    <3>1. CASE f \in R
      BY <3>1 DEF ItemsOnDisk
    <3>2. CASE f \in F
      BY <2>2, <3>2 DEF ItemsOnDisk
    <3> QED BY <1>14, <3>1, <3>2
  <2>4. ItemsOnDisk(R) \subseteq ItemsOnDisk(G)
    BY <1>14 DEF ItemsOnDisk
  <2> QED BY <2>1, <2>2, <2>3, <2>4
<1>19. \A i \in ItemsOnDisk(R) : i.finish <= to /\ i.finish \in Int /\ i.start \in Int
  BY <1>18 DEF ItemsOnDisk, TimedFolder, TimedItems, Timed, Growing
<1>20. ASSUME NEW t \in Int, t0 <= t, t < end, t < to PROVE Holds(R, t)
  <2>1. CASE t < cursor
    <3>1. PICK f \in F : f.start = ChunkStart(t) /\ Spans(f.items, t)
      BY <1>20, <2>1 DEF Growing, Holds
    <3>2. CASE f.start = chunk
      <4>1. Spans(g.items, t)
        BY <1>2, <1>17, <3>1, <3>2 DEF Spans
      <4> QED BY <1>2, <1>13, <3>1, <3>2, <4>1 DEF Holds
    <3>3. CASE f.start # chunk
      BY <1>13, <3>1, <3>3 DEF Holds
    <3> QED BY <3>2, <3>3
  <2>2. CASE cursor <= t
    <3>1. chunk = ChunkStart(t)
      BY <1>1, <1>20, <2>2, OnlyChunk
    <3>2. PICK i \in I : i.start <= t /\ t < i.finish
      BY <1>20, <2>2 DEF Growing, Spans
    <3>3. i.start \in Int /\ i.finish \in Int
      BY DEF TimedItems, Timed
    <3>4. i \in new
      BY <1>1, <1>4, <1>20, <2>2, <3>2, <3>3
    <3>5. Spans(g.items, t)
      BY <1>2, <3>2, <3>4 DEF Spans
    <3> QED BY <1>2, <1>13, <3>1, <3>5 DEF Holds
  <2> QED BY <2>1, <2>2
<1>21. Growing(R, I, t0, end, to)
  <2>1. Apart(ItemsOnDisk(R) \cup I)
    BY <1>18 DEF Growing, Apart
  <2>2. t0 < end /\ t0 <= end /\ t0 <= to
    BY <1>1 DEF Growing
  <2>3. \A f \in R : f.start < ChunkStart(end)
    <3> TAKE f \in R
    <3>1. f.start \in Int
      BY <1>15 DEF TimedFolder, Timed
    <3>2. f.start < chunk \/ f.start = chunk
      BY <1>2, <1>13 DEF Growing, chunk
    <3> QED BY <1>1, <3>1, <3>2
  <2>4. \A t \in Int : end <= t /\ t < to => Spans(I, t)
    BY <1>1 DEF Growing
  <2> QED BY <1>16, <1>19, <1>20, <2>1, <2>2, <2>3, <2>4 DEF Growing
<1>22. OnAir(G, t0)
  <2> SUFFICES ASSUME NEW k \in ItemsOnDisk(R), k.start <= t0, t0 < k.finish PROVE Playable(G, t0)
    BY <1>18 DEF OnAir, Spans
  <2>1. t0 < to /\ t0 < end /\ t0 <= cursor
    BY <1>1, <1>19 DEF Growing
  <2>2. Holds(R, t0)
    BY <1>20, <2>1
  <2>3. Playable(R, t0)
    BY <1>15, <1>16, <2>2, HoldsPlays
  <2>4. ASSUME NEW o \in F, o.start = chunk, o.start <= t0, t0 < o.finish PROVE Spans(o.items, t0)
    <3>1. Timed(o) /\ TimedItems(o.items) /\ Honest(o)
      BY DEF TimedFolder, Growing, Tidy
    <3>2. o.finish <= o.start + ChunkLen
      BY <3>1, HonestName
    <3>3. PICK x \in o.items : o.finish <= x.finish
      BY <3>1, HonestName
    <3>4. x.finish <= cursor /\ x.finish \in Int /\ o.finish \in Int /\ o.start \in Int
      BY <1>1, <2>4, <3>1 DEF Growing, TimedItems, Timed, chunk
    <3>5. t0 < cursor
      BY <2>4, <3>3, <3>4
    <3>6. Holds(F, t0)
      BY <2>1, <3>5 DEF Growing
    <3>7. t0 < o.start + ChunkLen
      BY <1>1, <2>4, <3>2, <3>4
    <3> QED BY <2>4, <3>6, <3>7, HoldsPlays DEF Growing
  <2>5. \A f \in Candidates(G, t0) : f \in Candidates(R, t0) \/ (f \in F /\ f.start = chunk)
    BY <1>14 DEF Candidates
  <2>6. Candidates(R, t0) \subseteq Candidates(G, t0)
    BY <1>14 DEF Candidates
  <2> QED BY <2>3, <2>4, <2>5, <2>6 DEF Playable, Candidates
<1>23. \A f \in G : f \in F \/ f.start = chunk
  BY <1>2, <1>14
<1> QED BY <1>15, <1>18, <1>21, <1>22, <1>23 DEF G, R, g, new, chunk, end

\* A generation that has reached its end has filled the folder.
LEMMA GrownIsFilled ==
    ASSUME NEW F, NEW I, NEW t0, NEW cursor \in Int, NEW to \in Int, to <= cursor,
           Growing(F, I, t0, cursor, to)
    PROVE  Filled(F, t0, to)
<1>1. Apart(ItemsOnDisk(F))
  BY DEF Growing, Apart
<1>2. \A t \in Int : t < to => t < cursor
  OBVIOUS
<1> QED BY <1>1, <1>2 DEF Growing, Filled

\* In the middle of one the item on screen can be read.
LEMMA GrowingPlays ==
    ASSUME NEW F, TimedFolder(F), NEW I, NEW t0 \in Int, NEW cursor \in Int, NEW to \in Int,
           Growing(F, I, t0, cursor, to)
    PROVE  OnAir(F, t0)
<1> SUFFICES ASSUME NEW k \in ItemsOnDisk(F), k.start <= t0, t0 < k.finish PROVE Playable(F, t0)
  BY DEF OnAir, Spans
<1>1. k.finish \in Int
  BY DEF ItemsOnDisk, TimedFolder, TimedItems, Timed
<1>2. t0 < to /\ t0 < cursor
  BY <1>1 DEF Growing
<1> QED BY <1>2, HoldsPlays DEF Growing



-----------------------------------------------------------------------------
(* What goes when a folder is cut or ages *)

\* Once a wipe is done its cut is where the schedule on disk ends, or later.
LEMMA CutIsFrontier ==
    ASSUME NEW F, TimedFolder(F), NEW t0 \in Int, NEW cut \in Int, CutAt(F, t0, cut),
           \A f \in F : f.start < cut, Overrunning(F, cut) = {},
           NEW h \in HighestFinishes(F, cut)
    PROVE  h = cut
<1>1. CASE F = {}
  BY <1>1 DEF HighestFinishes
<1>2. CASE F # {}
  <2>1. PICK l \in LastFiles(F) : h = Max({cut} \cup {f.finish : f \in F} \cup Finishes(l.items))
    BY <1>2 DEF HighestFinishes
  <2> DEFINE S == F \cup l.items
  <2>2. l \in F
    BY DEF LastFiles
  <2>3. TimedItems(S)
    BY <2>2, FS_Union DEF TimedFolder, TimedItems
  <2>4. {cut} \cup {f.finish : f \in F} \cup Finishes(l.items) = {cut} \cup Finishes(S)
    BY DEF Finishes
  <2>5. h \in Int /\ h >= cut /\ (h = cut \/ \E x \in S : h = x.finish)
    <3> HIDE DEF S
    <3>1. h = Max({cut} \cup Finishes(S))
      BY <2>1, <2>4
    <3>2. /\ Max({cut} \cup Finishes(S)) \in Int
          /\ Max({cut} \cup Finishes(S)) >= cut
          /\ Max({cut} \cup Finishes(S)) = cut \/ \E i \in S : Max({cut} \cup Finishes(S)) = i.finish
      BY <2>3, LatestFinish
    <3> QED BY <3>1, <3>2
  <2>6. \A f \in F : \A i \in f.items : i.finish <= cut /\ i.finish \in Int
    <3>1. \A i \in ItemsOnDisk(F) : i.finish <= cut
      BY CutEnds
    <3> QED BY <3>1 DEF ItemsOnDisk, TimedFolder, TimedItems, Timed
  <2>7. \A f \in F : f.finish <= cut
    <3> TAKE f \in F
    <3>1. PICK i \in f.items : f.finish <= i.finish
      BY HonestName DEF CutAt, Tidy, TimedFolder
    <3> QED BY <2>6, <3>1 DEF TimedFolder, Timed
  <2>8. \A x \in S : x.finish <= cut
    BY <2>2, <2>6, <2>7
  <2> HIDE DEF S
  <2> QED BY <2>5, <2>8
<1> QED BY <1>1, <1>2

\* Where a cut behind the item on screen takes anything, an item starts at the cut.
LEMMA CutsAtStart ==
    ASSUME NEW F, TimedFolder(F), NEW t \in Int, Sound(F, t),
           NEW i \in ItemsOnDisk(F), i.start >= t, i.start >= AiringFinish(F, t)
    PROVE  \E k \in ItemsOnDisk(F) : k.start = AiringFinish(F, t) /\ k.start > t
<1> DEFINE cut == AiringFinish(F, t)
<1>1. cut \in Int /\ cut >= t
  BY CutsAfterAiring
<1>2. CutAt(F, t, cut)
  BY CutsBehindScreen
<1>3. \A j \in ItemsOnDisk(F) : j.start \in Int /\ j.finish \in Int /\ j.start < j.finish
  BY DEF ItemsOnDisk, TimedFolder, TimedItems, Timed, Sound, Tidy
<1> HIDE DEF cut
<1>4. cut < i.finish
  BY <1>1, <1>3 DEF cut
<1>5. PICK f \in F : f.start = ChunkStart(cut) /\ Spans(f.items, cut)
  BY <1>1, <1>4 DEF Sound, Holds
<1>6. PICK k \in f.items : k.start <= cut /\ cut < k.finish
  BY <1>5 DEF Spans
<1>7. k \in ItemsOnDisk(F)
  BY DEF ItemsOnDisk
<1>8. k.start >= cut /\ k.start > t
  BY <1>1, <1>2, <1>3, <1>6, <1>7 DEF CutAt
<1> QED BY <1>1, <1>3, <1>6, <1>7, <1>8 DEF cut

\* What the sweep at the near end takes has started before all that it leaves.
LEMMA AgesInOrder ==
    ASSUME NEW F, TimedFolder(F), NEW t0 \in Int, Sound(F, t0), NEW cutoff \in Int,
           NEW i \in ItemsOnDisk(F), i \notin ItemsOnDisk(F \ Elapsed(F, cutoff))
    PROVE  /\ i.start < cutoff
           /\ \A j \in ItemsOnDisk(F \ Elapsed(F, cutoff)) : i.start < j.start
<1>1. PICK f \in F : i \in f.items
  BY DEF ItemsOnDisk
<1>2. f \in Elapsed(F, cutoff)
  BY <1>1 DEF ItemsOnDisk
<1>3. /\ f.start \in Int /\ f.finish \in Int /\ f.finish < cutoff /\ ChunkLen \in Nat
      /\ i.start \in Int /\ i.finish \in Int /\ i.start < i.finish
  BY <1>1, <1>2, ChunkLenAssumption
     DEF Elapsed, TimedFolder, TimedItems, Timed, Sound, Tidy
<1>4. i.start < f.start + ChunkLen
  BY <1>1 DEF Sound, Tidy, Meets
<1>5. i.start < cutoff
  <2>1. i.finish <= f.finish \/ f.finish = f.start + ChunkLen
    BY <1>1, HonestName DEF TimedFolder, Sound, Tidy
  <2> QED BY <1>3, <1>4, <2>1
<1>6. ASSUME NEW j \in ItemsOnDisk(F \ Elapsed(F, cutoff)) PROVE i.start < j.start
  <2>1. PICK g \in F : j \in g.items /\ g \notin Elapsed(F, cutoff)
    BY DEF ItemsOnDisk
  <2>2. /\ g.start \in Int /\ g.finish \in Int /\ j.start \in Int /\ j.finish \in Int
        /\ j.finish > g.start /\ ChunkStart(g.start) = g.start /\ ChunkStart(f.start) = f.start
        /\ g.finish <= g.start + ChunkLen /\ f.start < f.finish
    BY <2>1, HonestName DEF TimedFolder, TimedItems, Timed, Sound, Tidy, Honest, Meets
  <2>3. ~ g.finish < cutoff
    BY <2>1 DEF Elapsed
  <2>4. f # g
    BY <1>2, <2>1
  <2>5. f.start # g.start
    BY <2>4 DEF Sound, Tidy
  <2>6. ~ g.start < f.start
    <3> SUFFICES ASSUME g.start < f.start PROVE FALSE
      OBVIOUS
    <3>1. g.start + ChunkLen <= f.start
      BY <1>3, <2>2, BoundariesApart
    <3> QED BY <1>3, <2>2, <2>3, <3>1
  <2>7. f.start + ChunkLen <= g.start
    BY <1>3, <2>2, <2>5, <2>6, BoundariesApart
  <2>8. i = j \/ i.finish <= j.start \/ j.finish <= i.start
    <3>1. j \in ItemsOnDisk(F)
      BY <2>1 DEF ItemsOnDisk
    <3> QED BY <3>1 DEF Sound, Apart
  <2>9. i # j
    OBVIOUS
  <2> QED BY <1>3, <1>4, <2>2, <2>7, <2>8, <2>9
<1> QED BY <1>5, <1>6

-----------------------------------------------------------------------------
(* The endless list *)

\* Every title of the endless list takes time: the airtime of the first q of
\* them grows with q.
LEMMA AirtimeGrows ==
    ASSUME NEW p \in Nat, NEW q \in Nat, p < q
    PROVE  Airtime(p) \in Nat /\ Airtime(q) \in Nat /\ Airtime(p) < Airtime(q)
<1> DEFINE T  == At[ListLen]
           dp == p \div ListLen
           mp == p % ListLen
           dq == q \div ListLen
           mq == q % ListLen
<1>1. ListLen \in Nat /\ ListLen > 0 /\ At \in [0 .. ListLen -> Nat]
  BY ListAssumption
<1>2. /\ dp \in Nat /\ mp \in 0 .. ListLen - 1 /\ p = ListLen * dp + mp
      /\ dq \in Nat /\ mq \in 0 .. ListLen - 1 /\ q = ListLen * dq + mq
  BY <1>1
<1>3. At[mp] \in Nat /\ At[mq] \in Nat /\ T \in Nat /\ At[mp] < T
  BY <1>1, <1>2, ListAssumption
<1>4. Airtime(p) = dp * T + At[mp] /\ Airtime(q) = dq * T + At[mq]
  BY DEF Airtime
<1>5. dp * T \in Nat /\ dq * T \in Nat
  BY <1>2, <1>3
<1>6. CASE dp = dq
  <2>1. mp < mq
    BY <1>1, <1>2, <1>6
  <2>2. At[mp] < At[mq]
    BY <1>1, <1>2, <2>1, ListAssumption
  <2> QED BY <1>3, <1>4, <1>5, <1>6, <2>2
<1>7. CASE dp # dq
  <2>1. dq >= dp + 1
    <3>1. CASE dq < dp
      <4>1. ListLen * dp >= ListLen * dq + ListLen
        <5>1. dp >= dq + 1
          BY <1>2, <3>1
        <5>2. ListLen * dp >= ListLen * (dq + 1)
          BY <1>1, <1>2, <5>1
        <5> QED BY <1>1, <1>2, <5>2
      <4> QED BY <1>1, <1>2, <4>1
    <3> QED BY <1>2, <1>7, <3>1
  <2>2. dq * T >= (dp + 1) * T
    BY <1>2, <1>3, <2>1
  <2>3. (dp + 1) * T = dp * T + T
    BY <1>2, <1>3
  <2> HIDE DEF dp, dq, mp, mq, T
  <2> QED BY <1>2, <1>3, <1>4, <1>5, <2>2, <2>3
<1> QED BY <1>3, <1>4, <1>5, <1>6, <1>7

\* A place in the endless list is a place in the list.
LEMMA Folded ==
    ASSUME NEW q \in Nat
    PROVE  Title(q) \in Titles
BY ListAssumption DEF Title, Titles

-----------------------------------------------------------------------------
(* One generation *)

\* Joining the list at an anchor skips fewer items than the generation has, and
\* joins the next one before its end.
LEMMA JoinsInside ==
    ASSUME NEW p \in Nat, NEW n \in Nat \ {0}, NEW t \in Int
    PROVE  /\ PhaseAt(p, n, t).skip \in 0 .. n - 1
           /\ PhaseAt(p, n, t).into \in Nat
           /\ PhaseAt(p, n, t).into < Airtime(p + PhaseAt(p, n, t).skip + 1)
                                       - Airtime(p + PhaseAt(p, n, t).skip)
<1> DEFINE lapsed(j) == Airtime(p + j) - Airtime(p)
           rest      == (t - Anchor) % lapsed(n)
           Passed    == {j \in 0 .. n - 1 : lapsed(j) <= rest}
           k         == Max({0} \cup Passed)
<1>1. \A j \in 0 .. n : Airtime(p + j) \in Nat /\ Airtime(p + j + 1) > Airtime(p + j)
  <2> TAKE j \in 0 .. n
  <2>1. p + j \in Nat /\ p + j + 1 \in Nat /\ p + j < p + j + 1
    OBVIOUS
  <2> QED BY <2>1, AirtimeGrows
<1>2. Airtime(p) \in Nat /\ lapsed(n) \in Nat /\ lapsed(n) > 0 /\ lapsed(0) = 0
  <2>1. p + n \in Nat /\ p < p + n /\ p + 0 = p
    OBVIOUS
  <2> QED BY <2>1, AirtimeGrows
<1>3. CASE t <= Anchor
  <2>1. PhaseAt(p, n, t) = [skip |-> 0, into |-> 0]
    BY <1>3 DEF PhaseAt
  <2>2. p + 0 = p /\ Airtime(p + 0 + 1) > Airtime(p + 0) /\ Airtime(p + 0) \in Nat /\ Airtime(p + 0 + 1) \in Nat
    <3>1. p + 0 \in Nat /\ p + 0 + 1 \in Nat /\ p + 0 < p + 0 + 1
      OBVIOUS
    <3> QED BY <3>1, AirtimeGrows
  <2> QED BY <2>1, <2>2
<1>4. CASE t > Anchor
  <2>1. rest \in Nat /\ rest < lapsed(n)
    <3>1. t - Anchor \in Nat
      BY <1>4, PassAssumption
    <3> HIDE DEF lapsed
    <3> QED BY <1>2, <3>1
  <2>2. k \in {0} \cup Passed /\ \A j \in {0} \cup Passed : k >= j
    <3>1. IsFiniteSet({0} \cup Passed)
      <4>1. IsFiniteSet(0 .. n - 1)
        BY FS_Interval
      <4>2. IsFiniteSet(Passed)
        BY <4>1, FS_Subset
      <4> QED BY <4>2, FS_Singleton, FS_Union
    <3>2. {0} \cup Passed \in SUBSET Int /\ {0} \cup Passed # {}
      OBVIOUS
    <3> HIDE DEF Passed
    <3> QED BY <3>1, <3>2, MaxExists
  <2>3. k \in 0 .. n - 1 /\ lapsed(k) <= rest
    <3>1. 0 \in 0 .. n - 1 /\ lapsed(0) <= rest
      BY <1>2, <2>1
    <3> QED BY <2>2, <3>1
  <2>4. rest < lapsed(k + 1)
    <3>1. CASE k + 1 = n
      BY <2>1, <3>1
    <3>2. CASE k + 1 # n
      <4>1. k + 1 \in 0 .. n - 1 /\ ~ (k + 1 \in Passed)
        BY <2>2, <2>3, <3>2
      <4>2. lapsed(k + 1) \in Int
        <5>1. k + 1 \in 0 .. n
          BY <4>1
        <5> HIDE DEF k
        <5>2. Airtime(p + (k + 1)) \in Nat
          BY <1>1, <5>1
        <5> QED BY <1>2, <5>2
      <4> HIDE DEF lapsed, rest
      <4> QED BY <2>1, <4>1, <4>2
    <3> QED BY <3>1, <3>2
  <2>5. PhaseAt(p, n, t) = [skip |-> k, into |-> rest - lapsed(k)]
    <3>1. ~ (t <= Anchor)
      BY <1>4, PassAssumption
    <3> QED BY <3>1, Zenon DEF PhaseAt
  <2>6. /\ Airtime(p + k) \in Nat /\ Airtime(p + k + 1) \in Nat /\ Airtime(p) \in Nat
        /\ lapsed(k + 1) = Airtime(p + k + 1) - Airtime(p)
        /\ lapsed(k) = Airtime(p + k) - Airtime(p)
    <3>1. p + (k + 1) = p + k + 1 /\ k \in 0 .. n /\ k + 1 \in 0 .. n
      BY <2>3
    <3> QED BY <1>1, <1>2, <3>1
  <2> HIDE DEF lapsed, rest, k
  <2> QED BY <2>1, <2>3, <2>4, <2>5, <2>6
<1> QED BY <1>3, <1>4, PassAssumption

GenType == [items : SUBSET Item, rows : SUBSET Rows, trail : SUBSET Trail,
            cursor : Int, to : Int, pos : Titles]

\* A generation is finitely many items, each of which takes time and finishes by
\* the end of the generation.
LEMMA LaysItems ==
    ASSUME NEW p \in Nat, NEW n \in Nat \ {0}, NEW from \in Int,
           NEW skip \in 0 .. n - 1, NEW into \in Nat,
           seen \in Nat, IsFiniteSet(lost)
    PROVE  LET g == Laid(p, n, from, [skip |-> skip, into |-> into]) IN
           /\ g \in GenType
           /\ IsFiniteSet(g.items) /\ IsFiniteSet(g.trail)
           /\ g.cursor = from
           /\ \A i \in g.items : i.start < i.finish /\ i.finish <= g.to
<1> DEFINE first    == p + skip
           start(q) == from - into + (Airtime(q) - Airtime(first))
           item(q)  == [start |-> start(q), finish |-> start(q + 1), pos |-> Title(q),
                        config |-> seen, edition |-> Edition]
           mark(k)  == [start |-> start(first + k), pos |-> Title(first + k), nth |-> k]
           row(q)   == [start |-> from + (Airtime(q) - Airtime(p)), pos |-> Title(q)]
           Qs       == first .. p + n - 1
           Ks       == 1 .. n - 1 - skip
           g        == Laid(p, n, from, [skip |-> skip, into |-> into])
<1>1. first \in Nat /\ first <= p + n - 1 /\ Qs \subseteq Nat /\ p .. p + n - 1 \subseteq Nat /\ p + n \in Nat
  OBVIOUS
<1>2. \A q \in Nat : Airtime(q) \in Nat
  <2> TAKE q \in Nat
  <2>1. q + 1 \in Nat /\ q < q + 1
    OBVIOUS
  <2> QED BY <2>1, AirtimeGrows
<1>3. \A q \in Nat : start(q) \in Int
  BY <1>1, <1>2
<1>4. Edition \in Nat
  BY FS_CardinalityType DEF Edition
<1>5. \A q \in Qs : item(q) \in Item
  BY <1>1, <1>3, <1>4, Folded DEF Item
<1>6. \A k \in Ks : mark(k) \in Trail
  <2> TAKE k \in Ks
  <2>1. first + k \in Nat /\ k \in Nat
    BY <1>1
  <2>2. start(first + k) \in Int /\ Title(first + k) \in Titles
    <3> HIDE DEF start, first
    <3> QED BY <1>3, <2>1, Folded
  <2> HIDE DEF start, first
  <2> QED BY <2>1, <2>2 DEF Trail
<1>7. \A q \in p .. p + n - 1 : row(q) \in Rows
  BY <1>1, <1>2, Folded DEF Rows
<1>8. /\ g.items = {item(q) : q \in Qs}
      /\ g.rows = {row(q) : q \in p .. p + n - 1}
      /\ g.trail = IF Cursor = "position" THEN {mark(k) : k \in Ks} ELSE {}
      /\ g.cursor = from /\ g.to = start(p + n)
      /\ g.pos = IF Cursor = "position" THEN Title(p + n) ELSE 0
      /\ g = [items |-> g.items, rows |-> g.rows, trail |-> g.trail,
              cursor |-> g.cursor, to |-> g.to, pos |-> g.pos]
  BY DEF Laid
<1>9. g \in GenType
  <2>1. g.items \in SUBSET Item
    <3> HIDE DEF g, item, Qs
    <3> QED BY <1>5, <1>8
  <2>2. g.rows \in SUBSET Rows
    <3> HIDE DEF g, row
    <3> QED BY <1>7, <1>8
  <2>3. g.trail \in SUBSET Trail
    <3> HIDE DEF g, mark, Ks
    <3> QED BY <1>6, <1>8
  <2>4. g.cursor \in Int /\ g.to \in Int
    <3> HIDE DEF g, start
    <3> QED BY <1>1, <1>3, <1>8
  <2>5. g.pos \in Titles
    <3>1. 0 \in Titles
      BY ListAssumption DEF Titles
    <3> HIDE DEF g
    <3> QED BY <1>1, <1>8, <3>1, Folded
  <2> HIDE DEF g
  <2> QED BY <1>8, <2>1, <2>2, <2>3, <2>4, <2>5 DEF GenType
<1>10. IsFiniteSet(g.items) /\ IsFiniteSet(g.trail)
  <2> DEFINE onItem == [q \in Qs |-> item(q)]
             onMark == [k \in Ks |-> mark(k)]
  <2>1. IsFiniteSet(Qs) /\ IsFiniteSet(Ks)
    BY <1>1, FS_Interval
  <2>2. onItem \in Surjection(Qs, {item(q) : q \in Qs})
    BY DEF Surjection
  <2>3. onMark \in Surjection(Ks, {mark(k) : k \in Ks})
    BY DEF Surjection
  <2>4. IsFiniteSet({item(q) : q \in Qs})
    <3> HIDE DEF onItem, Qs, item
    <3> QED BY <2>1, <2>2, FS_Surjection
  <2>5. IsFiniteSet({mark(k) : k \in Ks})
    <3> HIDE DEF onMark, Ks, mark
    <3> QED BY <2>1, <2>3, FS_Surjection
  <2> HIDE DEF g, item, mark, Qs, Ks
  <2> QED BY <1>8, <2>4, <2>5, FS_EmptySet
<1>11. ASSUME NEW i \in g.items PROVE i.start < i.finish /\ i.finish <= g.to
  <2>1. PICK q \in Qs : i = item(q)
    <3> HIDE DEF g, item, Qs
    <3> QED BY <1>8
  <2>2. q \in Nat /\ q + 1 \in Nat /\ q < q + 1 /\ q + 1 <= p + n
    BY <1>1
  <2>3. Airtime(q) < Airtime(q + 1) /\ Airtime(q + 1) <= Airtime(p + n)
    BY <1>1, <1>2, <2>2, AirtimeGrows
  <2>4. i.start = start(q) /\ i.finish = start(q + 1) /\ g.to = start(p + n)
    BY <1>8, <2>1
  <2>5. Airtime(first) \in Nat /\ Airtime(q) \in Nat /\ Airtime(q + 1) \in Nat /\ Airtime(p + n) \in Nat
    BY <1>1, <1>2, <2>2
  <2> HIDE DEF g, first
  <2> QED BY <2>3, <2>4, <2>5
<1> HIDE DEF g
<1> QED BY <1>8, <1>9, <1>10, <1>11 DEF g

\* Nothing of a generation has finished when it starts.
LEMMA StartsOnAir ==
    ASSUME NEW p \in Nat, NEW n \in Nat \ {0}, NEW from \in Int,
           NEW skip \in 0 .. n - 1, NEW into \in Nat,
           into < Airtime(p + skip + 1) - Airtime(p + skip)
    PROVE  \A i \in Laid(p, n, from, [skip |-> skip, into |-> into]).items : i.finish > from
<1> DEFINE first    == p + skip
           start(q) == from - into + (Airtime(q) - Airtime(first))
           items    == Laid(p, n, from, [skip |-> skip, into |-> into]).items
<1> SUFFICES ASSUME NEW i \in items PROVE i.finish > from
  OBVIOUS
<1>1. PICK q \in first .. p + n - 1 : i.finish = start(q + 1)
  BY DEF Laid
<1>2. first \in Nat /\ first + 1 \in Nat /\ q \in Nat /\ q + 1 \in Nat /\ first < first + 1 /\ q + 1 >= first + 1
  OBVIOUS
<1>3. /\ Airtime(first) \in Nat /\ Airtime(first + 1) \in Nat /\ Airtime(q + 1) \in Nat
      /\ Airtime(q + 1) >= Airtime(first + 1)
  <2>1. q + 1 + 1 \in Nat /\ q + 1 < q + 1 + 1
    BY <1>2
  <2> QED BY <1>2, <2>1, AirtimeGrows
<1> QED BY <1>1, <1>3

\* A channel that joins nothing mid-way records the airings it lays.
LEMMA RecordsWhatItLays ==
    ASSUME NEW p \in Nat, NEW n \in Nat \ {0}, NEW from \in Int
    PROVE  LET g == Laid(p, n, from, [skip |-> 0, into |-> 0]) IN
           \A r \in g.rows : \E i \in g.items : r = Row(i)
<1> DEFINE g        == Laid(p, n, from, [skip |-> 0, into |-> 0])
           start(q) == from - 0 + (Airtime(q) - Airtime(p + 0))
           item(q)  == [start |-> start(q), finish |-> start(q + 1), pos |-> Title(q),
                        config |-> seen, edition |-> Edition]
<1>1. /\ g.items = {item(q) : q \in p + 0 .. p + n - 1}
      /\ g.rows = {[start |-> from + (Airtime(q) - Airtime(p)), pos |-> Title(q)] :
                       q \in p .. p + n - 1}
  BY DEF Laid
<1>2. ASSUME NEW q \in p .. p + n - 1
      PROVE  /\ item(q) \in g.items
             /\ Row(item(q)) = [start |-> from + (Airtime(q) - Airtime(p)), pos |-> Title(q)]
  <2>1. q \in p + 0 .. p + n - 1 /\ p + 0 = p /\ from - 0 = from
    OBVIOUS
  <2>2. Row(item(q)) = [start |-> start(q), pos |-> Title(q)]
    BY DEF Row
  <2> HIDE DEF g
  <2> QED BY <1>1, <2>1, <2>2
<1> SUFFICES ASSUME NEW r \in g.rows PROVE \E i \in g.items : r = Row(i)
  OBVIOUS
<1>3. PICK q \in p .. p + n - 1 : r = [start |-> from + (Airtime(q) - Airtime(p)), pos |-> Title(q)]
  BY <1>1
<1> HIDE DEF g, item
<1> QED BY <1>2, <1>3

-----------------------------------------------------------------------------
(* The resume map *)

FiniteMap(m) == m \in Map /\ IsFiniteSet(m.checkpoints)

\* The trail's last place is its greatest.
LEMMA TrailEnds ==
    ASSUME NEW T \in SUBSET Trail, IsFiniteSet(T)
    PROVE  LastNth(T) \in Nat /\ \A c \in T : c.nth <= LastNth(T)
<1> DEFINE nths == {c.nth : c \in T}
           f    == [c \in T |-> c.nth]
<1>1. f \in Surjection(T, nths)
  BY DEF Surjection
<1>2. IsFiniteSet(nths)
  <2> HIDE DEF f, nths
  <2> QED BY <1>1, FS_Surjection
<1>3. IsFiniteSet({0} \cup nths)
  <2> HIDE DEF nths
  <2> QED BY <1>2, FS_Singleton, FS_Union
<1>4. {0} \cup nths \in SUBSET Int /\ {0} \cup nths # {} /\ {0} \cup nths \subseteq Nat
  BY DEF Trail
<1>5. LastNth(T) \in {0} \cup nths /\ \A x \in {0} \cup nths : LastNth(T) >= x
  <2>1. LastNth(T) = Max({0} \cup nths)
    BY DEF LastNth
  <2> HIDE DEF nths
  <2> QED BY <1>3, <1>4, <2>1, MaxExists
<1>6. \A c \in T : c.nth \in nths /\ c.nth \in Nat
  BY DEF Trail
<1> HIDE DEF nths
<1> QED BY <1>4, <1>5, <1>6

\* A trail with a checkpoint in it has a last one.
LEMMA TrailHasLast ==
    ASSUME NEW T \in SUBSET Trail, IsFiniteSet(T), T # {}
    PROVE  \E c \in T : \A d \in T : d.nth <= c.nth
<1> DEFINE nths == {c.nth : c \in T}
           f    == [c \in T |-> c.nth]
<1>1. f \in Surjection(T, nths)
  BY DEF Surjection
<1>2. IsFiniteSet(nths) /\ nths # {} /\ nths \in SUBSET Int
  <2>1. IsFiniteSet(nths)
    <3> HIDE DEF nths, f
    <3> QED BY <1>1, FS_Surjection
  <2> QED BY <2>1 DEF Trail
<1>3. Max(nths) \in nths /\ \A x \in nths : Max(nths) >= x
  <2> HIDE DEF nths
  <2> QED BY <1>2, MaxExists
<1>4. PICK c \in T : c.nth = Max(nths)
  BY <1>3
<1>5. \A d \in T : d.nth \in nths
  OBVIOUS
<1> HIDE DEF nths
<1> QED BY <1>3, <1>4, <1>5

\* Every operation keeps a map a map.
LEMMA CheckpointedIsMap ==
    ASSUME NEW m, FiniteMap(m), NEW start \in Int
    PROVE  FiniteMap(Checkpointed(m, start))
<1> DEFINE c == [start |-> start, pos |-> m.pos, nth |-> LastNth(m.checkpoints) + 1]
<1>1. m \in [pos : Titles, checkpoints : SUBSET Trail, config : Nat]
  BY DEF FiniteMap, Map
<1>2. LastNth(m.checkpoints) \in Nat
  BY <1>1, TrailEnds DEF FiniteMap
<1>3. c \in Trail
  BY <1>1, <1>2 DEF Trail
<1>4. Checkpointed(m, start) = [m EXCEPT !.checkpoints = m.checkpoints \cup {c}]
  BY DEF Checkpointed
<1>5. IsFiniteSet(m.checkpoints \cup {c})
  BY FS_AddElement DEF FiniteMap
<1> HIDE DEF c
<1> QED BY <1>1, <1>3, <1>4, <1>5 DEF FiniteMap, Map

LEMMA RewoundIsMap ==
    ASSUME NEW m, FiniteMap(m), NEW instant \in Int
    PROVE  FiniteMap(Rewound(m, instant))
<1> DEFINE early == {c \in m.checkpoints : c.start <= instant}
           back  == CHOOSE c \in early : \A d \in early : d.nth <= c.nth
           left  == {c \in m.checkpoints : c.nth < back.nth}
<1>1. m \in [pos : Titles, checkpoints : SUBSET Trail, config : Nat]
  BY DEF FiniteMap, Map
<1>2. CASE early = {}
  BY <1>2 DEF Rewound
<1>3. CASE early # {}
  <2>1. early \in SUBSET Trail /\ IsFiniteSet(early)
    BY <1>1, FS_Subset DEF FiniteMap
  <2>5. \E c \in early : \A d \in early : d.nth <= c.nth
    <3> HIDE DEF early
    <3> QED BY <1>3, <2>1, TrailHasLast
  <2>6. back \in early
    <3> HIDE DEF early
    <3> QED BY <2>5
  <2>7. back.pos \in Titles
    BY <1>1, <2>6 DEF Trail
  <2>8. Rewound(m, instant) = [m EXCEPT !.pos = back.pos, !.checkpoints = left]
    BY <1>3 DEF Rewound
  <2>9. left \in SUBSET m.checkpoints /\ IsFiniteSet(left)
    <3>1. left \in SUBSET m.checkpoints
      OBVIOUS
    <3> HIDE DEF left
    <3> QED BY <3>1, FS_Subset DEF FiniteMap
  <2> HIDE DEF left, back
  <2> QED BY <1>1, <2>7, <2>8, <2>9 DEF FiniteMap, Map
<1> QED BY <1>2, <1>3

LEMMA AdoptedIsMap ==
    ASSUME NEW m, FiniteMap(m), NEW pos \in Titles, NEW T \in SUBSET Trail,
           IsFiniteSet(T), NEW at \in Nat
    PROVE  FiniteMap(Adopted(m, pos, T, at))
<1> DEFINE before == LastNth(m.checkpoints)
           moved(c) == [c EXCEPT !.nth = before + c.nth]
           added  == {moved(c) : c \in T}
           kept   == {c \in m.checkpoints \cup added : c.start > at}
           f      == [c \in T |-> moved(c)]
<1>1. m \in [pos : Titles, checkpoints : SUBSET Trail, config : Nat]
  BY DEF FiniteMap, Map
<1>2. before \in Nat
  BY <1>1, TrailEnds DEF FiniteMap
<1>3. \A c \in T : moved(c) \in Trail
  <2> HIDE DEF before
  <2> QED BY <1>2 DEF Trail
<1>4. f \in Surjection(T, added)
  BY DEF Surjection
<1>5. IsFiniteSet(added) /\ added \in SUBSET Trail
  <2>1. IsFiniteSet(added)
    <3> HIDE DEF added, f
    <3> QED BY <1>4, FS_Surjection
  <2>2. added \in SUBSET Trail
    <3> HIDE DEF moved
    <3> QED BY <1>3
  <2> QED BY <2>1, <2>2
<1>6. IsFiniteSet(m.checkpoints \cup added)
  <2> HIDE DEF added
  <2> QED BY <1>5, FS_Union DEF FiniteMap
<1>7. kept \in SUBSET (m.checkpoints \cup added) /\ kept \in SUBSET Trail
  <2> HIDE DEF added
  <2> QED BY <1>1, <1>5
<1>8. IsFiniteSet(kept)
  <2> HIDE DEF kept, added
  <2> QED BY <1>6, <1>7, FS_Subset
<1>9. Adopted(m, pos, T, at) = [m EXCEPT !.pos = pos, !.checkpoints = kept]
  BY DEF Adopted
<1> HIDE DEF kept
<1> QED BY <1>1, <1>7, <1>8, <1>9 DEF FiniteMap, Map

-----------------------------------------------------------------------------
(* The inductive invariant *)

\* Everything a pass takes the latest, the last or the number of is finite.
Finite ==
    /\ IsFiniteSet(lost)
    /\ IsFiniteSet(files) /\ \A f \in files : IsFiniteSet(f.items)
    /\ IsFiniteSet(sidecar.checkpoints)
    /\ IsFiniteSet(resume.checkpoints)
    /\ IsFiniteSet(work.checkpoints)
    /\ IsFiniteSet(gen.items) /\ IsFiniteSet(gen.trail)

\* The steps of a wipe know which one it is.
WipeHasJob == pc \in WipeSteps => wipe.job \in Jobs

\* There is a generation only while it is being laid, its items take time and
\* all of them finish by its end.
Laying ==
    /\ pc \notin WriteSteps => gen = NoGen
    /\ \A i \in gen.items : i.start < i.finish /\ i.finish <= gen.to

IInv == TypeOK /\ Finite /\ WipeHasJob /\ Laying /\ GenerationOnDisk

\* What the operators on folders ask for.
LEMMA FolderIsTimed ==
    ASSUME TypeOK, Finite
    PROVE  TimedFolder(files) /\ TimedItems(gen.items)
BY DEF TypeOK, DiskOK, MemoryOK, Finite, TimedFolder, TimedItems, Timed, File, Item

\* A step outside the writing of a generation has nothing of it to lose.
LEMMA NothingLaid ==
    ASSUME gen' = NoGen, pc' \notin {"write", "tidy"}
    PROVE  Laying' /\ GenerationOnDisk'
<1>1. gen'.items = {}
  BY DEF NoGen
<1> QED BY <1>1 DEF Laying, GenerationOnDisk

\* A wipe that starts has a job and a cut.
LEMMA WipeStarts ==
    ASSUME NEW job \in Jobs, NEW cut \in Int, StartWipe(job, cut)
    PROVE  /\ wipe' \in [job : Jobs \cup {"none"}, cut : Int, doomed : SUBSET File]
           /\ wipe'.job \in Jobs /\ pc' = "wipe"
BY DEF StartWipe

\* A pass that begins knows when.
LEMMA PassBegins ==
    ASSUME NEW phase \in {"startup", "roll"}, NEW at \in Nat
    PROVE  [NoPass EXCEPT !.phase = phase, !.at = at]
               \in [phase : {"startup", "roll"}, at : Nat, from : Int,
                    generations : Nat, fresh : BOOLEAN]
<1>1. NoPass \in [phase : {"startup", "roll"}, at : Nat, from : Int,
                  generations : Nat, fresh : BOOLEAN]
  BY DEF NoPass
<1> QED BY <1>1

LEMMA StartsWell ==
    ASSUME IInv, Start
    PROVE  IInv'
<1> USE DEF IInv
<1>1. AiringFinish(files, now) \in Int
  BY FolderIsTimed, CutsAfterAiring DEF TypeOK, WorldOK
<1>2. gen' = NoGen /\ pc' \in {"wipe", "config"} /\ gen = NoGen
  BY DEF Start, StartWipe, Laying, WriteSteps
<1>3. WorldOK' /\ DiskOK'
  BY DEF Start, TypeOK, WorldOK, DiskOK, disk
<1>4. /\ wipe' \in [job : Jobs \cup {"none"}, cut : Int, doomed : SUBSET File]
      /\ WipeHasJob'
  BY <1>1 DEF Start, StartWipe, TypeOK, MemoryOK, WipeHasJob, WipeSteps, Jobs
<1>5. MemoryOK'
  BY <1>4, PassBegins DEF Start, TypeOK, WorldOK, MemoryOK, DiskOK
<1>6. TypeOK'
  BY <1>2, <1>3, <1>5 DEF TypeOK, Steps, WipeSteps
<1>7. Finite'
  BY DEF Finite, Start, disk
<1> QED BY <1>2, <1>4, <1>6, <1>7, NothingLaid

LEMMA AdoptsConfigWell ==
    ASSUME IInv, AdoptConfig
    PROVE  IInv'
<1> USE DEF IInv
<1>1. gen' = NoGen /\ pc' = "repair"
  BY DEF AdoptConfig, Laying, WriteSteps
<1>2. resume' \in Map /\ resume'.checkpoints = resume.checkpoints
  BY DEF AdoptConfig, TypeOK, MemoryOK, Map
<1>3. sidecar' \in Map /\ sidecar'.checkpoints \in {sidecar.checkpoints, resume.checkpoints}
  BY <1>2 DEF AdoptConfig, TypeOK, DiskOK
<1>4. TypeOK'
  BY <1>1, <1>2, <1>3 DEF AdoptConfig, TypeOK, WorldOK, DiskOK, MemoryOK, world, Steps
<1>5. Finite'
  BY <1>2, <1>3 DEF Finite, AdoptConfig, world
<1> QED BY <1>1, <1>4, <1>5, NothingLaid DEF WipeHasJob, WipeSteps

LEMMA RepairsWell ==
    ASSUME IInv, Repair
    PROVE  IInv'
<1> USE DEF IInv
<1>1. gen' = NoGen /\ pc' \in {"wipe", "sweep"}
  BY DEF Repair, StartWipe, Laying, WriteSteps
<1>2. \A i \in ItemsOnDisk(files) : i.start \in Int
  BY FolderIsTimed DEF ItemsOnDisk, TimedFolder, TimedItems, Timed
<1>3. /\ wipe' \in [job : Jobs \cup {"none"}, cut : Int, doomed : SUBSET File]
      /\ WipeHasJob'
  BY <1>2 DEF Repair, StartWipe, TypeOK, MemoryOK, WipeHasJob, WipeSteps, Jobs
<1>4. TypeOK'
  BY <1>1, <1>3 DEF Repair, TypeOK, WorldOK, DiskOK, MemoryOK, world, disk, Steps, WipeSteps
<1>5. Finite'
  BY DEF Finite, Repair, world, disk
<1> QED BY <1>1, <1>3, <1>4, <1>5, NothingLaid

\* Files taken away leave a folder a folder.
LEMMA FewerFiles ==
    ASSUME TypeOK, Finite, NEW G, files' = files \ G
    PROVE  /\ files' \subseteq File /\ IsFiniteSet(files')
           /\ \A f \in files' : IsFiniteSet(f.items)
<1>1. files' \in SUBSET files
  OBVIOUS
<1> QED BY <1>1, FS_Subset DEF TypeOK, DiskOK, Finite

LEMMA RemovesFileWell ==
    ASSUME IInv, RemoveFile
    PROVE  IInv'
<1> USE DEF IInv
<1>1. gen' = NoGen /\ pc' = pc /\ pc = "wipe"
  BY DEF RemoveFile, memory, Laying, WriteSteps
<1>2. files' \subseteq File /\ IsFiniteSet(files') /\ \A f \in files' : IsFiniteSet(f.items)
  <2>1. PICK G : files' = files \ G
    BY DEF RemoveFile
  <2> QED BY <2>1, FewerFiles
<1>3. TypeOK'
  BY <1>1, <1>2 DEF RemoveFile, TypeOK, WorldOK, DiskOK, MemoryOK, world, memory
<1>4. Finite'
  BY <1>2 DEF RemoveFile, Finite, world, memory
<1>5. WipeHasJob'
  BY DEF RemoveFile, WipeHasJob, memory
<1> QED BY <1>1, <1>3, <1>4, <1>5, NothingLaid

LEMMA TruncatesFileWell ==
    ASSUME IInv, TruncateFile
    PROVE  IInv'
<1> USE DEF IInv
<1>1. gen' = NoGen /\ pc' \in {"wipe", "unlink"} /\ pc = "wipe"
  BY DEF TruncateFile, Laying, WriteSteps
<1>2. PICK f \in Overrunning(files, wipe.cut) :
        IF \A i \in f.items : i.finish > wipe.cut
        THEN files' = files \ {f} /\ UNCHANGED <<wipe, pc>>
        ELSE /\ files' = Put(files, Truncated(f, wipe.cut))
             /\ wipe' = [wipe EXCEPT !.doomed = {f}]
             /\ pc' = "unlink"
  BY DEF TruncateFile
<1>3. f \in files /\ f \in File /\ Timed(f) /\ TimedItems(f.items) /\ wipe.cut \in Int
  BY FolderIsTimed DEF Overrunning, TimedFolder, TypeOK, DiskOK, MemoryOK
<1>4. /\ files' \subseteq File /\ IsFiniteSet(files') /\ \A g \in files' : IsFiniteSet(g.items)
      /\ wipe' \in [job : Jobs \cup {"none"}, cut : Int, doomed : SUBSET File]
      /\ wipe'.job = wipe.job
  <2>1. CASE \A i \in f.items : i.finish > wipe.cut
    <3>1. files' = files \ {f} /\ wipe' = wipe
      BY <1>2, <2>1
    <3> QED BY <3>1, FewerFiles DEF TypeOK, MemoryOK
  <2>2. CASE ~ \A i \in f.items : i.finish > wipe.cut
    <3> DEFINE g == Truncated(f, wipe.cut)
               rest == {h \in files : ~ SameName(g, h)}
    <3>1. files' = rest \cup {g} /\ wipe' = [wipe EXCEPT !.doomed = {f}]
      BY <1>2, <2>2 DEF Put
    <3>2. \E i \in f.items : i.finish <= wipe.cut
      BY <1>3, <2>2 DEF TimedItems, Timed
    <3>3. g.start = f.start /\ g.items \subseteq f.items /\ Timed(g) /\ TimedItems(g.items)
      BY <1>3, <3>2, ShortensToCut
    <3>4. g = [start |-> g.start, finish |-> g.finish, items |-> g.items]
      BY DEF Truncated
    <3>5. g \in File
      <4> HIDE DEF g
      <4> QED BY <1>3, <3>3, <3>4 DEF File, Timed
    <3>6. rest \in SUBSET files /\ IsFiniteSet(rest)
      BY FS_Subset DEF Finite
    <3>7. IsFiniteSet(files') /\ files' \subseteq File
      <4> HIDE DEF g, rest
      <4> QED BY <3>1, <3>5, <3>6, FS_AddElement DEF TypeOK, DiskOK
    <3>8. \A h \in files' : IsFiniteSet(h.items)
      <4> HIDE DEF g, rest
      <4> QED BY <3>1, <3>3, <3>6 DEF Finite, TimedItems
    <3> QED BY <1>3, <3>1, <3>7, <3>8 DEF TypeOK, MemoryOK
  <2> QED BY <2>1, <2>2
<1>5. TypeOK'
  BY <1>1, <1>4 DEF TruncateFile, TypeOK, WorldOK, DiskOK, MemoryOK, world, Steps, WipeSteps
<1>6. Finite'
  BY <1>4 DEF TruncateFile, Finite, world
<1>7. WipeHasJob'
  BY <1>1, <1>4 DEF WipeHasJob, WipeSteps
<1> QED BY <1>1, <1>5, <1>6, <1>7, NothingLaid

LEMMA RemovesTruncatedWell ==
    ASSUME IInv, RemoveTruncated
    PROVE  IInv'
<1> USE DEF IInv
<1>1. gen' = NoGen /\ pc' = "wipe" /\ pc = "unlink"
  BY DEF RemoveTruncated, Laying, WriteSteps
<1>2. files' \subseteq File /\ IsFiniteSet(files') /\ \A f \in files' : IsFiniteSet(f.items)
  BY FewerFiles DEF RemoveTruncated
<1>3. /\ wipe' \in [job : Jobs \cup {"none"}, cut : Int, doomed : SUBSET File]
      /\ wipe'.job = wipe.job
  BY DEF RemoveTruncated, TypeOK, MemoryOK
<1>4. TypeOK'
  BY <1>1, <1>2, <1>3 DEF RemoveTruncated, TypeOK, WorldOK, DiskOK, MemoryOK, world, Steps, WipeSteps
<1>5. Finite'
  BY <1>2 DEF RemoveTruncated, Finite, world
<1>6. WipeHasJob'
  BY <1>1, <1>3 DEF WipeHasJob, WipeSteps
<1> QED BY <1>1, <1>4, <1>5, <1>6, NothingLaid

LEMMA RewindsWell ==
    ASSUME IInv, Rewind
    PROVE  IInv'
<1> USE DEF IInv
<1>1. gen' = NoGen /\ pc' = "forget" /\ pc \in WipeSteps
  BY DEF Rewind, Laying, WriteSteps, WipeSteps
<1>2. PICK frontier \in HighestFinishes(files, wipe.cut) :
         /\ wipe' = [wipe EXCEPT !.cut = frontier]
         /\ IF OwnMap
            THEN resume' = Rewound(resume, frontier) /\ UNCHANGED work
            ELSE work' = Rewound(work, frontier) /\ UNCHANGED resume
  BY DEF Rewind
<1>3. wipe.cut \in Int /\ frontier \in Int
  <2>1. wipe.cut \in Int
    BY DEF TypeOK, MemoryOK
  <2> QED BY <2>1, FolderIsTimed, ResumesPastNames
<1>4. FiniteMap(resume) /\ FiniteMap(work)
  BY DEF TypeOK, MemoryOK, Finite, FiniteMap
<1>5. FiniteMap(resume') /\ FiniteMap(work')
  BY <1>2, <1>3, <1>4, RewoundIsMap
<1>6. /\ wipe' \in [job : Jobs \cup {"none"}, cut : Int, doomed : SUBSET File]
      /\ wipe'.job = wipe.job
  BY <1>2, <1>3 DEF TypeOK, MemoryOK
<1>7. TypeOK'
  BY <1>1, <1>5, <1>6 DEF Rewind, TypeOK, WorldOK, DiskOK, MemoryOK, FiniteMap, world, disk, Steps, WipeSteps
<1>8. Finite'
  BY <1>5 DEF Rewind, Finite, FiniteMap, world, disk
<1>9. WipeHasJob'
  BY <1>1, <1>6 DEF WipeHasJob
<1> QED BY <1>1, <1>7, <1>8, <1>9, NothingLaid

LEMMA TruncatesHistoryWell ==
    ASSUME IInv, TruncateHistory
    PROVE  IInv'
<1> USE DEF IInv
<1>1. gen' = NoGen /\ pc' = "keep" /\ pc = "forget"
  BY DEF TruncateHistory, memory, Laying, WriteSteps
<1>2. history' \subseteq Rows
  BY DEF TruncateHistory, TypeOK, DiskOK
<1>3. TypeOK'
  BY <1>1, <1>2 DEF TruncateHistory, TypeOK, WorldOK, DiskOK, MemoryOK, world, memory, Steps, WipeSteps
<1>4. Finite'
  BY DEF TruncateHistory, Finite, world, memory
<1>5. WipeHasJob'
  BY <1>1 DEF TruncateHistory, WipeHasJob, WipeSteps, memory
<1> QED BY <1>1, <1>3, <1>4, <1>5, NothingLaid

LEMMA SavesRewindWell ==
    ASSUME IInv, SaveRewind
    PROVE  IInv'
<1> USE DEF IInv
<1>1. gen' = NoGen /\ pc = "keep" /\ wipe.job \in Jobs
  BY DEF SaveRewind, Laying, WriteSteps, WipeHasJob, WipeSteps
<1>2. pc' \in {"config", "sweep", "heal", "plan"}
  <2>1. pass.phase \in {"startup", "roll"}
    BY DEF TypeOK, MemoryOK
  <2> QED BY <1>1, <2>1 DEF SaveRewind, AfterWipe, Jobs
<1>3. sidecar' \in Map /\ IsFiniteSet(sidecar'.checkpoints)
  BY DEF SaveRewind, TypeOK, MemoryOK, Finite
<1>4. wipe' \in [job : Jobs \cup {"none"}, cut : Int, doomed : SUBSET File]
  BY DEF SaveRewind, NoWipe
<1>5. TypeOK'
  BY <1>2, <1>3, <1>4 DEF SaveRewind, TypeOK, WorldOK, DiskOK, MemoryOK, world, Steps
<1>6. Finite'
  BY <1>3 DEF SaveRewind, Finite, world
<1>7. WipeHasJob'
  BY <1>2 DEF WipeHasJob, WipeSteps
<1> QED BY <1>1, <1>2, <1>5, <1>6, <1>7, NothingLaid

LEMMA SweepsWell ==
    ASSUME IInv, Sweep
    PROVE  IInv'
<1> USE DEF IInv
<1> DEFINE cut    == UnreachableAfter(now + Window)
           beyond == Unreachable(files, cut)
           aged   == Elapsed(files, now - Retention)
<1>1. gen' = NoGen /\ pc = "sweep"
  BY DEF Sweep, Laying, WriteSteps
<1>2. PICK stuck \in SUBSET (aged \cup beyond) :
         /\ IF stuck = {} THEN UNCHANGED spent ELSE May("faults") /\ Spend("faults")
         /\ files' = files \ ((aged \cup beyond) \ stuck)
         /\ IF (beyond \ aged) \subseteq stuck
            THEN pc' = "heal" /\ UNCHANGED wipe
            ELSE /\ wipe' = [job |-> "sweep", cut |-> cut, doomed |-> {}]
                 /\ pc' = "rewind"
  BY DEF Sweep
<1>3. files' \subseteq File /\ IsFiniteSet(files') /\ \A f \in files' : IsFiniteSet(f.items)
  BY <1>2, FewerFiles
<1>4. cut \in Int
  <2>1. now + Window \in Int
    BY PassAssumption DEF TypeOK, WorldOK
  <2>2. ChunkStart(now + Window) \in Int
    BY <2>1, ChunkGrid
  <2> QED BY <2>2, ChunkLenAssumption DEF UnreachableAfter
<1>5. /\ wipe' \in [job : Jobs \cup {"none"}, cut : Int, doomed : SUBSET File]
      /\ pc' \in {"heal", "rewind"} /\ WipeHasJob'
  BY <1>2, <1>4 DEF TypeOK, MemoryOK, WipeHasJob, WipeSteps, Jobs
<1>6. spent' \in [Kinds -> Nat]
  BY <1>2 DEF Spend, TypeOK, WorldOK
<1>7. pass' \in [phase : {"startup", "roll"}, at : Nat, from : Int, generations : Nat, fresh : BOOLEAN]
  BY DEF Sweep, TypeOK, WorldOK, MemoryOK
<1>8. TypeOK'
  BY <1>1, <1>3, <1>5, <1>6, <1>7 DEF Sweep, TypeOK, WorldOK, DiskOK, MemoryOK, Steps, WipeSteps
<1>9. Finite'
  BY <1>3 DEF Sweep, Finite
<1> QED BY <1>1, <1>5, <1>8, <1>9, NothingLaid

LEMMA HealsWell ==
    ASSUME IInv, Heal
    PROVE  IInv'
<1> USE DEF IInv
<1>1. gen' = NoGen /\ pc' \in {"wipe", "plan"}
  BY DEF Heal, StartWipe, Laying, WriteSteps
<1>2. ASSUME NEW gap \in FirstCoverageGap(files, pass.at, Horizon),
             NEW cut \in RegenFloors(files, ChunkStart(gap))
      PROVE  cut \in Int
  <2>1. gap \in Int
    BY DEF FirstCoverageGap, Holes, TypeOK, MemoryOK
  <2>2. ChunkStart(gap) \in Int
    BY <2>1, ChunkGrid
  <2> QED BY <2>2, FolderIsTimed, RegensFromBoundary
<1>3. /\ wipe' \in [job : Jobs \cup {"none"}, cut : Int, doomed : SUBSET File]
      /\ WipeHasJob'
  BY <1>2 DEF Heal, StartWipe, TypeOK, MemoryOK, WipeHasJob, WipeSteps, Jobs
<1>4. TypeOK'
  BY <1>1, <1>3 DEF Heal, TypeOK, WorldOK, DiskOK, MemoryOK, world, disk, Steps, WipeSteps
<1>5. Finite'
  BY DEF Finite, Heal, world, disk
<1> QED BY <1>1, <1>3, <1>4, <1>5, NothingLaid

LEMMA PlansWell ==
    ASSUME IInv, Plan
    PROVE  IInv'
<1> USE DEF IInv
<1>1. gen' = NoGen /\ pc' = "generate"
  BY DEF Plan, Laying, WriteSteps
<1>2. PICK from \in HighestFinishes(files, pass.at) :
         pass' = [pass EXCEPT !.from = from, !.generations = 0, !.fresh = (files = {})]
  BY DEF Plan
<1>3. from \in Int
  <2>1. pass.at \in Int
    BY DEF TypeOK, MemoryOK
  <2> QED BY <2>1, FolderIsTimed, ResumesPastNames
<1>4. pass' \in [phase : {"startup", "roll"}, at : Nat, from : Int, generations : Nat, fresh : BOOLEAN]
  BY <1>2, <1>3 DEF TypeOK, MemoryOK
<1>5. TypeOK'
  BY <1>1, <1>4 DEF Plan, TypeOK, WorldOK, DiskOK, MemoryOK, world, disk, Steps
<1>6. Finite'
  BY DEF Finite, Plan, world, disk
<1>7. WipeHasJob'
  BY <1>1 DEF WipeHasJob, WipeSteps
<1> QED BY <1>1, <1>5, <1>6, <1>7, NothingLaid

\* The list continues at a place in it.
LEMMA ContinuesInList ==
    ASSUME TypeOK
    PROVE  NextPositions(work) \subseteq Nat
<1>1. CASE Cursor = "position"
  BY <1>1 DEF NextPositions, TypeOK, MemoryOK, Map, Titles
<1>2. CASE Cursor # "position"
  <2>1. \A r \in history : Title(r.pos + 1) \in Nat
    <3> TAKE r \in history
    <3>1. r.pos + 1 \in Nat
      BY DEF TypeOK, DiskOK, Rows, Titles
    <3>2. Title(r.pos + 1) \in Titles
      BY <3>1, Folded
    <3> QED BY <3>2 DEF Titles
  <2> QED BY <1>2, <2>1 DEF NextPositions
<1> QED BY <1>1, <1>2

LEMMA GeneratesWell ==
    ASSUME IInv, Generate
    PROVE  IInv'
<1> USE DEF IInv
<1> DEFINE from  == pass.from
           phase(p, n) == IF Anchored /\ pass.fresh /\ pass.generations = 0
                          THEN PhaseAt(p, n, from)
                          ELSE [skip |-> 0, into |-> 0]
<1>1. PICK p \in NextPositions(work), n \in GenSizes : gen' = Laid(p, n, from, phase(p, n))
  BY DEF Generate
<1>2. p \in Nat /\ n \in Nat \ {0} /\ from \in Int /\ seen \in Nat /\ IsFiniteSet(lost)
  BY <1>1, ContinuesInList, PassAssumption DEF TypeOK, MemoryOK, Finite
<1>3. PICK skip \in 0 .. n - 1, into \in Nat :
        /\ gen' = Laid(p, n, from, [skip |-> skip, into |-> into])
        /\ into < Airtime(p + skip + 1) - Airtime(p + skip)
  <2>1. CASE Anchored /\ pass.fresh /\ pass.generations = 0
    <3>1. gen' = Laid(p, n, from, PhaseAt(p, n, from))
      BY <1>1, <2>1
    <3> DEFINE h == PhaseAt(p, n, from)
    <3>2. h.skip \in 0 .. n - 1 /\ h.into \in Nat /\ h.into < Airtime(p + h.skip + 1) - Airtime(p + h.skip)
      BY <1>2, JoinsInside
    <3>3. h = [skip |-> h.skip, into |-> h.into]
      BY DEF PhaseAt
    <3> HIDE DEF h
    <3>4. gen' = Laid(p, n, from, [skip |-> h.skip, into |-> h.into])
      BY <3>1, <3>3, Zenon DEF h
    <3> QED BY <3>2, <3>4
  <2>2. CASE ~ (Anchored /\ pass.fresh /\ pass.generations = 0)
    <3>1. gen' = Laid(p, n, from, [skip |-> 0, into |-> 0])
      BY <1>1, <2>2
    <3>2. p + 0 = p /\ p + 0 + 1 \in Nat /\ p < p + 0 + 1 /\ 0 \in 0 .. n - 1
      BY <1>2
    <3>3. 0 < Airtime(p + 0 + 1) - Airtime(p + 0)
      BY <1>2, <3>2, AirtimeGrows
    <3> QED BY <3>1, <3>2, <3>3
  <2> QED BY <2>1, <2>2
<1>4. /\ gen' \in GenType
      /\ IsFiniteSet(gen'.items) /\ IsFiniteSet(gen'.trail)
      /\ gen'.cursor = from
      /\ \A i \in gen'.items : i.start < i.finish /\ i.finish <= gen'.to
  BY <1>2, <1>3, LaysItems
<1>5. \A i \in gen'.items : i.finish > from /\ i.finish \in Int
  BY <1>2, <1>3, <1>4, StartsOnAir DEF GenType, Item
<1>6. pc' = "write"
  BY DEF Generate
<1>7. FiniteMap(work')
  BY <1>2, CheckpointedIsMap DEF Generate, FiniteMap, TypeOK, MemoryOK, Finite
<1>8. TypeOK'
  BY <1>4, <1>6, <1>7 DEF Generate, GenType, FiniteMap, TypeOK, WorldOK, DiskOK, MemoryOK,
                          world, disk, Steps, WriteSteps
<1>9. Finite'
  BY <1>4, <1>7 DEF Generate, Finite, FiniteMap, world, disk
<1>10. WipeHasJob' /\ Laying'
  BY <1>4, <1>6 DEF WipeHasJob, WipeSteps, Laying, WriteSteps
<1>11. GenerationOnDisk'
  BY <1>2, <1>4, <1>5, <1>6 DEF GenerationOnDisk
<1> QED BY <1>8, <1>9, <1>10, <1>11

LEMMA WritesChunkWell ==
    ASSUME IInv, WriteChunk
    PROVE  IInv'
<1> USE DEF IInv
<1>1. pc = "write" /\ pc' = "tidy" /\ gen' = gen
  BY DEF WriteChunk, memory
<1>2. PICK existing \in ChunkContents(files, Chunk) :
        files' = Put(files, GrownChunk(Chunk, existing, ChunkItems))
  BY DEF WriteChunk
<1> DEFINE g    == GrownChunk(Chunk, existing, ChunkItems)
           rest == {h \in files : ~ SameName(g, h)}
<1>3. existing = {} \/ \E f \in files : existing = f.items
  BY <1>2 DEF ChunkContents
<1>4. existing \subseteq Item /\ IsFiniteSet(existing)
  BY <1>3, FS_EmptySet DEF TypeOK, DiskOK, File, Finite
<1>5. gen.cursor \in Int /\ gen.items \subseteq Item
  BY DEF TypeOK, MemoryOK
<1>6. ChunkItems \subseteq gen.items /\ IsFiniteSet(ChunkItems) /\ TimedItems(ChunkItems)
  <2>1. ChunkItems \in SUBSET gen.items
    BY DEF ChunkItems, ItemsCovering
  <2>2. IsFiniteSet(ChunkItems)
    BY <2>1, FS_Subset DEF Finite
  <2> QED BY <1>5, <2>1, <2>2 DEF TimedItems, Timed, Item
<1>7. Chunk \in Int
  BY <1>5, ChunkGrid DEF Chunk
<1>8. g.start = Chunk /\ g.finish = NameFinish(Chunk, ChunkItems) /\ g.items = existing \cup ChunkItems
      /\ g = [start |-> g.start, finish |-> g.finish, items |-> g.items]
  BY DEF GrownChunk
<1>9. g \in File /\ IsFiniteSet(g.items)
  <2>1. NameFinish(Chunk, ChunkItems) \in Int
    BY <1>6, <1>7, NamedInChunk
  <2>2. IsFiniteSet(existing \cup ChunkItems)
    BY <1>4, <1>6, FS_Union
  <2> HIDE DEF g
  <2> QED BY <1>4, <1>5, <1>6, <1>7, <1>8, <2>1, <2>2 DEF File
<1>10. files' = rest \cup {g} /\ rest \in SUBSET files /\ IsFiniteSet(rest)
  BY <1>2, FS_Subset DEF Put, Finite
<1>11. files' \subseteq File /\ IsFiniteSet(files') /\ \A f \in files' : IsFiniteSet(f.items)
  <2>1. IsFiniteSet(rest \cup {g})
    <3> HIDE DEF g, rest
    <3> QED BY <1>10, FS_AddElement
  <2> HIDE DEF g, rest
  <2> QED BY <1>9, <1>10, <2>1 DEF TypeOK, DiskOK, Finite
<1>12. TypeOK'
  BY <1>1, <1>11 DEF WriteChunk, TypeOK, WorldOK, DiskOK, MemoryOK, world, memory, Steps, WriteSteps
<1>13. Finite'
  BY <1>11 DEF WriteChunk, Finite, world, memory
<1>14. WipeHasJob' /\ Laying'
  BY <1>1 DEF WipeHasJob, WipeSteps, Laying, WriteSteps
<1>15. ASSUME NEW i \in gen.items, i.start < ChunkEnd(gen.cursor)
       PROVE  \E f \in files' : /\ i \in f.items
                                /\ \/ f.start < Chunk
                                   \/ f.start = Chunk /\ f.finish = NameFinish(Chunk, ChunkItems)
  <2>1. CASE i.finish <= gen.cursor
    <3>1. PICK f \in files : i \in f.items /\ f.start < Chunk
      BY <1>1, <2>1 DEF GenerationOnDisk
    <3>2. f.start \in Int
      BY DEF TypeOK, DiskOK, File
    <3>3. f \in rest
      <4> HIDE DEF g
      <4> QED BY <1>7, <1>8, <3>1, <3>2 DEF SameName
    <3> HIDE DEF g, rest
    <3> QED BY <1>10, <3>1, <3>3
  <2>2. CASE ~ (i.finish <= gen.cursor)
    <3>1. i.finish > gen.cursor
      BY <1>5, <2>2 DEF Item
    <3>2. i \in ChunkItems
      BY <1>15, <3>1 DEF ChunkItems, ItemsCovering
    <3> HIDE DEF g, rest
    <3> QED BY <1>8, <1>10, <3>2
  <2> QED BY <2>1, <2>2
<1>16. GenerationOnDisk'
  BY <1>1, <1>15 DEF GenerationOnDisk, Chunk, ChunkItems
<1> QED BY <1>12, <1>13, <1>14, <1>16

LEMMA DropsOthersWell ==
    ASSUME IInv, DropOthers
    PROVE  IInv'
<1> USE DEF IInv
<1> DEFINE others == {f \in files : f.start = Chunk /\ f.finish # NameFinish(Chunk, ChunkItems)}
           end    == ChunkEnd(gen.cursor)
<1>1. PICK stuck \in SUBSET others :
         /\ files' = files \ (others \ stuck)
         /\ IF stuck = {} THEN UNCHANGED spent ELSE May("faults") /\ Spend("faults")
  BY DEF DropOthers
<1>2. /\ gen.cursor \in Int /\ Chunk \in Int /\ end \in Int /\ Chunk < end
      /\ ChunkStart(end) = end
  <2>1. gen.cursor \in Int
    BY DEF TypeOK, MemoryOK
  <2> QED BY <2>1, ChunkGrid DEF Chunk
<1>3. /\ gen' \in GenType /\ gen'.cursor = end
      /\ gen'.items = gen.items /\ gen'.trail = gen.trail /\ gen'.to = gen.to
  <2>1. gen \in GenType /\ gen' = [gen EXCEPT !.cursor = end]
    BY DEF DropOthers, TypeOK, MemoryOK, GenType
  <2> HIDE DEF end
  <2> QED BY <1>2, <2>1 DEF GenType
<1>4. pc = "tidy" /\ pc' \in {"write", "record"} /\ (pc' = "record" => ~ (end < gen.to))
  BY <1>3 DEF DropOthers, AfterChunk
<1>5. files' \subseteq File /\ IsFiniteSet(files') /\ \A f \in files' : IsFiniteSet(f.items)
  BY <1>1, FewerFiles
<1>6. spent' \in [Kinds -> Nat]
  BY <1>1 DEF Spend, TypeOK, WorldOK
<1>7. TypeOK'
  BY <1>3, <1>4, <1>5, <1>6 DEF DropOthers, GenType, TypeOK, WorldOK, DiskOK, MemoryOK, Steps, WriteSteps
<1>8. Finite'
  BY <1>3, <1>5 DEF DropOthers, Finite
<1>9. WipeHasJob' /\ Laying'
  BY <1>3, <1>4 DEF WipeHasJob, WipeSteps, Laying, WriteSteps
<1>10. ASSUME NEW i \in gen.items, i.finish <= end
       PROVE  \E f \in files' : i \in f.items /\ f.start < end
  <2>1. i.start \in Int /\ i.finish \in Int /\ i.start < i.finish
    BY DEF TypeOK, MemoryOK, Item, Laying
  <2>2. i.start < end
    BY <1>2, <1>10, <2>1
  <2>3. PICK f \in files : /\ i \in f.items
                           /\ \/ f.start < Chunk
                              \/ f.start = Chunk /\ f.finish = NameFinish(Chunk, ChunkItems)
    BY <1>4, <2>2 DEF GenerationOnDisk
  <2>4. f.start \in Int
    BY DEF TypeOK, DiskOK, File
  <2>5. f \in files' /\ f.start < end
    BY <1>1, <1>2, <2>3, <2>4
  <2> QED BY <2>3, <2>5
<1>11. GenerationOnDisk'
  <2>1. CASE pc' = "write"
    BY <1>2, <1>3, <1>10, <2>1 DEF GenerationOnDisk, Chunk
  <2>2. CASE pc' = "record"
    <3>1. ASSUME NEW i \in gen.items PROVE i.finish <= end
      <4>1. i.finish \in Int /\ gen.to \in Int /\ i.finish <= gen.to
        BY DEF TypeOK, MemoryOK, Item, Laying
      <4> HIDE DEF end
      <4> QED BY <1>2, <1>4, <2>2, <4>1
    <3> HIDE DEF end
    <3> QED BY <1>3, <1>10, <2>2, <3>1 DEF GenerationOnDisk, Items, ItemsOnDisk
  <2> QED BY <1>4, <2>1, <2>2
<1> QED BY <1>7, <1>8, <1>9, <1>11

LEMMA RecordsAiringsWell ==
    ASSUME IInv, RecordAirings
    PROVE  IInv'
<1> USE DEF IInv
<1>1. pc = "record" /\ pc' = "save" /\ gen' = gen /\ files' = files
  BY DEF RecordAirings, memory
<1>2. history' \subseteq Rows
  BY DEF RecordAirings, TypeOK, DiskOK, MemoryOK
<1>3. TypeOK'
  BY <1>1, <1>2 DEF RecordAirings, TypeOK, WorldOK, DiskOK, MemoryOK, world, memory, Steps, WriteSteps
<1>4. Finite'
  BY DEF RecordAirings, Finite, world, memory
<1> QED BY <1>1, <1>3, <1>4 DEF WipeHasJob, WipeSteps, Laying, WriteSteps, GenerationOnDisk, Items

LEMMA SavesSidecarWell ==
    ASSUME IInv, SaveSidecar
    PROVE  IInv'
<1> USE DEF IInv
<1>1. gen' = NoGen /\ pc' = "generate"
  BY DEF SaveSidecar
<1>2. FiniteMap(work') /\ sidecar' = work'
  <2>1. FiniteMap(work) /\ gen.pos \in Titles /\ gen.trail \in SUBSET Trail /\ IsFiniteSet(gen.trail)
        /\ pass.at \in Nat
    BY DEF FiniteMap, TypeOK, MemoryOK, Finite
  <2> QED BY <2>1, AdoptedIsMap DEF SaveSidecar
<1>3. pass' \in [phase : {"startup", "roll"}, at : Nat, from : Int, generations : Nat, fresh : BOOLEAN]
  <2>1. /\ pass \in [phase : {"startup", "roll"}, at : Nat, from : Int, generations : Nat, fresh : BOOLEAN]
        /\ gen.to \in Int /\ pass.generations + 1 \in Nat
    BY DEF TypeOK, MemoryOK
  <2>2. pass' = [pass EXCEPT !.from = gen.to, !.generations = pass.generations + 1]
    BY DEF SaveSidecar
  <2> QED BY ONLY <2>1, <2>2
<1>4. gen' \in GenType /\ IsFiniteSet(gen'.items) /\ IsFiniteSet(gen'.trail)
  BY <1>1, FS_EmptySet, ListAssumption DEF NoGen, GenType, Titles
<1>5. TypeOK'
  BY <1>1, <1>2, <1>3, <1>4 DEF SaveSidecar, GenType, FiniteMap, TypeOK, WorldOK, DiskOK, MemoryOK, world, Steps
<1>6. Finite'
  BY <1>2, <1>4 DEF SaveSidecar, Finite, FiniteMap, world
<1> QED BY <1>1, <1>5, <1>6, NothingLaid DEF WipeHasJob, WipeSteps

\* What the environment does is counted.
LEMMA Spends ==
    ASSUME spent \in [Kinds -> Nat], NEW k \in Kinds, Spend(k)
    PROVE  spent' \in [Kinds -> Nat]
<1>1. spent[k] + 1 \in Nat /\ spent' = [spent EXCEPT ![k] = spent[k] + 1]
  BY DEF Spend
<1> QED BY <1>1

\* Back in the loop, everything of the pass is let go.
LEMMA ReturnsWell ==
    ASSUME IInv, BackInLoop, pc = "generate", spent' \in [Kinds -> Nat]
    PROVE  IInv'
<1> USE DEF IInv
<1>1. gen' = NoGen /\ pc' = "idle"
  BY DEF BackInLoop, Laying, WriteSteps
<1>2. FiniteMap(resume') /\ FiniteMap(work')
  <2>1. resume' = work /\ work' = EmptyMap
    BY DEF BackInLoop
  <2> QED BY <2>1, FS_EmptySet, ListAssumption
          DEF FiniteMap, TypeOK, MemoryOK, Finite, EmptyMap, NoConfig, Map, Titles
<1>3. pass' \in [phase : {"startup", "roll"}, at : Nat, from : Int, generations : Nat, fresh : BOOLEAN]
  BY PassBegins DEF BackInLoop, TypeOK, MemoryOK
<1>4. tickAt' \in Nat
  BY PassAssumption DEF BackInLoop, TypeOK, WorldOK, MemoryOK
<1>5. TypeOK'
  BY <1>1, <1>2, <1>3, <1>4 DEF BackInLoop, FiniteMap, TypeOK, WorldOK, DiskOK, MemoryOK, disk, Steps
<1>6. Finite'
  BY <1>2 DEF BackInLoop, Finite, FiniteMap, disk
<1> QED BY <1>1, <1>5, <1>6, NothingLaid DEF WipeHasJob, WipeSteps

LEMMA RollsWell ==
    ASSUME IInv, RollTick
    PROVE  IInv'
<1> USE DEF IInv
<1>1. gen' = NoGen /\ pc' \in {"wipe", "sweep"}
  BY DEF RollTick, StartWipe, Laying, WriteSteps
<1>2. AiringFinish(files, now) \in Int /\ now \in Nat
  BY FolderIsTimed, CutsAfterAiring DEF TypeOK, WorldOK
<1>3. /\ wipe' \in [job : Jobs \cup {"none"}, cut : Int, doomed : SUBSET File]
      /\ WipeHasJob'
  BY <1>2 DEF RollTick, StartWipe, TypeOK, MemoryOK, WipeHasJob, WipeSteps, Jobs
<1>4. pass' \in [phase : {"startup", "roll"}, at : Nat, from : Int, generations : Nat, fresh : BOOLEAN]
  BY <1>2, PassBegins DEF RollTick
<1>5. tickAt' \in Nat
  BY <1>2, PassAssumption DEF RollTick
<1>6. TypeOK'
  BY <1>1, <1>3, <1>4, <1>5 DEF RollTick, TypeOK, WorldOK, DiskOK, MemoryOK, disk, Steps, WipeSteps
<1>7. Finite'
  BY DEF RollTick, Finite, disk
<1> QED BY <1>1, <1>3, <1>6, <1>7, NothingLaid

\* What a task that is gone leaves is well formed.
LEMMA ForgetsWell ==
    ASSUME IInv, Forgotten, pc' = "down", UNCHANGED <<now, config, lost, marker, disk>>,
           spent' \in [Kinds -> Nat]
    PROVE  IInv'
<1> USE DEF IInv
<1>1. gen' = NoGen /\ resume' = EmptyMap /\ work' = EmptyMap
  BY DEF Forgotten
<1>2. FiniteMap(EmptyMap)
  BY FS_EmptySet, ListAssumption DEF FiniteMap, EmptyMap, NoConfig, Map, Titles
<1>3. NoGen \in GenType /\ IsFiniteSet(NoGen.items) /\ IsFiniteSet(NoGen.trail)
  BY FS_EmptySet, ListAssumption DEF NoGen, GenType, Titles
<1>4. MemoryOK'
  <2>1. NoPass \in [phase : {"startup", "roll"}, at : Nat, from : Int, generations : Nat, fresh : BOOLEAN]
    BY DEF NoPass
  <2>2. NoWipe \in [job : Jobs \cup {"none"}, cut : Int, doomed : SUBSET File]
    BY DEF NoWipe
  <2>3. pass' = NoPass /\ wipe' = NoWipe /\ seen' = NoConfig /\ tickAt' = 0
    BY DEF Forgotten
  <2> QED BY <1>1, <1>2, <1>3, <2>1, <2>2, <2>3 DEF MemoryOK, FiniteMap, GenType, NoConfig
<1>5. TypeOK'
  BY <1>4 DEF TypeOK, WorldOK, DiskOK, disk, Steps
<1>6. Finite'
  BY <1>1, <1>2, <1>3 DEF Finite, FiniteMap, disk
<1> QED BY <1>1, <1>5, <1>6, NothingLaid DEF WipeHasJob, WipeSteps

LEMMA FailsWell ==
    ASSUME IInv, Fail
    PROVE  IInv'
<1> USE DEF IInv
<1>1. spent' \in [Kinds -> Nat] /\ pc' \in {"down", "sweep", "idle"}
  <2>1. spent' \in [Kinds -> Nat]
    BY Spends DEF Fail, Kinds, TypeOK, WorldOK
  <2>2. pass.phase \in {"startup", "roll"}
    BY DEF TypeOK, MemoryOK
  <2>3. pc' = CASE pass.phase = "startup" -> "down"
                [] pass.phase = "roll" /\ wipe.job = "refresh" -> "sweep"
                [] OTHER -> "idle"
    BY DEF Fail
  <2>4. CASE pass.phase = "startup"
    BY <2>1, <2>3, <2>4
  <2>5. CASE pass.phase = "roll"
    BY <2>1, <2>3, <2>5
  <2> QED BY <2>2, <2>4, <2>5
<1>2. CASE pc' = "down"
  BY <1>1, <1>2, ForgetsWell DEF Fail
<1>3. CASE pc' # "down"
  <2>1. /\ wipe' = NoWipe /\ gen' = NoGen /\ work' = EmptyMap
        /\ UNCHANGED <<resume, seen, pass, tickAt>>
        /\ UNCHANGED <<now, config, lost, marker, disk>>
    BY <1>3 DEF Fail
  <2>2. FiniteMap(EmptyMap)
    BY FS_EmptySet, ListAssumption DEF FiniteMap, EmptyMap, NoConfig, Map, Titles
  <2>3. NoGen \in GenType /\ IsFiniteSet(NoGen.items) /\ IsFiniteSet(NoGen.trail)
    BY FS_EmptySet, ListAssumption DEF NoGen, GenType, Titles
  <2>4. NoWipe \in [job : Jobs \cup {"none"}, cut : Int, doomed : SUBSET File]
    BY DEF NoWipe
  <2>5. MemoryOK'
    BY <2>1, <2>2, <2>3, <2>4 DEF TypeOK, MemoryOK, FiniteMap, GenType
  <2>6. TypeOK'
    BY <1>1, <2>1, <2>5 DEF TypeOK, WorldOK, DiskOK, disk, Steps
  <2>7. Finite'
    BY <2>1, <2>2, <2>3 DEF Finite, FiniteMap, disk
  <2> QED BY <1>1, <2>1, <2>6, <2>7, NothingLaid DEF WipeHasJob, WipeSteps
<1> QED BY <1>2, <1>3

LEMMA GoesDownWell ==
    ASSUME IInv, GoDown
    PROVE  IInv'
<1>1. spent' \in [Kinds -> Nat]
  BY Spends DEF GoDown, Kinds, IInv, TypeOK, WorldOK
<1> QED BY <1>1, ForgetsWell DEF GoDown

\* A step that leaves the task and its disk alone leaves what is written alone.
LEMMA WorldTurnsWell ==
    ASSUME IInv, WorldOK', IsFiniteSet(lost'), UNCHANGED <<disk, memory, pc>>
    PROVE  IInv'
<1> USE DEF IInv
<1>1. TypeOK'
  BY DEF TypeOK, DiskOK, MemoryOK, disk, memory
<1>2. Finite'
  BY DEF Finite, disk, memory
<1>3. WipeHasJob' /\ Laying' /\ GenerationOnDisk'
  BY DEF WipeHasJob, Laying, GenerationOnDisk, Items, Chunk, ChunkItems, disk, memory
<1> QED BY <1>1, <1>2, <1>3

LEMMA TurnsWell ==
    ASSUME IInv, Clock \/ RequestRefresh \/ EditConfig
    PROVE  IInv'
<1>1. UNCHANGED <<disk, memory, pc, lost>>
  BY DEF Clock, RequestRefresh, EditConfig
<1>2. WorldOK'
  <2>1. CASE Clock
    BY <2>1 DEF Clock, IInv, TypeOK, WorldOK
  <2>2. CASE RequestRefresh \/ EditConfig
    <3>1. spent' \in [Kinds -> Nat]
      BY <2>2, Spends DEF RequestRefresh, EditConfig, Kinds, IInv, TypeOK, WorldOK
    <3>2. now' \in Nat /\ config' \in Nat /\ lost' \subseteq [pos : Titles, edition : Nat]
      BY <2>2 DEF RequestRefresh, EditConfig, IInv, TypeOK, WorldOK
    <3>3. marker' \in BOOLEAN
      BY <2>2 DEF RequestRefresh, EditConfig, IInv, TypeOK, WorldOK
    <3> QED BY <3>1, <3>2, <3>3 DEF WorldOK
  <2> QED BY <2>1, <2>2
<1> QED BY <1>1, <1>2, WorldTurnsWell DEF IInv, Finite

LEMMA LosesTitleWell ==
    ASSUME IInv, LoseTitle
    PROVE  IInv'
<1> USE DEF IInv
<1>1. PICK i \in ItemsOnDisk(files) : lost' = lost \cup {[pos |-> i.pos, edition |-> Edition + 1]}
  BY DEF LoseTitle
<1>2. i.pos \in Titles
  BY DEF TypeOK, DiskOK, File, Item, ItemsOnDisk
<1>3. Edition + 1 \in Nat
  BY FS_CardinalityType DEF Edition, Finite
<1>4. IsFiniteSet(lost') /\ lost' \subseteq [pos : Titles, edition : Nat]
  <2>1. IsFiniteSet(lost')
    BY <1>1, FS_AddElement DEF Finite
  <2> QED BY <1>1, <1>2, <1>3, <2>1 DEF TypeOK, WorldOK
<1>5. WorldOK' /\ UNCHANGED <<disk, memory, pc>>
  BY <1>4 DEF LoseTitle, TypeOK, WorldOK
<1> QED BY <1>4, <1>5, WorldTurnsWell

LEMMA LosesFileWell ==
    ASSUME IInv, LoseFile
    PROVE  IInv'
<1> USE DEF IInv
<1>1. gen' = NoGen /\ pc' = pc /\ pc \in {"down", "idle"}
  BY DEF LoseFile, memory, Laying, WriteSteps
<1>2. files' \subseteq File /\ IsFiniteSet(files') /\ \A f \in files' : IsFiniteSet(f.items)
  <2>1. PICK G : files' = files \ G
    BY DEF LoseFile
  <2> QED BY <2>1, FewerFiles
<1>3. spent' \in [Kinds -> Nat]
  BY Spends DEF LoseFile, Kinds, TypeOK, WorldOK
<1>4. TypeOK'
  BY <1>1, <1>2, <1>3 DEF LoseFile, TypeOK, WorldOK, DiskOK, MemoryOK, memory
<1>5. Finite'
  BY <1>2 DEF LoseFile, Finite, memory
<1> QED BY <1>1, <1>4, <1>5, NothingLaid DEF WipeHasJob, WipeSteps

-----------------------------------------------------------------------------
(* The theorems *)

LEMMA InitWell ==
    ASSUME Init
    PROVE  IInv
<1>1. FiniteMap(EmptyMap)
  BY FS_EmptySet, ListAssumption DEF FiniteMap, EmptyMap, NoConfig, Map, Titles
<1>2. NoGen \in GenType /\ IsFiniteSet(NoGen.items) /\ IsFiniteSet(NoGen.trail) /\ NoGen.items = {}
  BY FS_EmptySet, ListAssumption DEF NoGen, GenType, Titles
<1>3. NoPass \in [phase : {"startup", "roll"}, at : Nat, from : Int, generations : Nat, fresh : BOOLEAN]
  BY DEF NoPass
<1>4. NoWipe \in [job : Jobs \cup {"none"}, cut : Int, doomed : SUBSET File]
  BY DEF NoWipe
<1>5. MemoryOK
  BY <1>1, <1>2, <1>3, <1>4 DEF Init, MemoryOK, FiniteMap, GenType, NoConfig
<1>6. TypeOK
  BY <1>1, <1>5 DEF Init, TypeOK, WorldOK, DiskOK, FiniteMap, Steps
<1>7. Finite
  BY <1>1, <1>2, FS_EmptySet DEF Init, Finite, FiniteMap
<1>8. pc = "down" /\ gen = NoGen
  BY DEF Init
<1> QED BY <1>2, <1>6, <1>7, <1>8
        DEF IInv, WipeHasJob, WipeSteps, Laying, WriteSteps, GenerationOnDisk

LEMMA StepsWell ==
    ASSUME IInv, [Next]_vars
    PROVE  IInv'
<1>1. CASE Task
  <2>1. (CaughtUp \/ ZeroLength) => IInv'
    <3>1. (CaughtUp \/ ZeroLength) => BackInLoop /\ pc = "generate" /\ spent' \in [Kinds -> Nat]
      BY Spends DEF CaughtUp, ZeroLength, Kinds, IInv, TypeOK, WorldOK
    <3> QED BY <3>1, ReturnsWell
  <2> QED BY <1>1, <2>1, StartsWell, AdoptsConfigWell, RepairsWell, RemovesFileWell,
             TruncatesFileWell, RemovesTruncatedWell, RewindsWell, TruncatesHistoryWell,
             SavesRewindWell, SweepsWell, HealsWell, PlansWell, GeneratesWell, WritesChunkWell,
             DropsOthersWell, RecordsAiringsWell, SavesSidecarWell, RollsWell
          DEF Task
<1>2. CASE Fail \/ GoDown
  BY <1>2, FailsWell, GoesDownWell
<1>3. CASE Environment
  BY <1>3, TurnsWell, LosesTitleWell, LosesFileWell DEF Environment
<1>4. CASE UNCHANGED vars
  <2>1. UNCHANGED <<world, disk, memory, pc>>
    BY <1>4 DEF vars
  <2> QED BY <2>1, WorldTurnsWell DEF IInv, TypeOK, WorldOK, Finite, world
<1> QED BY <1>1, <1>2, <1>3, <1>4 DEF Next

LEMMA Inductive == Spec => []IInv
BY InitWell, StepsWell, PTL DEF Spec

\* Whatever the configuration, the library and the failures do, the loop's
\* memory and the files it leaves stay well formed.
THEOREM TypeCorrect == Spec => []TypeOK
<1>1. IInv => TypeOK
  BY DEF IInv
<1> QED BY <1>1, Inductive, PTL

\* A generation reaches the disk whole: the chunk passes of emit_window write
\* every item of it, and removing a chunk's shorter-named file loses none.
THEOREM ReachesDisk == Spec => []GenerationOnDisk
<1>1. IInv => GenerationOnDisk
  BY DEF IInv
<1> QED BY <1>1, Inductive, PTL

\* A crash between two writes of a generation never makes the list skip an item:
\* the sidecar moves past a generation only when all of it is on disk.
THEOREM SidecarIsBehind == Spec => SidecarFollowsDisk
<1> DEFINE Follows == sidecar'.pos # sidecar.pos /\ gen # NoGen => gen.items \subseteq Items
<1>1. ASSUME IInv, [Next]_vars PROVE Follows
  <2> SUFFICES ASSUME sidecar'.pos # sidecar.pos, gen # NoGen PROVE gen.items \subseteq Items
    OBVIOUS
  <2>1. pc \in WriteSteps
    BY <1>1 DEF IInv, Laying
  <2>2. CASE SaveSidecar
    BY <1>1, <2>2 DEF SaveSidecar, IInv, GenerationOnDisk
  <2>3. CASE ~ SaveSidecar
    <3>1. sidecar' = sidecar
      BY <1>1, <2>1, <2>3
         DEF Next, Task, Environment, Start, AdoptConfig, Repair, RemoveFile, TruncateFile,
             RemoveTruncated, Rewind, TruncateHistory, SaveRewind, Sweep, Heal, Plan, Generate,
             WriteChunk, DropOthers, RecordAirings, CaughtUp, ZeroLength, BackInLoop, RollTick,
             Fail, GoDown, Clock, RequestRefresh, EditConfig, LoseTitle, LoseFile,
             WriteSteps, disk, memory, world, vars
    <3> QED BY <3>1
  <2> QED BY <2>2, <2>3
<1>2. IInv /\ [Next]_vars => [Follows]_vars
  BY <1>1
<1> QED BY <1>2, Inductive, PTL DEF Spec, SidecarFollowsDisk

\* A generation's ledger rows are airings it lays.
RowsAreAirings == \A r \in gen.rows : \E i \in gen.items : r = Row(i)

LEMMA LaysWhatItRecords ==
    ASSUME ~ Anchored, IInv, RowsAreAirings, [Next]_vars
    PROVE  RowsAreAirings'
<1>1. CASE Generate
  <2>1. PICK p \in NextPositions(work), n \in GenSizes :
          gen' = Laid(p, n, pass.from, [skip |-> 0, into |-> 0])
    BY <1>1 DEF Generate
  <2>2. p \in Nat /\ n \in Nat \ {0} /\ pass.from \in Int
    BY <2>1, ContinuesInList, PassAssumption DEF IInv, TypeOK, MemoryOK
  <2> QED BY <2>1, <2>2, RecordsWhatItLays DEF RowsAreAirings
<1>2. CASE DropOthers
  <2>1. gen' = [gen EXCEPT !.cursor = ChunkEnd(gen.cursor)] /\ gen \in GenType
    BY <1>2 DEF DropOthers, IInv, TypeOK, MemoryOK, GenType
  <2>2. gen'.items = gen.items /\ gen'.rows = gen.rows
    BY <2>1 DEF GenType
  <2> QED BY <2>2 DEF RowsAreAirings
<1>3. CASE ~ (Generate \/ DropOthers)
  <2>1. gen' \in {gen, NoGen}
    BY <1>3
       DEF Next, Task, Environment, Start, AdoptConfig, Repair, RemoveFile, TruncateFile,
           RemoveTruncated, Rewind, TruncateHistory, SaveRewind, Sweep, Heal, Plan,
           WriteChunk, RecordAirings, SaveSidecar, CaughtUp, ZeroLength, BackInLoop, RollTick,
           Fail, Forgotten, GoDown, Clock, RequestRefresh, EditConfig, LoseTitle, LoseFile,
           memory, vars
  <2>2. NoGen.rows = {}
    BY DEF NoGen
  <2> QED BY <2>1, <2>2 DEF RowsAreAirings
<1> QED BY <1>1, <1>2, <1>3

\* The ledger never tells of an airing before it is on disk, on a channel that
\* joins its list at no anchor.
THEOREM LedgerIsBehind ==
    ASSUME ~ Anchored
    PROVE  Spec => LedgerFollowsDisk
<1> DEFINE Told == \A r \in history' \ history : \E i \in Items : r = Row(i)
<1>1. Init => RowsAreAirings
  BY DEF Init, NoGen, RowsAreAirings
<1>2. IInv /\ RowsAreAirings /\ [Next]_vars => RowsAreAirings'
  BY LaysWhatItRecords
<1>3. ASSUME IInv, RowsAreAirings, [Next]_vars PROVE Told
  <2>1. CASE RecordAirings
    <3>1. gen.items \subseteq Items /\ history' = history \cup gen.rows
      BY <1>3, <2>1 DEF RecordAirings, IInv, GenerationOnDisk
    <3> QED BY <1>3, <3>1 DEF RowsAreAirings
  <2>2. CASE ~ RecordAirings
    <3>1. history' \subseteq history
      BY <1>3, <2>2
         DEF Next, Task, Environment, Start, AdoptConfig, Repair, RemoveFile, TruncateFile,
             RemoveTruncated, Rewind, TruncateHistory, SaveRewind, Sweep, Heal, Plan, Generate,
             WriteChunk, DropOthers, SaveSidecar, CaughtUp, ZeroLength, BackInLoop, RollTick,
             Fail, GoDown, Clock, RequestRefresh, EditConfig, LoseTitle, LoseFile,
             disk, memory, world, vars
    <3> QED BY <3>1
  <2> QED BY <2>1, <2>2
<1>4. IInv /\ RowsAreAirings /\ [Next]_vars => [Told]_vars
  BY <1>3
<1> QED BY <1>1, <1>2, <1>4, Inductive, PTL DEF Spec, LedgerFollowsDisk

=============================================================================
