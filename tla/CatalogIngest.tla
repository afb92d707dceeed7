--------------------------- MODULE CatalogIngest ---------------------------
(* How the catalog follows the disk and Plex (catalog/ingest/).  A refresh    *)
(* scans the disk, then reads the Plex library page by page, whole or only    *)
(* what changed since the last pass, and writes each source in one            *)
(* transaction.  Disk, Plex and the clock move between any two of its steps,  *)
(* and a pass may be given up before either write.                            *)
(*                                                                            *)
(* A catalog holds entries (is it missing?), the sources each was found by    *)
(* (<<"local_fs", path>> or <<"plex", rating key>>), the entry each GUID      *)
(* leads to, the collections, and when Plex was last read.  An entry is named *)
(* by its GUID, or by the path of its file.  A path is one after              *)
(* canonical_path.                                                            *)
EXTENDS SequencesExt, Integers, FiniteSets

CONSTANTS
    RatingKeys,          \* Plex's names for its items, in the order of its pages
    Paths, Guids, NoGuid,
    Dated,               \* the rating keys Plex reports an updatedAt for
    Collections,
    Refresh,             \* catalog_refresh_secs
    FullSweep,           \* full_sweep_after_secs
    Shrinks,             \* may Plex lose an item while its pages are read?
    MaxTime,             \* bound: the clock
    Budgets              \* bounds: how often the disk, Plex's library and its collections change

ASSUME CatalogAssumption ==
    /\ RatingKeys \subseteq Nat /\ IsFiniteSet(RatingKeys) /\ Dated \subseteq RatingKeys
    /\ NoGuid \notin Guids
    /\ Shrinks \in BOOLEAN
    /\ {Refresh, FullSweep, MaxTime} \subseteq Nat
    /\ Budgets \subseteq [disk : Nat, plex : Nat, colls : Nat]

VARIABLES
    now,
    disk,       \* is the file sound? for each path that has one
    plex,       \* what Plex holds: [guid, path, added, changed] of a rating key
    colls,      \* its collections: [members, changed]
    catalog,    \* [entries, sources, ids, colls, last, full]
    pass,       \* where the refresh stands
    budget,     \* the changes left, one of Budgets at first
    gone,       \* when Plex lost an item
    moved       \* Plex rows without a verdict on the file they name
vars == <<now, disk, plex, colls, catalog, pass, budget, gone, moved>>
world == <<disk, plex, colls, budget, gone>>

Never == -1
Idle == [phase |-> "idle"]

FsId(p) == <<"fs", p>>
IsFs(e) == e[1] = "fs"
Fs(p) == <<"local_fs", p>>
Px(rk) == <<"plex", rk>>
Entries == {FsId(p) : p \in Paths} \cup {<<"guid", g>> : g \in Guids}
Sources == {Fs(p) : p \in Paths} \cup {Px(rk) : rk \in RatingKeys}
KeyOf(items) == {items[i].rk : i \in DOMAIN items}

\* A table with the rows of another written into it, and with one row.
Over(rows, table) ==
    [k \in DOMAIN rows \cup DOMAIN table |-> IF k \in DOMAIN rows THEN rows[k] ELSE table[k]]
With(table, k, row) == Over([x \in {k} |-> row], table)

-----------------------------------------------------------------------------
(* The catalog and its helpers.                                               *)

\* Sources by name: the disk's before Plex's, Plex's by rating key.
Before(a, b) == \/ a[1] = "local_fs" /\ b[1] = "plex"
                \/ a[1] = "plex" /\ b[1] = "plex" /\ a[2] < b[2]

\* The entry of each known path: a foreign id, if any source of the path has one.
CanonicalIndex(c) ==
    [p \in {c.sources[k].path : k \in DOMAIN c.sources} |->
        LET rows == {k \in DOMAIN c.sources : c.sources[k].path = p}
            foreign == {k \in rows : ~IsFs(c.sources[k].entry)}
            first == CHOOSE k \in foreign : \A j \in foreign : ~Before(j, k)
            last == CHOOSE k \in rows : \A j \in rows : ~Before(k, j)
        IN c.sources[IF foreign # {} THEN first ELSE last].entry]

UpsertEntry(c, e) == [c EXCEPT !.entries = With(@, e, [missing |-> FALSE])]

\* A verdict on the file outlives the rewrite of its row, as long as the row names that file.
Row(c, k, e, p) ==
    [entry |-> e, path |-> p, missing |-> FALSE,
     unairable |-> k \in DOMAIN c.sources /\ c.sources[k].path = p /\ c.sources[k].unairable]
AddSource(c, k, e, p) == [c EXCEPT !.sources = With(@, k, Row(c, k, e, p))]

\* The sources of a kind that a whole scan did not come by.
MarkSources(c, kind, seen) ==
    [c EXCEPT !.sources = [k \in DOMAIN c.sources |->
        [c.sources[k] EXCEPT !.missing = @ \/ (k[1] = kind /\ k \notin seen)]]]

\* Mutant of MarkEntries: only the sources are marked.
MarkNoEntries(c) == c

\* The entries no live source is left of.
MarkEntries(c) ==
    [c EXCEPT !.entries = [e \in DOMAIN c.entries |->
        [c.entries[e] EXCEPT !.missing = @ \/ \A k \in DOMAIN c.sources :
                                                c.sources[k].entry = e => c.sources[k].missing]]]

\* Everything a loser had goes to the survivor; the loser stays, missing.
Heir(e, losers, survivor) == IF e \in losers THEN survivor ELSE e
MergeEntry(c, losers, survivor) ==
    [c EXCEPT !.sources = [k \in DOMAIN c.sources |->
                              [c.sources[k] EXCEPT !.entry = Heir(@, losers, survivor)]],
              !.ids = [g \in DOMAIN c.ids |-> Heir(c.ids[g], losers, survivor)],
              !.colls = [x \in DOMAIN c.colls |-> {Heir(e, losers, survivor) : e \in c.colls[x]}],
              !.entries = [e \in DOMAIN c.entries |-> [c.entries[e] EXCEPT !.missing = @ \/ e \in losers]]]

\* What a query may draw, and the source it is played from.
Live(c, e) == {k \in DOMAIN c.sources : c.sources[k].entry = e /\ ~c.sources[k].missing}
Drawn(c) == {e \in DOMAIN c.entries :
                /\ ~c.entries[e].missing
                /\ \/ \A k \in Live(c, e) : ~c.sources[k].unairable
                   \/ \E k \in Live(c, e) : ~c.sources[k].unairable}
PlaybackSource(c, e) ==
    LET rows == {k \in DOMAIN c.sources : c.sources[k].entry = e}
        local == {k \in rows : k[1] = "local_fs"}
        live == {k \in rows : ~c.sources[k].missing}
        airable == {k \in live : ~c.sources[k].unairable}
        choices == <<local \cap airable, airable, local \cap live, live, local, rows>>
        best == choices[CHOOSE i \in 1..6 : choices[i] # {} /\ \A j \in 1 .. i - 1 : choices[j] = {}]
    IN CHOOSE k \in best : \A j \in best : ~Before(j, k)

-----------------------------------------------------------------------------
(* The disk.                                                                  *)

\* Mutant of RecordAirability: the verdict stays on the row of the disk.
RecordHere(c, verdict) ==
    [c EXCEPT !.sources = [k \in DOMAIN c.sources |->
        IF k[1] = "local_fs" /\ k[2] \in DOMAIN verdict
        THEN [c.sources[k] EXCEPT !.unairable = ~verdict[k[2]]] ELSE c.sources[k]]]

\* The verdict on a file goes to every source of its entry that names that file.
RecordAirability(c, verdict) ==
    [c EXCEPT !.sources = [k \in DOMAIN c.sources |->
        LET row == c.sources[k]
            judged == row.path \in DOMAIN verdict /\ Fs(row.path) \in DOMAIN c.sources
                      /\ c.sources[Fs(row.path)].entry = row.entry
        IN IF judged THEN [row EXCEPT !.unairable = ~verdict[row.path]] ELSE row]]

\* A file goes onto the entry its path is known by, or onto one of its own.
FileEntry(p, index) == IF p \in DOMAIN index THEN index[p] ELSE FsId(p)

\* No file is told of by two rows, so the order of the files does not matter.
AddFiles(c, files, index) ==
    LET own == {e \in {FileEntry(p, index) : p \in files} : IsFs(e)}
    IN [c EXCEPT !.entries = Over([e \in own |-> [missing |-> FALSE]], @),
                 !.sources = Over([k \in {Fs(p) : p \in files} |-> Row(c, k, FileEntry(k[2], index), k[2])], @)]

\* The write of a scan that found these files: all of it or nothing.
IngestFiles(c, files, verdict) ==
    LET written == AddFiles(c, files, CanonicalIndex(c))
    IN RecordAirability(MarkEntries(MarkSources(written, "local_fs", {Fs(p) : p \in files})), verdict)

-----------------------------------------------------------------------------
(* Plex.                                                                      *)

\* The entry an item belongs to, if the catalog has it: by its rating key, by its GUID, by its file.
ResolveExisting(c, item, index) ==
    CASE Px(item.rk) \in DOMAIN c.sources -> {c.sources[Px(item.rk)].entry}
      [] Px(item.rk) \notin DOMAIN c.sources /\ item.guid \in DOMAIN c.ids -> {c.ids[item.guid]}
      [] OTHER -> {index[p] : p \in DOMAIN index \cap {item.path}}

DeriveEntryId(item) == IF item.guid = NoGuid THEN FsId(item.path) ELSE <<"guid", item.guid>>

EntryFor(c, item, index) ==
    LET existing == ResolveExisting(c, item, index)
    IN IF existing # {} THEN CHOOSE x \in existing : TRUE ELSE DeriveEntryId(item)

\* Mutant of Placeholders: a placeholder stays beside the entry of its title.
NoPlaceholders(c, item, e, index) == {}

\* The entry a scan made of the item's file before Plex had named its title.
Placeholders(c, item, e, index) ==
    {s \in {index[p] : p \in DOMAIN index \cap {item.path}} :
        s # e /\ IsFs(s) /\ \A k \in DOMAIN c.sources : k[1] = "plex" => c.sources[k].entry # s}

\* One item, after those before it.
IngestItem(acc, item) ==
    LET c == acc.catalog
        e == EntryFor(c, item, acc.index)
        stale == Placeholders(c, item, e, acc.index)
        known == [UpsertEntry(MergeEntry(c, stale, e), e) EXCEPT !.ids =
                    IF item.guid = NoGuid THEN @ ELSE With(@, item.guid, e)]
    IN [catalog |-> AddSource(known, Px(item.rk), e, item.path),
        index   |-> [p \in DOMAIN acc.index |-> IF acc.index[p] \in stale THEN e ELSE acc.index[p]]]

IngestItems(c, items) ==
    LET ingested[n \in 0 .. Len(items)] ==
            IF n = 0 THEN [catalog |-> c, index |-> CanonicalIndex(c)]
            ELSE IngestItem(ingested[n - 1], items[n])
    IN ingested[Len(items)].catalog

\* The collections of a pass replace the stored ones; a whole pass drops those Plex dropped.
IngestCollections(c, fetched, prune) ==
    LET members(x) == {c.sources[Px(rk)].entry : rk \in {r \in fetched[x] : Px(r) \in DOMAIN c.sources}}
        kept == IF prune THEN {} ELSE DOMAIN c.colls
    IN [c EXCEPT !.colls = [x \in DOMAIN fetched \cup kept |->
                               IF x \in DOMAIN fetched THEN members(x) ELSE c.colls[x]]]

\* Mutant of WritePass: every pass counts as a whole one.
WriteAsFull(c, items, fetched, full, started) ==
    LET written == IngestCollections(IngestItems(c, items), fetched, full)
        swept == IF full THEN MarkEntries(MarkSources(written, "plex", {Px(rk) : rk \in KeyOf(items)}))
                 ELSE written
    IN [swept EXCEPT !.last = started, !.full = started]

\* The write of a pass, in one transaction: only a whole pass says what is gone.
WritePass(c, items, fetched, full, started) ==
    LET written == IngestCollections(IngestItems(c, items), fetched, full)
        swept == IF full THEN MarkEntries(MarkSources(written, "plex", {Px(rk) : rk \in KeyOf(items)}))
                 ELSE written
    IN [swept EXCEPT !.last = started, !.full = IF full THEN started ELSE @]

-----------------------------------------------------------------------------
(* What a pass asks of Plex.                                                  *)

PlexIngestPlan(last, full) ==
    CASE Never \in {last, full} \/ now < last \/ now < full -> "full"
      [] FullSweep = 0 \/ now - full >= FullSweep -> "full"
      [] now - last < Refresh -> "skip"
      [] OTHER -> "delta"

Updated(rk) == IF rk \in Dated THEN plex[rk].changed ELSE Never

\* Mutant of Listed: the cursor as it is, with Plex's strict comparison.
ListedAfter(since) ==
    {rk \in DOMAIN plex : since = Never \/ Updated(rk) > since \/ plex[rk].added > since}

\* What Plex lists: everything, or what changed or came since the second before the cursor.
Listed(since) ==
    {rk \in DOMAIN plex : since = Never \/ Updated(rk) > since - 1 \/ plex[rk].added > since - 1}

\* Mutant of CollectionsFetched: the cursor's own second is left to the pass that set it.
CollectionsAfter(since) ==
    [x \in {y \in DOMAIN colls : since = Never \/ colls[y].changed > since} |-> colls[x].members]

CollectionsFetched(since) ==
    [x \in {y \in DOMAIN colls : since = Never \/ colls[y].changed >= since} |-> colls[x].members]

-----------------------------------------------------------------------------
(* The world.                                                                 *)

Init ==
    /\ now = 0
    /\ disk \in [{} -> {TRUE}] \cup [Paths -> {TRUE}]
    /\ plex = <<>>
    /\ colls = [x \in Collections |-> [members |-> {}, changed |-> 0]]
    /\ catalog = [entries |-> <<>>, sources |-> <<>>, ids |-> <<>>, colls |-> <<>>,
                  last |-> Never, full |-> Never]
    /\ pass = Idle
    /\ budget \in Budgets /\ gone = [rk \in RatingKeys |-> Never] /\ moved = {}

Tick == now < MaxTime /\ now' = now + 1 /\ UNCHANGED <<world, catalog, pass, moved>>

Change(what) ==
    /\ budget[what] > 0 /\ budget' = [budget EXCEPT ![what] = @ - 1]
    /\ UNCHANGED <<now, catalog, pass, moved>>

\* A file comes, or is replaced; a file goes; the whole mount goes, or comes back.
FileWritten(p, sound) ==
    /\ Change("disk")
    /\ p \in DOMAIN disk => disk[p] # sound
    /\ disk' = With(disk, p, sound)
    /\ UNCHANGED <<plex, colls, gone>>
FileGone(lost) ==
    /\ Change("disk")
    /\ lost # {} /\ lost \subseteq DOMAIN disk
    /\ disk' = [p \in DOMAIN disk \ lost |-> disk[p]]
    /\ UNCHANGED <<plex, colls, gone>>

\* Plex takes an item in, matches it anew or finds its file elsewhere.
PlexSets(rk, g, p) ==
    LET item == [guid |-> g, path |-> p, changed |-> now,
                 added |-> IF rk \in DOMAIN plex THEN plex[rk].added ELSE now]
    IN /\ Change("plex")
       /\ rk \in DOMAIN plex => item # [plex[rk] EXCEPT !.changed = now]
       /\ plex' = With(plex, rk, item)
       /\ UNCHANGED <<disk, colls, gone>>

\* Plex loses an item, and its collections with it.
PlexLoses(rk) ==
    /\ Change("plex")
    /\ rk \in DOMAIN plex
    /\ pass.phase = "items" => Shrinks
    /\ plex' = [r \in DOMAIN plex \ {rk} |-> plex[r]]
    /\ gone' = [gone EXCEPT ![rk] = now]
    /\ colls' = [x \in DOMAIN colls |-> [colls[x] EXCEPT !.members = @ \ {rk}]]
    /\ UNCHANGED disk

Curates(x, rk) ==
    /\ Change("colls")
    /\ rk \in DOMAIN plex
    /\ colls' = With(colls, x, [members |-> IF x \in DOMAIN colls THEN SymDiff(colls[x].members, {rk}) ELSE {rk},
                                changed |-> now])
    /\ UNCHANGED <<disk, plex, gone>>
Scraps(x) ==
    /\ Change("colls")
    /\ x \in DOMAIN colls
    /\ colls' = [y \in DOMAIN colls \ {x} |-> colls[y]]
    /\ UNCHANGED <<disk, plex, gone>>

-----------------------------------------------------------------------------
(* The refresh.                                                               *)

\* The disk is walked and every file found is probed; a probe may fail to answer.
Walk(answered) ==
    /\ pass.phase = "idle"
    /\ pass' = [phase |-> "walked", files |-> DOMAIN disk, verdict |-> [p \in answered |-> disk[p]]]
    /\ UNCHANGED <<now, world, catalog, moved>>

\* Plex is left alone, or read from a cursor, or from the beginning, as a forced refresh does.
Planned(c, forced) ==
    LET plan == IF forced THEN "full" ELSE PlexIngestPlan(c.last, c.full)
    IN IF plan = "skip" THEN Idle
       ELSE [phase |-> "items", since |-> IF plan = "full" THEN Never ELSE c.last,
             started |-> now, start |-> 0, items |-> <<>>]

\* The scan is written, or the write fails; either way it is Plex's turn.  A file whose probe did not answer
\* may still go to another entry: the Plex rows there that name it learn nothing of it.
WriteScan(forced) ==
    LET written == IngestFiles(catalog, pass.files, pass.verdict)
        came(p) == Fs(p) \in DOMAIN catalog.sources /\ catalog.sources[Fs(p)].entry # written.sources[Fs(p)].entry
    IN /\ pass.phase = "walked"
       /\ catalog' = written
       /\ moved' = {k \in DOMAIN catalog.sources :
                        /\ k[1] = "plex" /\ catalog.sources[k].path \notin DOMAIN pass.verdict
                        /\ k \in moved \/ came(catalog.sources[k].path)}
       /\ pass' = Planned(written, forced)
       /\ UNCHANGED <<now, world>>
FailScan(forced) ==
    /\ pass.phase = "walked"
    /\ pass' = Planned(catalog, forced)
    /\ UNCHANGED <<now, world, catalog, moved>>

\* A page of one item, taken by its place in what Plex lists at this moment; the last one is
\* full or empty.
FetchPage ==
    LET listed == Listed(pass.since)
        ahead(rk) == Cardinality({r \in listed : r < rk})
        got(rk) == [rk |-> rk, guid |-> plex[rk].guid, path |-> plex[rk].path]
    IN /\ pass.phase = "items"
       /\ \/ \E rk \in listed :
               /\ ahead(rk) = pass.start
               /\ pass' = [pass EXCEPT !.items = Append(@, got(rk)), !.start = @ + 1,
                           !.phase = IF pass.start + 1 < Cardinality(listed) THEN "items" ELSE "collections"]
          \/ /\ pass.start >= Cardinality(listed)
             /\ pass' = [pass EXCEPT !.phase = "collections"]
       /\ UNCHANGED <<now, world, catalog, moved>>

\* The rows that lose their verdict in a pass: new ones, and those that are given another file.
Fresh(c, items) ==
    {Px(items[i].rk) : i \in {j \in DOMAIN items :
        Px(items[j].rk) \in DOMAIN c.sources => c.sources[Px(items[j].rk)].path # items[j].path}}

\* The collections are the last that is read; then everything is written.
Write ==
    LET fetched == CollectionsFetched(pass.since)
        written == WritePass(catalog, pass.items, fetched, pass.since = Never, pass.started)
    IN /\ pass.phase = "collections"
       /\ catalog' = written
       /\ moved' = moved \cup Fresh(catalog, pass.items)
       /\ pass' = Idle
       /\ UNCHANGED <<now, world>>

\* A request fails, or the station is told to stop: what was read is dropped.
Abandon ==
    /\ pass.phase # "idle"
    /\ pass' = Idle
    /\ UNCHANGED <<now, world, catalog, moved>>

World ==
    \/ Tick
    \/ \E p \in Paths : \E sound \in BOOLEAN : FileWritten(p, sound)
    \/ \E p \in Paths : FileGone({p})
    \/ FileGone(Paths)
    \/ \E rk \in RatingKeys : PlexLoses(rk)
    \/ \E rk \in RatingKeys, g \in Guids \cup {NoGuid}, p \in Paths : PlexSets(rk, g, p)
    \/ \E x \in Collections : Scraps(x) \/ \E rk \in RatingKeys : Curates(x, rk)
Pass ==
    \/ \E answered \in {{}, DOMAIN disk} : Walk(answered)
    \/ \E forced \in BOOLEAN : WriteScan(forced) \/ FailScan(forced)
    \/ FetchPage
    \/ Write
    \/ Abandon
Next == World \/ Pass
Spec == Init /\ [][Next]_vars

-----------------------------------------------------------------------------
(* What the catalog promises.                                                 *)

Rows  == [entry : Entries, path : Paths, missing : BOOLEAN, unairable : BOOLEAN]
Films == [guid : Guids \cup {NoGuid}, path : Paths, added : Nat, changed : Nat]
Read  == [rk : RatingKeys, guid : Guids \cup {NoGuid}, path : Paths]

\* The catalog is one: no source, identifier or collection leads to an entry that is not there (the foreign
\* keys of catalog/schema), and the row of a file has the path of the file.
CatalogOK(c) ==
    /\ DOMAIN c = {"entries", "sources", "ids", "colls", "last", "full"}
    /\ DOMAIN c.entries \subseteq Entries /\ c.entries \in [DOMAIN c.entries -> [missing : BOOLEAN]]
    /\ DOMAIN c.sources \subseteq Sources /\ c.sources \in [DOMAIN c.sources -> Rows]
    /\ DOMAIN c.ids \subseteq Guids /\ c.ids \in [DOMAIN c.ids -> DOMAIN c.entries]
    /\ c.colls \in [DOMAIN c.colls -> SUBSET DOMAIN c.entries]
    /\ c.last \in Nat \cup {Never} /\ c.full \in Nat \cup {Never}
    /\ \A k \in DOMAIN c.sources : c.sources[k].entry \in DOMAIN c.entries
    /\ \A p \in Paths : Fs(p) \in DOMAIN c.sources => c.sources[Fs(p)].path = p

PassOK ==
    \/ pass = Idle
    \/ /\ pass.phase = "walked"
       /\ pass \in [phase : {"walked"}, files : SUBSET Paths, verdict : {pass.verdict}]
       /\ DOMAIN pass.verdict \subseteq Paths /\ pass.verdict \in [DOMAIN pass.verdict -> BOOLEAN]
    \/ pass \in [phase : {"items", "collections"}, since : Nat \cup {Never}, started : Nat, start : Nat,
                items : Seq(Read)]

\* The world, the catalog and the pass are of the kinds they should be.
TypeOK ==
    /\ now \in Nat
    /\ DOMAIN disk \subseteq Paths /\ disk \in [DOMAIN disk -> BOOLEAN]
    /\ DOMAIN plex \subseteq RatingKeys /\ plex \in [DOMAIN plex -> Films]
    /\ DOMAIN colls \subseteq Collections
    /\ colls \in [DOMAIN colls -> [members : SUBSET RatingKeys, changed : Nat]]
    /\ gone \in [RatingKeys -> Nat \cup {Never}]
    /\ budget \in [disk : Nat, plex : Nat, colls : Nat]
    /\ CatalogOK(catalog) /\ PassOK /\ moved \subseteq Sources

\* The catalog holds Plex's row of this rating key as Plex has it now.
UpToDate(rk) ==
    /\ Px(rk) \in DOMAIN catalog.sources
    /\ LET row == catalog.sources[Px(rk)]
       IN /\ row.path = plex[rk].path /\ ~row.missing
          /\ ~catalog.entries[row.entry].missing
    /\ plex[rk].guid # NoGuid => plex[rk].guid \in DOMAIN catalog.ids

\* A collection Plex changed before the last pass lists the entry of every member the catalog knows, though
\* members arrive after the items of a pass were read (plex.rs:1469, :605).
CollectionsFollow ==
    \A x \in DOMAIN colls :
        colls[x].changed < catalog.last =>
            /\ x \in DOMAIN catalog.colls
            /\ \A rk \in colls[x].members :
                Px(rk) \in DOMAIN catalog.sources => catalog.sources[Px(rk)].entry \in catalog.colls[x]

\* Whatever Plex changed before the moment the last pass began to read is in the catalog, live, an item as
\* well as a collection: a cursor that jumps ahead of an item loses it until the next whole pass (plex.rs:722,
\* :1356).  An item without an updatedAt is promised its arrival, and its changes only with the whole pass.
NothingLost ==
    /\ CollectionsFollow
    /\ \A rk \in DOMAIN plex :
         (\/ plex[rk].changed < catalog.full
          \/ plex[rk].changed < catalog.last /\ (rk \in Dated \/ plex[rk].added = plex[rk].changed)) => UpToDate(rk)

\* What Plex lost before the last whole pass has no live source of Plex's (catalog/mod.rs:508).
GoneAfterSweep ==
    \A rk \in RatingKeys :
        Px(rk) \in DOMAIN catalog.sources /\ rk \notin DOMAIN plex /\ ~catalog.sources[Px(rk)].missing
            => gone[rk] >= catalog.full

\* No query draws an entry there is nothing to play of (catalog/mod.rs:536), though its sources are marked by
\* two passes, re-attached by a third and merged by a fourth.
NoHollowEntries ==
    \A e \in DOMAIN catalog.entries : ~catalog.entries[e].missing => Live(catalog, e) # {}

\* A missing mark is there when it should be, on sources and entries.
MissingIsRight == GoneAfterSweep /\ NoHollowEntries

\* One file, one entry: a scan's own entry of a file goes when Plex names the title of the file (plex.rs:336),
\* and no later scan makes another (fs.rs:241).
NoTwins ==
    \A k \in DOMAIN catalog.sources :
        LET p == catalog.sources[k].path
            placeholder == catalog.sources[Fs(p)].entry
        IN k[1] = "plex" /\ Fs(p) \in DOMAIN catalog.sources /\ IsFs(placeholder)
           /\ (\A r \in DOMAIN catalog.sources : r[1] = "plex" => catalog.sources[r].entry # placeholder)
           => catalog.sources[k].entry = placeholder

\* A file that a scan found unfit is not played under the name of another source (fs.rs:189): neither the
\* query nor the choice of a source lets it through, unless that source has had no verdict on it yet.
BadFileStaysOut ==
    \A e \in Drawn(catalog) :
        LET k == PlaybackSource(catalog, e)
            p == catalog.sources[k].path
        IN k \notin moved /\ Fs(p) \in DOMAIN catalog.sources /\ catalog.sources[Fs(p)].entry = e
           => ~catalog.sources[Fs(p)].unairable

\* What a pass saw again is back: an entry with a live source is live (docs/adr/0006).
SeenAgainIsLive ==
    \A k \in DOMAIN catalog.sources :
        ~catalog.sources[k].missing => ~catalog.entries[catalog.sources[k].entry].missing
=============================================================================
