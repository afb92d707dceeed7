------------------------ MODULE CatalogIngestProofs ------------------------
(***************************************************************************)
(* What holds of CatalogIngest for any library, disk and clock, and for    *)
(* any number of changes, passes, failures and passes given up.            *)
(***************************************************************************)
EXTENDS CatalogIngest, FiniteSetTheorems, SequenceTheorems, WellFoundedInduction, TLAPS

-----------------------------------------------------------------------------
(* Names and tables *)

LEMMA Keys ==
    /\ \A p : Fs(p)[1] = "local_fs" /\ Fs(p)[2] = p /\ IsFs(FsId(p))
    /\ \A rk : Px(rk)[1] = "plex" /\ Px(rk)[2] = rk
    /\ \A p, rk : Fs(p) # Px(rk)
    /\ \A p, q : Fs(p) = Fs(q) => p = q
    /\ \A rk, q : Px(rk) = Px(q) => rk = q
    /\ \A g : ~IsFs(<<"guid", g>>)
BY DEF Fs, Px, FsId, IsFs

LEMMA KindsOfSources ==
    ASSUME NEW k \in Sources
    PROVE  \/ k[1] = "local_fs" /\ \E p \in Paths : k = Fs(p)
           \/ k[1] = "plex" /\ \E rk \in RatingKeys : k = Px(rk)
<1>1. CASE k \in {Fs(p) : p \in Paths}
  BY <1>1, Keys
<1>2. CASE k \in {Px(rk) : rk \in RatingKeys}
  BY <1>2, Keys
<1> QED BY <1>1, <1>2 DEF Sources

\* What a fresh name is one of.
LEMMA Derived ==
    ASSUME NEW item \in Read
    PROVE  DeriveEntryId(item) \in Entries
BY DEF DeriveEntryId, Entries, Read

\* A catalog has six tables; none goes.
Tables == {"entries", "sources", "ids", "colls", "last", "full"}

-----------------------------------------------------------------------------
(* One item of Plex's.  `Claimed`: a row of Plex's leads to the entry.        *)

Claimed(c, e) == \E k \in DOMAIN c.sources : k[1] = "plex" /\ c.sources[k].entry = e

IndexOK(c, index) == \A p \in DOMAIN index : index[p] \in DOMAIN c.entries

Stale(c, item, index) == Placeholders(c, item, EntryFor(c, item, index), index)

LEMMA EntryFound ==
    ASSUME NEW c, CatalogOK(c), NEW index, IndexOK(c, index), NEW item \in Read
    PROVE  /\ EntryFor(c, item, index) \in Entries
           /\ Px(item.rk) \in DOMAIN c.sources =>
                EntryFor(c, item, index) = c.sources[Px(item.rk)].entry
<1> DEFINE found == ResolveExisting(c, item, index)
           e == EntryFor(c, item, index)
<1>1. Px(item.rk) \in DOMAIN c.sources => found = {c.sources[Px(item.rk)].entry}
  BY DEF ResolveExisting
<1>2. found \subseteq DOMAIN c.entries
  BY DEF ResolveExisting, CatalogOK, IndexOK
<1>3. e = IF found # {} THEN CHOOSE x \in found : TRUE ELSE DeriveEntryId(item)
  BY DEF EntryFor
<1> HIDE DEF found, e
<1>4. found # {} => e \in found
  BY <1>3
<1>5. e \in Entries
  BY <1>2, <1>3, <1>4, Derived DEF CatalogOK
<1> QED BY <1>1, <1>4, <1>5 DEF e

\* A placeholder is on no row of Plex's.
LEMMA StaleUnclaimed ==
    ASSUME NEW c, NEW item, NEW index, NEW s \in Stale(c, item, index)
    PROVE  /\ ~Claimed(c, s) /\ IsFs(s) /\ s # EntryFor(c, item, index)
           /\ item.path \in DOMAIN index /\ index[item.path] = s
BY DEF Stale, Placeholders, Claimed

\* The tables after one item.
ItemWrites(c, index, item, e, stale, r) ==
    /\ r = [catalog |-> r.catalog, index |-> r.index]
    /\ r.index = [p \in DOMAIN index |-> IF index[p] \in stale THEN e ELSE index[p]]
    /\ DOMAIN r.catalog = Tables /\ r.catalog.last = c.last /\ r.catalog.full = c.full
    /\ r.catalog.entries = [x \in DOMAIN c.entries \cup {e} |->
         IF x = e THEN [missing |-> FALSE] ELSE [missing |-> c.entries[x].missing \/ x \in stale]]
    /\ r.catalog.sources = [k \in DOMAIN c.sources \cup {Px(item.rk)} |->
         IF k = Px(item.rk)
         THEN [entry |-> e, path |-> item.path, missing |-> FALSE,
               unairable |-> k \in DOMAIN c.sources /\ c.sources[k].path = item.path /\ c.sources[k].unairable]
         ELSE [c.sources[k] EXCEPT !.entry = Heir(@, stale, e)]]
    /\ r.catalog.ids = IF item.guid = NoGuid THEN [g \in DOMAIN c.ids |-> Heir(c.ids[g], stale, e)]
                       ELSE [g \in DOMAIN c.ids \cup {item.guid} |->
                                IF g = item.guid THEN e ELSE Heir(c.ids[g], stale, e)]
    /\ r.catalog.colls = [x \in DOMAIN c.colls |-> {Heir(y, stale, e) : y \in c.colls[x]}]

LEMMA ItemTables ==
    ASSUME NEW c, CatalogOK(c), NEW index, NEW item \in Read,
           NEW e, e = EntryFor(c, item, index), NEW stale, stale = Stale(c, item, index),
           NEW r, r = IngestItem([catalog |-> c, index |-> index], item)
    PROVE  ItemWrites(c, index, item, e, stale, r)
<1> DEFINE m == MergeEntry(c, stale, e)
           u == UpsertEntry(m, e)
           ids == IF item.guid = NoGuid THEN u.ids ELSE With(u.ids, item.guid, e)
           w == [u EXCEPT !.ids = ids]
           k0 == Px(item.rk)
           z == AddSource(w, k0, e, item.path)
<1>0. DOMAIN c = Tables
  BY DEF CatalogOK, Tables
<1>1. /\ DOMAIN m = Tables /\ m.last = c.last /\ m.full = c.full
      /\ m.entries = [x \in DOMAIN c.entries |-> [c.entries[x] EXCEPT !.missing = @ \/ x \in stale]]
      /\ m.sources = [k \in DOMAIN c.sources |-> [c.sources[k] EXCEPT !.entry = Heir(@, stale, e)]]
      /\ m.ids = [g \in DOMAIN c.ids |-> Heir(c.ids[g], stale, e)]
      /\ m.colls = [x \in DOMAIN c.colls |-> {Heir(y, stale, e) : y \in c.colls[x]}]
  <2> DEFINE me == [x \in DOMAIN c.entries |-> [c.entries[x] EXCEPT !.missing = @ \/ x \in stale]]
             ms == [k \in DOMAIN c.sources |-> [c.sources[k] EXCEPT !.entry = Heir(@, stale, e)]]
             mi == [g \in DOMAIN c.ids |-> Heir(c.ids[g], stale, e)]
             mc == [x \in DOMAIN c.colls |-> {Heir(y, stale, e) : y \in c.colls[x]}]
  <2>1. m = [c EXCEPT !.sources = ms, !.ids = mi, !.colls = mc, !.entries = me]
    BY DEF MergeEntry
  <2> HIDE DEF me, ms, mi, mc, m
  <2>2. /\ DOMAIN m = Tables /\ m.last = c.last /\ m.full = c.full
        /\ m.entries = me /\ m.sources = ms /\ m.ids = mi /\ m.colls = mc
    BY <1>0, <2>1 DEF Tables
  <2> QED BY <2>2 DEF me, ms, mi, mc
<1>2. /\ DOMAIN u = Tables /\ u.last = m.last /\ u.full = m.full
      /\ u.entries = With(m.entries, e, [missing |-> FALSE])
      /\ u.sources = m.sources /\ u.ids = m.ids /\ u.colls = m.colls
  <2> DEFINE ue == With(m.entries, e, [missing |-> FALSE])
  <2>1. u = [m EXCEPT !.entries = ue]
    BY DEF UpsertEntry
  <2>2. DOMAIN m = Tables
    BY <1>1
  <2> HIDE DEF ue, u, m
  <2>3. /\ DOMAIN u = Tables /\ u.last = m.last /\ u.full = m.full /\ u.entries = ue
        /\ u.sources = m.sources /\ u.ids = m.ids /\ u.colls = m.colls
    BY <2>1, <2>2 DEF Tables
  <2> QED BY <2>3 DEF ue
<1>3. r = [catalog |-> z, index |-> [p \in DOMAIN index |-> IF index[p] \in stale THEN e ELSE index[p]]]
  BY DEF IngestItem, Stale
<1> HIDE DEF m, u
<1>4. /\ DOMAIN w = Tables /\ w.last = u.last /\ w.full = u.full /\ w.entries = u.entries
      /\ w.sources = m.sources /\ w.ids = ids /\ w.colls = m.colls
  <2>1. DOMAIN u = Tables /\ u.sources = m.sources /\ u.colls = m.colls
    BY <1>2
  <2> HIDE DEF ids
  <2> QED BY <2>1 DEF Tables
<1> HIDE DEF w
<1>a. /\ DOMAIN z = Tables /\ z.last = w.last /\ z.full = w.full /\ z.entries = w.entries
      /\ z.sources = With(w.sources, k0, Row(w, k0, e, item.path)) /\ z.ids = w.ids /\ z.colls = w.colls
  <2> DEFINE zs == With(w.sources, k0, Row(w, k0, e, item.path))
  <2>1. z = [w EXCEPT !.sources = zs]
    BY DEF AddSource
  <2>2. DOMAIN w = Tables
    BY <1>4
  <2> HIDE DEF zs, z
  <2>3. /\ DOMAIN z = Tables /\ z.last = w.last /\ z.full = w.full /\ z.entries = w.entries
        /\ z.sources = zs /\ z.ids = w.ids /\ z.colls = w.colls
    BY <2>1, <2>2 DEF Tables
  <2> QED BY <2>3 DEF zs
<1> HIDE DEF z
<1>5. w.entries = [x \in DOMAIN c.entries \cup {e} |->
                IF x = e THEN [missing |-> FALSE] ELSE [missing |-> c.entries[x].missing \/ x \in stale]]
  <2>1. \A x \in DOMAIN c.entries : m.entries[x] = [missing |-> c.entries[x].missing \/ x \in stale]
    BY <1>1 DEF CatalogOK
  <2>2. DOMAIN m.entries = DOMAIN c.entries
    BY <1>1
  <2>3. w.entries = [x \in DOMAIN m.entries \cup {e} |-> IF x = e THEN [missing |-> FALSE] ELSE m.entries[x]]
    BY <1>2, <1>4 DEF With, Over
  <2> QED BY <2>1, <2>2, <2>3
<1>6. \A k : k = k0 => Row(w, k0, e, item.path) =
        [entry |-> e, path |-> item.path, missing |-> FALSE,
         unairable |-> k \in DOMAIN c.sources /\ c.sources[k].path = item.path /\ c.sources[k].unairable]
  <2>1. DOMAIN w.sources = DOMAIN c.sources
    BY <1>1, <1>4
  <2>2. k0 \in DOMAIN c.sources => /\ w.sources[k0].path = c.sources[k0].path
                                   /\ w.sources[k0].unairable = c.sources[k0].unairable
    BY <1>1, <1>4 DEF CatalogOK, Rows
  <2> QED BY <2>1, <2>2 DEF Row
<1>7. z.sources = [k \in DOMAIN c.sources \cup {k0} |->
            IF k = k0 THEN Row(w, k0, e, item.path) ELSE [c.sources[k] EXCEPT !.entry = Heir(@, stale, e)]]
  <2>1. w.sources = [k \in DOMAIN c.sources |-> [c.sources[k] EXCEPT !.entry = Heir(@, stale, e)]]
    BY <1>1, <1>4
  <2>2. z.sources = [k \in DOMAIN w.sources \cup {k0} |-> IF k = k0 THEN Row(w, k0, e, item.path) ELSE w.sources[k]]
    BY <1>a DEF With, Over
  <2> HIDE DEF k0
  <2> QED BY <2>1, <2>2
<1>8. z.ids = IF item.guid = NoGuid THEN [g \in DOMAIN c.ids |-> Heir(c.ids[g], stale, e)]
              ELSE [g \in DOMAIN c.ids \cup {item.guid} |->
                       IF g = item.guid THEN e ELSE Heir(c.ids[g], stale, e)]
  <2>1. m.ids = [g \in DOMAIN c.ids |-> Heir(c.ids[g], stale, e)]
    BY <1>1
  <2>2. With(m.ids, item.guid, e) = [g \in DOMAIN m.ids \cup {item.guid} |-> IF g = item.guid THEN e ELSE m.ids[g]]
    BY DEF With, Over
  <2> QED BY <1>2, <1>4, <1>a, <2>1, <2>2
<1>9. r.catalog = z /\ r.index = [p \in DOMAIN index |-> IF index[p] \in stale THEN e ELSE index[p]]
      /\ r = [catalog |-> r.catalog, index |-> r.index]
  BY <1>3
<1>10. z.sources = [k \in DOMAIN c.sources \cup {k0} |->
                IF k = k0
                THEN [entry |-> e, path |-> item.path, missing |-> FALSE,
                      unairable |-> k \in DOMAIN c.sources /\ c.sources[k].path = item.path /\ c.sources[k].unairable]
                ELSE [c.sources[k] EXCEPT !.entry = Heir(@, stale, e)]]
  BY <1>6, <1>7, Zenon
<1> QED BY <1>1, <1>2, <1>4, <1>a, <1>5, <1>8, <1>9, <1>10, Zenon DEF ItemWrites

-----------------------------------------------------------------------------
(* The promises, of a catalog *)

\* NoHollowEntries and NoTwins of CatalogIngest, of any catalog.
Hollowless(c) == \A e \in DOMAIN c.entries : ~c.entries[e].missing => Live(c, e) # {}
Twinless(c) ==
    \A k \in DOMAIN c.sources :
        /\ k[1] = "plex" /\ Fs(c.sources[k].path) \in DOMAIN c.sources
        /\ IsFs(c.sources[Fs(c.sources[k].path)].entry)
        => Claimed(c, c.sources[Fs(c.sources[k].path)].entry)

\* The index of a pass leads from a file to the entry its scan made of it, as long as
\* no row of Plex's leads there too.
Leads(c, index) ==
    \A p \in Paths :
        Fs(p) \in DOMAIN c.sources /\ IsFs(c.sources[Fs(p)].entry) /\ ~Claimed(c, c.sources[Fs(p)].entry)
            => p \in DOMAIN index /\ index[p] = c.sources[Fs(p)].entry

\* What one item changes, and what it leaves alone.
ItemTakes(c, d, item) ==
    /\ DOMAIN d.sources = DOMAIN c.sources \cup {Px(item.rk)}
    /\ \A k \in DOMAIN c.sources : k[1] = "plex" => d.sources[k].entry = c.sources[k].entry
    /\ \A k \in DOMAIN c.sources : k[1] = "plex" /\ k # Px(item.rk) => d.sources[k] = c.sources[k]
    /\ d.sources[Px(item.rk)].path = item.path /\ ~d.sources[Px(item.rk)].missing
    /\ ~d.entries[d.sources[Px(item.rk)].entry].missing
    /\ DOMAIN c.entries \subseteq DOMAIN d.entries
    /\ \A e \in DOMAIN c.entries : Claimed(c, e) /\ ~c.entries[e].missing => ~d.entries[e].missing
    /\ DOMAIN c.ids \subseteq DOMAIN d.ids /\ (item.guid # NoGuid => item.guid \in DOMAIN d.ids)
    /\ DOMAIN d.colls = DOMAIN c.colls
    /\ \A x \in DOMAIN c.colls : \A e \in c.colls[x] : Claimed(c, e) => e \in d.colls[x]
    /\ d.last = c.last /\ d.full = c.full

LEMMA ItemIsTaken ==
    ASSUME NEW c, CatalogOK(c), NEW index, IndexOK(c, index), NEW item \in Read,
           NEW r, r = IngestItem([catalog |-> c, index |-> index], item)
    PROVE  /\ r = [catalog |-> r.catalog, index |-> r.index]
           /\ CatalogOK(r.catalog) /\ IndexOK(r.catalog, r.index)
           /\ ItemTakes(c, r.catalog, item)
           /\ Hollowless(c) => Hollowless(r.catalog)
           /\ Twinless(c) /\ Leads(c, index) => Twinless(r.catalog) /\ Leads(r.catalog, r.index)
<1> DEFINE e == EntryFor(c, item, index)
           stale == Stale(c, item, index)
           d == r.catalog
           k0 == Px(item.rk)
<1>0. e = EntryFor(c, item, index) /\ stale = Stale(c, item, index)
  OBVIOUS
<1> HIDE DEF e, stale
<1>a. ItemWrites(c, index, item, e, stale, r)
  BY <1>0, ItemTables
<1>1. /\ r = [catalog |-> r.catalog, index |-> r.index]
      /\ r.index = [p \in DOMAIN index |-> IF index[p] \in stale THEN e ELSE index[p]]
      /\ DOMAIN d = Tables /\ d.last = c.last /\ d.full = c.full
      /\ d.entries = [x \in DOMAIN c.entries \cup {e} |->
           IF x = e THEN [missing |-> FALSE] ELSE [missing |-> c.entries[x].missing \/ x \in stale]]
      /\ d.sources = [k \in DOMAIN c.sources \cup {k0} |->
           IF k = k0
           THEN [entry |-> e, path |-> item.path, missing |-> FALSE,
                 unairable |-> k \in DOMAIN c.sources /\ c.sources[k].path = item.path /\ c.sources[k].unairable]
           ELSE [c.sources[k] EXCEPT !.entry = Heir(@, stale, e)]]
      /\ d.ids = IF item.guid = NoGuid THEN [g \in DOMAIN c.ids |-> Heir(c.ids[g], stale, e)]
                 ELSE [g \in DOMAIN c.ids \cup {item.guid} |->
                          IF g = item.guid THEN e ELSE Heir(c.ids[g], stale, e)]
      /\ d.colls = [x \in DOMAIN c.colls |-> {Heir(y, stale, e) : y \in c.colls[x]}]
  BY <1>a, Zenon DEF ItemWrites
<1>2. /\ e \in Entries /\ (k0 \in DOMAIN c.sources => e = c.sources[k0].entry)
      /\ e \notin stale
      /\ \A s \in stale : ~Claimed(c, s) /\ IsFs(s) /\ item.path \in DOMAIN index /\ index[item.path] = s
  BY <1>0, EntryFound, StaleUnclaimed
<1>3. k0 \in Sources /\ k0[1] = "plex" /\ item.path \in Paths /\ item.guid \in Guids \cup {NoGuid}
  BY Keys DEF Sources, Read
<1>4. \A k \in DOMAIN c.sources : k[1] = "plex" => Claimed(c, c.sources[k].entry)
  BY DEF Claimed
<1> HIDE DEF d
<1>5. /\ DOMAIN d.entries = DOMAIN c.entries \cup {e} /\ ~d.entries[e].missing
      /\ \A x \in DOMAIN c.entries : x # e => d.entries[x].missing = (c.entries[x].missing \/ x \in stale)
      /\ d.entries \in [DOMAIN d.entries -> [missing : BOOLEAN]]
  BY <1>1 DEF CatalogOK
<1>6. /\ DOMAIN d.sources = DOMAIN c.sources \cup {k0}
      /\ d.sources[k0].entry = e /\ d.sources[k0].path = item.path /\ ~d.sources[k0].missing
      /\ d.sources[k0] \in Rows
  BY <1>1, <1>2, <1>3 DEF Rows, CatalogOK
<1>7. ASSUME NEW k \in DOMAIN c.sources, k # k0
      PROVE  /\ d.sources[k].entry = Heir(c.sources[k].entry, stale, e)
             /\ d.sources[k].path = c.sources[k].path /\ d.sources[k].missing = c.sources[k].missing
             /\ d.sources[k] \in Rows
             /\ c.sources[k].entry \notin stale => d.sources[k] = c.sources[k]
  <2>1. d.sources[k] = [c.sources[k] EXCEPT !.entry = Heir(@, stale, e)]
    BY <1>1, <1>7
  <2>2. c.sources[k] \in Rows
    BY <1>7 DEF CatalogOK
  <2>3. Heir(c.sources[k].entry, stale, e) \in Entries
    BY <1>2, <2>2 DEF Heir, Rows
  <2>4. c.sources[k].entry \notin stale => Heir(c.sources[k].entry, stale, e) = c.sources[k].entry
    BY DEF Heir
  <2> QED BY <2>1, <2>2, <2>3, <2>4 DEF Rows
<1>8. \A k \in DOMAIN c.sources : k[1] = "plex" => c.sources[k].entry \notin stale
  BY <1>2, <1>4
<1>9. \A k \in DOMAIN d.sources : d.sources[k] \in Rows
  BY <1>6, <1>7
<1>10. \A k \in DOMAIN c.sources :
         /\ k[1] = "plex" => d.sources[k].entry = c.sources[k].entry
         /\ d.sources[k].entry = Heir(c.sources[k].entry, stale, e)
         /\ k # k0 => d.sources[k].path = c.sources[k].path /\ d.sources[k].missing = c.sources[k].missing
  <2> SUFFICES ASSUME NEW k \in DOMAIN c.sources
               PROVE  /\ k[1] = "plex" => d.sources[k].entry = c.sources[k].entry
                      /\ d.sources[k].entry = Heir(c.sources[k].entry, stale, e)
                      /\ k # k0 => d.sources[k].path = c.sources[k].path /\ d.sources[k].missing = c.sources[k].missing
    OBVIOUS
  <2>1. CASE k = k0
    BY <1>2, <1>3, <1>6, <2>1 DEF Heir
  <2>2. CASE k # k0
    BY <1>7, <1>8, <2>2 DEF Heir
  <2> QED BY <2>1, <2>2
<1>11. CatalogOK(d)
  <2>1. DOMAIN d = {"entries", "sources", "ids", "colls", "last", "full"}
    BY <1>1 DEF Tables
  <2>2. DOMAIN d.entries \subseteq Entries /\ d.entries \in [DOMAIN d.entries -> [missing : BOOLEAN]]
    BY <1>2, <1>5 DEF CatalogOK
  <2>3. DOMAIN d.sources \subseteq Sources /\ d.sources \in [DOMAIN d.sources -> Rows]
    <3>1. d.sources = [k \in DOMAIN d.sources |-> d.sources[k]]
      BY <1>1
    <3> QED BY <1>3, <1>6, <1>9, <3>1 DEF CatalogOK
  <2>4. \A x \in DOMAIN c.entries : Heir(x, stale, e) \in DOMAIN d.entries
    BY <1>5 DEF Heir
  <2>5. DOMAIN d.ids \subseteq Guids /\ d.ids \in [DOMAIN d.ids -> DOMAIN d.entries]
    <3>1. DOMAIN c.ids \subseteq Guids /\ \A g \in DOMAIN c.ids : c.ids[g] \in DOMAIN c.entries
      BY DEF CatalogOK
    <3>2. CASE item.guid = NoGuid
      BY <1>1, <2>4, <3>1, <3>2
    <3>3. CASE item.guid # NoGuid
      BY <1>1, <1>3, <1>5, <2>4, <3>1, <3>3
    <3> QED BY <3>2, <3>3
  <2>6. d.colls \in [DOMAIN d.colls -> SUBSET DOMAIN d.entries]
    <3>1. \A x \in DOMAIN c.colls : c.colls[x] \subseteq DOMAIN c.entries
      BY DEF CatalogOK
    <3>2. \A x \in DOMAIN c.colls : {Heir(y, stale, e) : y \in c.colls[x]} \in SUBSET DOMAIN d.entries
      BY <2>4, <3>1
    <3> QED BY <1>1, <3>2
  <2>7. d.last \in Nat \cup {Never} /\ d.full \in Nat \cup {Never}
    BY <1>1 DEF CatalogOK
  <2>8. \A k \in DOMAIN d.sources : d.sources[k].entry \in DOMAIN d.entries
    BY <1>5, <1>6, <1>10, <2>4 DEF CatalogOK
  <2>9. \A p \in Paths : Fs(p) \in DOMAIN d.sources => d.sources[Fs(p)].path = p
    BY <1>6, <1>10, Keys DEF CatalogOK
  <2> QED BY <2>1, <2>2, <2>3, <2>5, <2>6, <2>7, <2>8, <2>9 DEF CatalogOK
<1>12. IndexOK(d, r.index)
  BY <1>1, <1>5 DEF IndexOK
<1>13. ItemTakes(c, d, item)
  <2>1. \A k \in DOMAIN c.sources : k[1] = "plex" /\ k # k0 => d.sources[k] = c.sources[k]
    BY <1>7, <1>8
  <2>2. \A x \in DOMAIN c.entries : Claimed(c, x) /\ ~c.entries[x].missing => ~d.entries[x].missing
    BY <1>2, <1>5
  <2>3. DOMAIN c.ids \subseteq DOMAIN d.ids /\ (item.guid # NoGuid => item.guid \in DOMAIN d.ids)
    BY <1>1
  <2>4. DOMAIN d.colls = DOMAIN c.colls
    BY <1>1
  <2>5. ASSUME NEW x \in DOMAIN c.colls, NEW y \in c.colls[x], Claimed(c, y) PROVE y \in d.colls[x]
    <3>1. Heir(y, stale, e) = y
      BY <1>2, <2>5 DEF Heir
    <3>2. d.colls[x] = {Heir(z, stale, e) : z \in c.colls[x]}
      BY <1>1
    <3> QED BY <3>1, <3>2
  <2> QED BY <1>1, <1>5, <1>6, <1>10, <2>1, <2>2, <2>3, <2>4, <2>5 DEF ItemTakes
<1>14. ASSUME Hollowless(c) PROVE Hollowless(d)
  <2> SUFFICES ASSUME NEW x \in DOMAIN d.entries, ~d.entries[x].missing PROVE Live(d, x) # {}
    BY DEF Hollowless
  <2>1. CASE x = e
    BY <1>6, <2>1 DEF Live
  <2>2. CASE x # e
    <3>1. x \in DOMAIN c.entries /\ ~c.entries[x].missing /\ x \notin stale
      BY <1>5, <2>2
    <3>2. PICK k \in DOMAIN c.sources : c.sources[k].entry = x /\ ~c.sources[k].missing
      BY <1>14, <3>1 DEF Hollowless, Live
    <3>3. k # k0
      BY <1>2, <2>2, <3>2
    <3>4. k \in DOMAIN d.sources /\ d.sources[k].entry = x /\ ~d.sources[k].missing
      BY <1>6, <1>10, <3>1, <3>2, <3>3 DEF Heir
    <3> QED BY <3>4 DEF Live
  <2> QED BY <2>1, <2>2
\* What a row of Plex's leads to is led to still, and by the heir of what it was.
<1>15. Claimed(d, e) /\ \A x : Claimed(c, x) => Claimed(d, x)
  <2>1. Claimed(d, e)
    BY <1>3, <1>6 DEF Claimed
  <2>2. ASSUME NEW x, Claimed(c, x) PROVE Claimed(d, x)
    BY <1>6, <1>10, <2>2 DEF Claimed
  <2> QED BY <2>1, <2>2
\* A file whose entry no row of Plex's leads to had that entry before.
<1>16. ASSUME NEW p \in Paths, Fs(p) \in DOMAIN d.sources, ~Claimed(d, d.sources[Fs(p)].entry)
       PROVE  /\ Fs(p) \in DOMAIN c.sources /\ d.sources[Fs(p)].entry = c.sources[Fs(p)].entry
              /\ d.sources[Fs(p)].entry \notin stale /\ ~Claimed(c, c.sources[Fs(p)].entry)
  <2>1. Fs(p) \in DOMAIN c.sources
    BY <1>6, <1>16, Keys
  <2>2. d.sources[Fs(p)].entry = Heir(c.sources[Fs(p)].entry, stale, e)
    BY <1>10, <2>1
  <2>3. c.sources[Fs(p)].entry \notin stale
    BY <1>15, <1>16, <2>2 DEF Heir
  <2> QED BY <1>15, <1>16, <2>1, <2>2, <2>3 DEF Heir
<1>17. ASSUME Twinless(c), Leads(c, index) PROVE Twinless(d) /\ Leads(d, r.index)
  <2>1. ASSUME NEW p \in Paths, Fs(p) \in DOMAIN d.sources, IsFs(d.sources[Fs(p)].entry),
               ~Claimed(d, d.sources[Fs(p)].entry)
        PROVE  /\ p \in DOMAIN index /\ index[p] = d.sources[Fs(p)].entry
               /\ r.index[p] = d.sources[Fs(p)].entry
    <3>1. p \in DOMAIN index /\ index[p] = d.sources[Fs(p)].entry /\ index[p] \notin stale
      BY <1>16, <1>17, <2>1 DEF Leads
    <3> QED BY <1>1, <3>1
  <2>2. Leads(d, r.index)
    BY <1>1, <2>1 DEF Leads
  <2>3. ASSUME NEW k \in DOMAIN d.sources, k[1] = "plex", Fs(d.sources[k].path) \in DOMAIN d.sources,
               IsFs(d.sources[Fs(d.sources[k].path)].entry),
               ~Claimed(d, d.sources[Fs(d.sources[k].path)].entry)
        PROVE  FALSE
    <3> DEFINE p == d.sources[k].path
               s == d.sources[Fs(p)].entry
    <3>1. p \in Paths
      BY <1>9, <2>3 DEF Rows
    <3>2. /\ Fs(p) \in DOMAIN c.sources /\ s = c.sources[Fs(p)].entry /\ s \notin stale
          /\ ~Claimed(c, s) /\ p \in DOMAIN index /\ index[p] = s /\ IsFs(s)
      BY <1>16, <2>1, <2>3, <3>1
    <3>3. CASE k = k0
      <4>1. p = item.path
        BY <1>6, <3>3
      <4>2. s # e
        BY <1>15, <2>3
      <4>3. s \in Stale(c, item, index)
        <5> HIDE DEF p, s
        <5> QED BY <1>0, <3>2, <4>1, <4>2 DEF Stale, Placeholders, Claimed
      <4> QED BY <1>0, <3>2, <4>3
    <3>4. CASE k # k0
      <4>1. k \in DOMAIN c.sources /\ c.sources[k].path = p
        BY <1>6, <1>10, <3>4
      <4> QED BY <1>17, <2>3, <3>2, <4>1 DEF Twinless
    <3> QED BY <3>3, <3>4
  <2> QED BY <2>2, <2>3 DEF Twinless
<1> QED BY <1>1, <1>11, <1>12, <1>13, <1>14, <1>17 DEF d

-----------------------------------------------------------------------------
(* What is known of files *)

\* A file that is known unfit is known unfit on every row of Plex's that names it on its
\* entry, but for some rows.
Judged(c, but) ==
    \A k \in DOMAIN c.sources :
        /\ k[1] = "plex" /\ k \notin but /\ Fs(c.sources[k].path) \in DOMAIN c.sources
        /\ c.sources[Fs(c.sources[k].path)].entry = c.sources[k].entry
        /\ c.sources[Fs(c.sources[k].path)].unairable
        => c.sources[k].unairable

\* An item that names the file it named takes no verdict away, and a placeholder that is
\* folded away brings no file to a row that names it.
LEMMA ItemIsJudged ==
    ASSUME NEW c, CatalogOK(c), NEW index, IndexOK(c, index), NEW item \in Read,
           NEW r, r = IngestItem([catalog |-> c, index |-> index], item),
           Twinless(c), NEW but, Judged(c, but),
           Px(item.rk) \notin but =>
             Px(item.rk) \in DOMAIN c.sources /\ c.sources[Px(item.rk)].path = item.path
    PROVE  Judged(r.catalog, but)
<1> DEFINE e == EntryFor(c, item, index)
           stale == Stale(c, item, index)
           d == r.catalog
           k0 == Px(item.rk)
<1>1. ItemWrites(c, index, item, e, stale, r)
  BY ItemTables
<1>2. \A s \in stale : ~Claimed(c, s) /\ IsFs(s)
  BY StaleUnclaimed
<1>3. k0 \in DOMAIN c.sources => e = c.sources[k0].entry
  BY EntryFound
<1>4. k0[1] = "plex" /\ \A p : Fs(p) # k0
  BY Keys
<1> HIDE DEF e, stale, k0
<1>5. /\ DOMAIN d.sources = DOMAIN c.sources \cup {k0}
      /\ d.sources[k0].entry = e /\ d.sources[k0].path = item.path
      /\ d.sources[k0].unairable = (k0 \in DOMAIN c.sources /\ c.sources[k0].path = item.path
                                                          /\ c.sources[k0].unairable)
  BY <1>1 DEF ItemWrites, k0
<1>6. ASSUME NEW k \in DOMAIN c.sources, k # k0
      PROVE  /\ d.sources[k].entry = Heir(c.sources[k].entry, stale, e)
             /\ d.sources[k].path = c.sources[k].path /\ d.sources[k].unairable = c.sources[k].unairable
  <2>1. c.sources[k] \in Rows
    BY DEF CatalogOK
  <2>2. d.sources[k] = [c.sources[k] EXCEPT !.entry = Heir(@, stale, e)]
    BY <1>1, <1>6 DEF ItemWrites, k0
  <2> QED BY <2>1, <2>2 DEF Rows
<1> HIDE DEF d
<1> SUFFICES ASSUME NEW k \in DOMAIN d.sources, k[1] = "plex", k \notin but,
                    Fs(d.sources[k].path) \in DOMAIN d.sources,
                    d.sources[Fs(d.sources[k].path)].entry = d.sources[k].entry,
                    d.sources[Fs(d.sources[k].path)].unairable
             PROVE  d.sources[k].unairable
  BY DEF Judged, d
<1> DEFINE p == d.sources[k].path
<1>7. Fs(p) \in DOMAIN c.sources /\ c.sources[Fs(p)].unairable
      /\ d.sources[Fs(p)].entry = Heir(c.sources[Fs(p)].entry, stale, e)
  BY <1>4, <1>5, <1>6
<1>8. k \in DOMAIN c.sources /\ c.sources[k].path = p /\ d.sources[k].entry = c.sources[k].entry
  <2>1. CASE k = k0
    BY <1>3, <1>5, <2>1 DEF k0
  <2>2. CASE k # k0
    <3>1. k \in DOMAIN c.sources
      BY <1>5, <2>2
    <3>2. c.sources[k].entry \notin stale
      BY <1>2, <3>1 DEF Claimed
    <3> QED BY <1>6, <2>2, <3>1, <3>2 DEF Heir
  <2> QED BY <2>1, <2>2
<1>9. c.sources[Fs(p)].entry \notin stale
  BY <1>2, <1>7, <1>8 DEF Twinless
<1>10. c.sources[k].unairable
  BY <1>7, <1>8, <1>9 DEF Judged, Heir
<1> QED BY <1>5, <1>6, <1>8, <1>10

-----------------------------------------------------------------------------
(* The items of a pass, one after the other.  IngestItems is a recursive       *)
(* function, so what it returns is shown by induction on the number of items.  *)

\* Induction over a set of naturals: the least number that is not in it would
\* have a predecessor that is.
LEMMA SetInduction ==
    ASSUME NEW S, 0 \in S, \A n \in Nat : n \in S => n + 1 \in S
    PROVE  \A n \in Nat : n \in S
<1> SUFFICES ASSUME NEW k \in Nat, k \notin S PROVE FALSE
  OBVIOUS
<1> DEFINE T == {n \in Nat : n \notin S}
           R == OpToRel(<, Nat)
<1>1. T \subseteq Nat /\ T # {}
  OBVIOUS
<1>2. IsWellFoundedOn(R, Nat)
  BY NatLessThanWellFounded DEF OpToRel
<1>3. \A m \in T : m - 1 \in T /\ <<m - 1, m>> \in R
  BY DEF OpToRel
<1> HIDE DEF T, R
<1>4. PICK m \in T : \A y \in T : ~(<<y, m>> \in R)
  BY <1>1, <1>2, WFMin
<1> QED BY <1>3, <1>4

\* The function IngestItems defines: the catalog and the index after n items.
Turn(f, c, items, n) ==
    IF n = 0 THEN [catalog |-> c, index |-> CanonicalIndex(c)] ELSE IngestItem(f[n - 1], items[n])
Turns(f, c, items, m) == f = [n \in 0 .. m |-> Turn(f, c, items, n)]
Turned(c, items) == CHOOSE f : Turns(f, c, items, Len(items))

LEMMA TurnsAt ==
    ASSUME NEW c, NEW items, NEW m, NEW f, Turns(f, c, items, m), NEW n \in 0 .. m
    PROVE  f[n] = Turn(f, c, items, n)
<1> DEFINE g == [i \in 0 .. m |-> Turn(f, c, items, i)]
<1>1. f = g
  BY DEF Turns
<1>2. g[n] = Turn(f, c, items, n)
  OBVIOUS
<1> QED BY <1>1, <1>2

LEMMA TurnsExist ==
    ASSUME NEW c, NEW items
    PROVE  \A m \in Nat : \E f : Turns(f, c, items, m)
<1> DEFINE Q == {m \in Nat : \E f : Turns(f, c, items, m)}
<1>1. 0 \in Q
  <2>1. Turns([n \in 0 .. 0 |-> [catalog |-> c, index |-> CanonicalIndex(c)]], c, items, 0)
    BY DEF Turns, Turn
  <2> QED BY <2>1
<1>2. ASSUME NEW m \in Nat, m \in Q PROVE m + 1 \in Q
  <2>1. PICK f : Turns(f, c, items, m)
    BY <1>2
  <2> DEFINE g == [n \in 0 .. m + 1 |-> IF n = m + 1 THEN IngestItem(f[m], items[m + 1]) ELSE f[n]]
  <2>2. ASSUME NEW n \in 0 .. m + 1 PROVE g[n] = Turn(g, c, items, n)
    <3>1. CASE n = m + 1
      <4>1. g[n] = IngestItem(f[m], items[m + 1])
        BY <3>1
      <4>2. g[n - 1] = f[m] /\ n # 0
        BY <3>1
      <4> HIDE DEF g
      <4> QED BY <3>1, <4>1, <4>2 DEF Turn
    <3>2. CASE n = 0
      BY <2>1, <3>2, TurnsAt DEF Turn
    <3>3. CASE n \in 1 .. m
      <4>1. g[n] = f[n] /\ g[n - 1] = f[n - 1]
        BY <3>3
      <4>2. f[n] = Turn(f, c, items, n)
        BY <2>1, <3>3, TurnsAt
      <4> HIDE DEF g
      <4> QED BY <3>3, <4>1, <4>2 DEF Turn
    <3> QED BY <3>1, <3>2, <3>3
  <2>3. Turns(g, c, items, m + 1)
    <3>1. g = [n \in 0 .. m + 1 |-> g[n]]
      OBVIOUS
    <3> HIDE DEF g
    <3> QED BY <2>2, <3>1 DEF Turns
  <2> QED BY <2>3
<1> HIDE DEF Q
<1>3. \A m \in Nat : m \in Q
  BY <1>1, <1>2, SetInduction
<1> QED BY <1>3 DEF Q

LEMMA ItemsTurn ==
    ASSUME NEW c, NEW items \in Seq(Read)
    PROVE  /\ Turns(Turned(c, items), c, items, Len(items))
           /\ IngestItems(c, items) = Turned(c, items)[Len(items)].catalog
<1>1. \E f : Turns(f, c, items, Len(items))
  <2>1. Len(items) \in Nat
    BY LenProperties
  <2> QED BY <2>1, TurnsExist
<1>2. Turns(Turned(c, items), c, items, Len(items))
  BY <1>1 DEF Turned
<1>3. IngestItems(c, items) = Turned(c, items)[Len(items)].catalog
  BY DEF IngestItems, Turned, Turns, Turn
<1> QED BY <1>2, <1>3

-----------------------------------------------------------------------------
(* The index a pass begins with *)

\* A finite set of numbers has a largest one.
LEMMA Largest ==
    ASSUME NEW T, T \subseteq Nat, IsFiniteSet(T), T # {}
    PROVE  \E m \in T : \A n \in T : ~(m < n)
<1> DEFINE Q == {n \in Nat : \A S \in SUBSET Nat : IsFiniteSet(S) /\ Cardinality(S) = n /\ S # {}
                                => \E m \in S : \A x \in S : ~(m < x)}
<1>1. 0 \in Q
  BY FS_EmptySet
<1>2. ASSUME NEW n \in Nat, n \in Q PROVE n + 1 \in Q
  <2> SUFFICES ASSUME NEW S \in SUBSET Nat, IsFiniteSet(S), Cardinality(S) = n + 1, S # {}
               PROVE  \E m \in S : \A x \in S : ~(m < x)
    OBVIOUS
  <2>1. PICK y : y \in S
    OBVIOUS
  <2>2. IsFiniteSet(S \ {y}) /\ Cardinality(S \ {y}) = n
    <3>1. IsFiniteSet(S \ {y}) /\ Cardinality(S \ {y}) = Cardinality(S) - 1
      BY <2>1, FS_RemoveElement
    <3> QED BY <3>1
  <2>3. CASE S \ {y} = {}
    BY <2>1, <2>3
  <2>4. CASE S \ {y} # {}
    <3>1. PICK m \in S \ {y} : \A x \in S \ {y} : ~(m < x)
      <4>1. S \ {y} \in SUBSET Nat
        OBVIOUS
      <4> QED BY <1>2, <2>2, <2>4, <4>1
    <3> QED BY <2>1, <3>1
  <2> QED BY <2>3, <2>4
<1> HIDE DEF Q
<1>3. \A n \in Nat : n \in Q
  BY <1>1, <1>2, SetInduction
<1>4. Cardinality(T) \in Nat
  BY FS_CardinalityType
<1> QED BY <1>3, <1>4 DEF Q

\* Some source of a set comes before no other's place, and some after no other's.
LEMMA FirstAndLast ==
    ASSUME NEW R, R \subseteq Sources, R # {}
    PROVE  /\ \E k \in R : \A j \in R : ~Before(j, k)
           /\ \E k \in R : \A j \in R : ~Before(k, j)
<1> DEFINE T == {rk \in RatingKeys : Px(rk) \in R}
<1>1. T \subseteq Nat /\ IsFiniteSet(T) /\ RatingKeys \subseteq Nat
  BY CatalogAssumption, FS_Subset
<1>2. \A k \in R : \/ k[1] = "local_fs"
                   \/ k[1] = "plex" /\ k[2] \in T /\ k = Px(k[2])
  BY KindsOfSources, Keys
<1>3. \A rk \in T : Px(rk) \in R /\ Px(rk)[1] = "plex" /\ Px(rk)[2] = rk
  BY Keys
<1> HIDE DEF T
<1>4. \E k \in R : \A j \in R : ~Before(j, k)
  <2>1. CASE \E k \in R : k[1] = "local_fs"
    BY <2>1 DEF Before
  <2>2. CASE \A k \in R : k[1] # "local_fs"
    <3> DEFINE L == OpToRel(<, Nat)
    <3>1. T # {}
      BY <1>2, <2>2
    <3>2. IsWellFoundedOn(L, Nat)
      BY NatLessThanWellFounded DEF OpToRel
    <3>3. \A x, y \in T : x < y => <<x, y>> \in L
      BY <1>1 DEF OpToRel
    <3> HIDE DEF L
    <3>4. PICK m \in T : \A y \in T : ~(<<y, m>> \in L)
      BY <1>1, <3>1, <3>2, WFMin
    <3>5. \A j \in R : ~Before(j, Px(m))
      BY <1>2, <1>3, <2>2, <3>3, <3>4 DEF Before
    <3> QED BY <1>3, <3>4, <3>5
  <2> QED BY <2>1, <2>2
<1>5. \E k \in R : \A j \in R : ~Before(k, j)
  <2>1. CASE T = {}
    BY <1>2, <2>1 DEF Before
  <2>2. CASE T # {}
    <3>1. PICK m \in T : \A n \in T : ~(m < n)
      BY <1>1, <2>2, Largest
    <3>2. \A j \in R : ~Before(Px(m), j)
      BY <1>2, <1>3, <3>1 DEF Before
    <3> QED BY <1>3, <3>1, <3>2
  <2> QED BY <2>1, <2>2
<1> QED BY <1>4, <1>5

\* A path leads to the entry of a source that names it: to a foreign one if there is
\* one, and to Plex's if Plex has one.
LEMMA IndexLeads ==
    ASSUME NEW c, CatalogOK(c), NEW p \in DOMAIN CanonicalIndex(c)
    PROVE  \E k \in DOMAIN c.sources :
             /\ c.sources[k].path = p /\ CanonicalIndex(c)[p] = c.sources[k].entry
             /\ IsFs(CanonicalIndex(c)[p]) =>
                  \A j \in DOMAIN c.sources : c.sources[j].path = p => IsFs(c.sources[j].entry) /\ ~Before(k, j)
<1> DEFINE rows == {k \in DOMAIN c.sources : c.sources[k].path = p}
           foreign == {k \in rows : ~IsFs(c.sources[k].entry)}
           first == CHOOSE k \in foreign : \A j \in foreign : ~Before(j, k)
           last == CHOOSE k \in rows : \A j \in rows : ~Before(k, j)
<1>1. CanonicalIndex(c)[p] = c.sources[IF foreign # {} THEN first ELSE last].entry
  BY DEF CanonicalIndex
<1>2. rows # {} /\ rows \subseteq Sources /\ foreign \subseteq Sources
  BY DEF CanonicalIndex, CatalogOK
<1>3. foreign # {} => first \in foreign
  <2> HIDE DEF foreign
  <2> QED BY <1>2, FirstAndLast
<1>4. last \in rows /\ \A j \in rows : ~Before(last, j)
  <2> HIDE DEF rows
  <2>1. \E k \in rows : \A j \in rows : ~Before(k, j)
    BY <1>2, FirstAndLast
  <2> QED BY <2>1
<1> HIDE DEF first, last
<1>5. CASE foreign # {}
  BY <1>1, <1>3, <1>5
<1>6. CASE foreign = {}
  BY <1>1, <1>4, <1>6
<1> QED BY <1>5, <1>6

LEMMA IndexBegins ==
    ASSUME NEW c, CatalogOK(c)
    PROVE  /\ IndexOK(c, CanonicalIndex(c))
           /\ \A p \in DOMAIN CanonicalIndex(c) : CanonicalIndex(c)[p] \in Entries
           /\ \A k \in DOMAIN c.sources : c.sources[k].path \in DOMAIN CanonicalIndex(c)
           /\ \A k \in DOMAIN c.sources : k[1] = "plex" /\ IsFs(CanonicalIndex(c)[c.sources[k].path])
                => Claimed(c, CanonicalIndex(c)[c.sources[k].path])
           /\ Twinless(c) => Leads(c, CanonicalIndex(c))
<1>1. IndexOK(c, CanonicalIndex(c)) /\ \A p \in DOMAIN CanonicalIndex(c) : CanonicalIndex(c)[p] \in Entries
  BY IndexLeads DEF IndexOK, CatalogOK
<1>2. \A k \in DOMAIN c.sources : c.sources[k].path \in DOMAIN CanonicalIndex(c)
  BY DEF CanonicalIndex
<1>3. ASSUME NEW k \in DOMAIN c.sources, k[1] = "plex", IsFs(CanonicalIndex(c)[c.sources[k].path])
      PROVE  Claimed(c, CanonicalIndex(c)[c.sources[k].path])
  <2>1. PICK j \in DOMAIN c.sources : /\ CanonicalIndex(c)[c.sources[k].path] = c.sources[j].entry
                                      /\ ~Before(j, k)
    BY <1>2, <1>3, IndexLeads
  <2>2. j[1] = "plex"
    BY <1>3, <2>1, KindsOfSources DEF Before, CatalogOK
  <2> QED BY <2>1, <2>2 DEF Claimed
<1>4. ASSUME Twinless(c), NEW p \in Paths, Fs(p) \in DOMAIN c.sources, IsFs(c.sources[Fs(p)].entry),
             ~Claimed(c, c.sources[Fs(p)].entry)
      PROVE  p \in DOMAIN CanonicalIndex(c) /\ CanonicalIndex(c)[p] = c.sources[Fs(p)].entry
  <2>1. c.sources[Fs(p)].path = p
    BY <1>4 DEF CatalogOK
  <2>2. p \in DOMAIN CanonicalIndex(c)
    BY <1>2, <1>4, <2>1
  <2>3. PICK k \in DOMAIN c.sources : c.sources[k].path = p /\ CanonicalIndex(c)[p] = c.sources[k].entry
    BY <2>2, IndexLeads
  <2>4. k[1] # "plex"
    BY <1>4, <2>3 DEF Twinless
  <2>5. PICK q \in Paths : k = Fs(q)
    BY <2>4, KindsOfSources DEF CatalogOK
  <2>6. k = Fs(p)
    BY <2>3, <2>5 DEF CatalogOK
  <2> QED BY <2>2, <2>3, <2>6
<1> QED BY <1>1, <1>2, <1>3, <1>4 DEF Leads

-----------------------------------------------------------------------------
(* What the items of a pass change, and what they leave alone: n of them, of   *)
(* the catalog c.                                                              *)

Took(c, d, items, n) ==
    LET read == {Px(items[i].rk) : i \in 1 .. n}
    IN /\ CatalogOK(d) /\ d.last = c.last /\ d.full = c.full
       /\ DOMAIN d.sources = DOMAIN c.sources \cup read
       /\ \A k \in DOMAIN c.sources : k[1] = "plex" => d.sources[k].entry = c.sources[k].entry
       /\ \A k \in DOMAIN c.sources : k[1] = "plex" /\ k \notin read => d.sources[k] = c.sources[k]
       /\ \A k \in read :
            /\ ~d.sources[k].missing /\ ~d.entries[d.sources[k].entry].missing
            /\ \E i \in 1 .. n : k = Px(items[i].rk) /\ d.sources[k].path = items[i].path
       /\ \A e \in DOMAIN c.entries : Claimed(c, e) /\ ~c.entries[e].missing => ~d.entries[e].missing
       /\ DOMAIN c.entries \subseteq DOMAIN d.entries
       /\ DOMAIN c.ids \subseteq DOMAIN d.ids
       /\ \A i \in 1 .. n : items[i].guid # NoGuid => items[i].guid \in DOMAIN d.ids
       /\ DOMAIN d.colls = DOMAIN c.colls
       /\ \A x \in DOMAIN c.colls : \A e \in c.colls[x] : Claimed(c, e) => e \in d.colls[x]

LEMMA ItemsAreTaken ==
    ASSUME NEW c, CatalogOK(c), NEW items \in Seq(Read)
    PROVE  LET d == IngestItems(c, items)
           IN /\ Took(c, d, items, Len(items))
              /\ Hollowless(c) => Hollowless(d)
              /\ Twinless(c) => Twinless(d)
              /\ \A but : Twinless(c) /\ Judged(c, but) /\ Fresh(c, items) \subseteq but => Judged(d, but)
<1> DEFINE f == Turned(c, items)
           Right(n) == /\ f[n] = [catalog |-> f[n].catalog, index |-> f[n].index]
                       /\ IndexOK(f[n].catalog, f[n].index)
                       /\ Took(c, f[n].catalog, items, n)
                       /\ Hollowless(c) => Hollowless(f[n].catalog)
                       /\ Twinless(c) => Twinless(f[n].catalog) /\ Leads(f[n].catalog, f[n].index)
                       /\ \A but : Twinless(c) /\ Judged(c, but) /\ Fresh(c, items) \subseteq but
                                    => Judged(f[n].catalog, but)
           Q == {n \in Nat : n \in 0 .. Len(items) => Right(n)}
<1>1. Turns(f, c, items, Len(items)) /\ IngestItems(c, items) = f[Len(items)].catalog /\ Len(items) \in Nat
  BY ItemsTurn, LenProperties
<1> HIDE DEF f
<1>2. 0 \in Q
  <2>1. f[0] = [catalog |-> c, index |-> CanonicalIndex(c)]
    BY <1>1, TurnsAt DEF Turn
  <2>2. Took(c, c, items, 0)
    BY DEF Took
  <2> QED BY <2>1, <2>2, IndexBegins
<1>3. ASSUME NEW n \in Nat, n \in Q PROVE n + 1 \in Q
  <2> SUFFICES ASSUME n + 1 \in 0 .. Len(items) PROVE Right(n + 1)
    OBVIOUS
  <2> DEFINE b == f[n].catalog
             r == f[n + 1]
             d == r.catalog
             item == items[n + 1]
             read == {Px(items[i].rk) : i \in 1 .. n}
  <2>1. /\ f[n] = [catalog |-> b, index |-> f[n].index] /\ IndexOK(b, f[n].index) /\ Took(c, b, items, n)
        /\ Hollowless(c) => Hollowless(b)
        /\ Twinless(c) => Twinless(b) /\ Leads(b, f[n].index)
        /\ \A but : Twinless(c) /\ Judged(c, but) /\ Fresh(c, items) \subseteq but => Judged(b, but)
    BY <1>1, <1>3
  <2>2. item \in Read
    BY <1>1, ElementOfSeq
  <2>3. r = IngestItem([catalog |-> b, index |-> f[n].index], item)
    <3>1. r = Turn(f, c, items, n + 1)
      BY <1>1, TurnsAt
    <3>2. n + 1 # 0 /\ (n + 1) - 1 = n
      OBVIOUS
    <3> QED BY <2>1, <3>1, <3>2 DEF Turn
  <2>4. CatalogOK(b)
    BY <2>1 DEF Took
  <2>5. /\ r = [catalog |-> d, index |-> r.index] /\ CatalogOK(d) /\ IndexOK(d, r.index)
        /\ ItemTakes(b, d, item)
        /\ Hollowless(b) => Hollowless(d)
        /\ Twinless(b) /\ Leads(b, f[n].index) => Twinless(d) /\ Leads(d, r.index)
    BY <2>1, <2>2, <2>3, <2>4, ItemIsTaken
  <2>8. ASSUME NEW but, Twinless(c), Judged(c, but), Fresh(c, items) \subseteq but PROVE Judged(d, but)
    <3>1. Twinless(b) /\ Judged(b, but)
      BY <2>1, <2>8
    <3>2. \A i \in 1 .. n + 1 : Px(items[i].rk) \notin but =>
            Px(items[i].rk) \in DOMAIN c.sources /\ c.sources[Px(items[i].rk)].path = items[i].path
      <4>1. 1 .. n + 1 \subseteq DOMAIN items
        BY LenProperties
      <4> QED BY <2>8, <4>1 DEF Fresh
    <3>3. ASSUME Px(item.rk) \notin but
          PROVE  Px(item.rk) \in DOMAIN b.sources /\ b.sources[Px(item.rk)].path = item.path
      <4> DEFINE k == Px(item.rk)
      <4>1. k[1] = "plex" /\ k \in DOMAIN c.sources /\ c.sources[k].path = item.path
        BY <3>2, <3>3, Keys
      <4> HIDE DEF k, b, item
      <4>2. k \in DOMAIN b.sources
        BY <2>1, <4>1 DEF Took
      <4>3. CASE k \in read
        <5>1. PICK i \in 1 .. n : k = Px(items[i].rk) /\ b.sources[k].path = items[i].path
          BY <2>1, <4>3 DEF Took
        <5>2. c.sources[k].path = items[i].path
          BY <3>2, <3>3, <5>1 DEF k
        <5> QED BY <4>1, <4>2, <5>1, <5>2 DEF k
      <4>4. CASE k \notin read
        <5>1. b.sources[k] = c.sources[k]
          BY <2>1, <4>1, <4>4 DEF Took
        <5> QED BY <4>1, <4>2, <5>1 DEF k
      <4> QED BY <4>3, <4>4
    <3> HIDE DEF b, d, item, read
    <3> QED BY <2>1, <2>2, <2>3, <2>4, <3>1, <3>3, ItemIsJudged DEF d
  <2> HIDE DEF b, r, d, item
  <2>6. {Px(items[i].rk) : i \in 1 .. n + 1} = read \cup {Px(item.rk)} /\ 1 .. n + 1 = 1 .. n \cup {n + 1}
    BY DEF item
  <2>7. Took(c, d, items, n + 1)
    <3>1. DOMAIN d.sources = DOMAIN c.sources \cup read \cup {Px(item.rk)}
          /\ DOMAIN b.sources = DOMAIN c.sources \cup read
          /\ Px(item.rk)[1] = "plex" /\ \A k \in read : k[1] = "plex"
      BY <2>1, <2>5, Keys DEF Took, ItemTakes
    <3>2. \A k \in DOMAIN c.sources : k[1] = "plex" =>
             /\ d.sources[k].entry = c.sources[k].entry
             /\ k \notin read /\ k # Px(item.rk) => d.sources[k] = c.sources[k]
      BY <2>1, <2>5, <3>1 DEF Took, ItemTakes
    <3>3. \A e : Claimed(c, e) => Claimed(b, e)
      BY <2>1, <3>1 DEF Took, Claimed
    <3>4. ASSUME NEW k \in read \cup {Px(item.rk)}
          PROVE  /\ ~d.sources[k].missing /\ ~d.entries[d.sources[k].entry].missing
                 /\ \E i \in 1 .. n + 1 : k = Px(items[i].rk) /\ d.sources[k].path = items[i].path
      <4>1. CASE k = Px(item.rk)
        BY <2>5, <2>6, <4>1 DEF ItemTakes, item
      <4>2. CASE k # Px(item.rk)
        <5>1. k \in read /\ d.sources[k] = b.sources[k] /\ k[1] = "plex" /\ k \in DOMAIN b.sources
          BY <2>5, <3>1, <3>4, <4>2 DEF ItemTakes
        <5>2. /\ ~b.sources[k].missing /\ ~b.entries[b.sources[k].entry].missing
              /\ \E i \in 1 .. n : k = Px(items[i].rk) /\ b.sources[k].path = items[i].path
          BY <2>1, <5>1 DEF Took
        <5>3. Claimed(b, b.sources[k].entry) /\ b.sources[k].entry \in DOMAIN b.entries
          BY <2>4, <5>1 DEF Claimed, CatalogOK
        <5>4. ~d.entries[b.sources[k].entry].missing
          BY <2>5, <5>2, <5>3 DEF ItemTakes
        <5> QED BY <2>6, <5>1, <5>2, <5>4
      <4> QED BY <4>1, <4>2
    <3>5. ASSUME NEW e \in DOMAIN c.entries, Claimed(c, e), ~c.entries[e].missing PROVE ~d.entries[e].missing
      BY <2>1, <2>5, <3>3, <3>5 DEF Took, ItemTakes
    <3>6. /\ DOMAIN c.ids \subseteq DOMAIN d.ids
          /\ \A i \in 1 .. n + 1 : items[i].guid # NoGuid => items[i].guid \in DOMAIN d.ids
          /\ DOMAIN d.colls = DOMAIN c.colls /\ d.last = c.last /\ d.full = c.full
          /\ \A x \in DOMAIN c.colls : \A e \in c.colls[x] : Claimed(c, e) => e \in d.colls[x]
      BY <2>1, <2>5, <2>6, <3>3 DEF Took, ItemTakes, item
    <3>7. DOMAIN c.entries \subseteq DOMAIN d.entries
      BY <2>1, <2>5 DEF Took, ItemTakes
    <3> HIDE DEF read
    <3> QED BY <2>5, <2>6, <3>1, <3>2, <3>4, <3>5, <3>6, <3>7 DEF Took
  <2> QED BY <2>1, <2>5, <2>7, <2>8 DEF d, r
<1> HIDE DEF Q, Right
<1>4. \A n \in Nat : n \in Q
  BY <1>2, <1>3, SetInduction
<1>5. Right(Len(items))
  BY <1>1, <1>4 DEF Q
<1> QED BY <1>1, <1>5 DEF Right

-----------------------------------------------------------------------------
(* The other writes, one table each *)

\* Two catalogs whose sources lead to the same entries and files, and which are one
\* in all the tables but the sources.
SameSources(c, d) ==
    /\ DOMAIN d.sources = DOMAIN c.sources
    /\ \A k \in DOMAIN c.sources : d.sources[k].entry = c.sources[k].entry /\ d.sources[k].path = c.sources[k].path
SameButSources(c, d) ==
    d.entries = c.entries /\ d.ids = c.ids /\ d.colls = c.colls /\ d.last = c.last /\ d.full = c.full

LEMMA SourcesRewritten ==
    ASSUME NEW c, CatalogOK(c), NEW rows, DOMAIN rows = DOMAIN c.sources,
           rows = [k \in DOMAIN c.sources |-> rows[k]],
           \A k \in DOMAIN c.sources : /\ rows[k] \in Rows /\ rows[k].entry = c.sources[k].entry
                                       /\ rows[k].path = c.sources[k].path,
           NEW d, d = [c EXCEPT !.sources = rows]
    PROVE  CatalogOK(d) /\ SameSources(c, d) /\ SameButSources(c, d) /\ d.sources = rows
<1>1. DOMAIN c = {"entries", "sources", "ids", "colls", "last", "full"}
  BY DEF CatalogOK
<1>2. /\ DOMAIN d = {"entries", "sources", "ids", "colls", "last", "full"}
      /\ d.sources = rows /\ d.entries = c.entries /\ d.ids = c.ids /\ d.colls = c.colls
      /\ d.last = c.last /\ d.full = c.full
  BY <1>1
<1>3. rows \in [DOMAIN rows -> Rows]
  OBVIOUS
<1>4. \A k \in DOMAIN rows : rows[k].entry \in DOMAIN c.entries
  BY DEF CatalogOK
<1>5. \A p \in Paths : Fs(p) \in DOMAIN rows => rows[Fs(p)].path = p
  BY DEF CatalogOK
<1>6. SameSources(c, d) /\ SameButSources(c, d)
  BY <1>2 DEF SameSources, SameButSources
<1>7. /\ DOMAIN d.entries \subseteq Entries /\ d.entries \in [DOMAIN d.entries -> [missing : BOOLEAN]]
      /\ DOMAIN d.ids \subseteq Guids /\ d.ids \in [DOMAIN d.ids -> DOMAIN d.entries]
      /\ d.colls \in [DOMAIN d.colls -> SUBSET DOMAIN d.entries]
      /\ d.last \in Nat \cup {Never} /\ d.full \in Nat \cup {Never}
      /\ DOMAIN d.sources \subseteq Sources
  <2> USE <1>2
  <2>1. DOMAIN d.entries \subseteq Entries /\ d.entries \in [DOMAIN d.entries -> [missing : BOOLEAN]]
    BY DEF CatalogOK
  <2>2. DOMAIN d.ids \subseteq Guids /\ d.ids \in [DOMAIN d.ids -> DOMAIN d.entries]
    BY DEF CatalogOK
  <2>3. d.colls \in [DOMAIN d.colls -> SUBSET DOMAIN d.entries]
    BY DEF CatalogOK
  <2>4. d.last \in Nat \cup {Never} /\ d.full \in Nat \cup {Never} /\ DOMAIN d.sources \subseteq Sources
    BY DEF CatalogOK
  <2> QED BY <2>1, <2>2, <2>3, <2>4
<1> QED BY <1>2, <1>3, <1>4, <1>5, <1>6, <1>7 DEF CatalogOK

LEMMA MarkedSources ==
    ASSUME NEW c, CatalogOK(c), NEW kind, NEW seen, NEW d, d = MarkSources(c, kind, seen)
    PROVE  /\ CatalogOK(d) /\ SameSources(c, d) /\ SameButSources(c, d)
           /\ \A k \in DOMAIN c.sources :
                /\ d.sources[k].missing = (c.sources[k].missing \/ (k[1] = kind /\ k \notin seen))
                /\ d.sources[k].unairable = c.sources[k].unairable
<1> DEFINE rows == [k \in DOMAIN c.sources |->
                       [c.sources[k] EXCEPT !.missing = @ \/ (k[1] = kind /\ k \notin seen)]]
<1>1. d = [c EXCEPT !.sources = rows]
  BY DEF MarkSources
<1>2. \A k \in DOMAIN c.sources :
        /\ rows[k] \in Rows /\ rows[k].entry = c.sources[k].entry /\ rows[k].path = c.sources[k].path
        /\ rows[k].missing = (c.sources[k].missing \/ (k[1] = kind /\ k \notin seen))
        /\ rows[k].unairable = c.sources[k].unairable
  BY DEF CatalogOK, Rows
<1>3. DOMAIN rows = DOMAIN c.sources /\ rows = [k \in DOMAIN c.sources |-> rows[k]]
  OBVIOUS
<1> HIDE DEF rows
<1>4. CatalogOK(d) /\ SameSources(c, d) /\ SameButSources(c, d) /\ d.sources = rows
  BY <1>1, <1>2, <1>3, SourcesRewritten
<1> QED BY <1>2, <1>4

\* The verdict on a file reaches a source that names it on the entry of the file.
JudgedBy(c, verdict, k) ==
    /\ c.sources[k].path \in DOMAIN verdict /\ Fs(c.sources[k].path) \in DOMAIN c.sources
    /\ c.sources[Fs(c.sources[k].path)].entry = c.sources[k].entry

LEMMA VerdictsRecorded ==
    ASSUME NEW c, CatalogOK(c), NEW verdict, NEW d, d = RecordAirability(c, verdict)
    PROVE  /\ CatalogOK(d) /\ SameSources(c, d) /\ SameButSources(c, d)
           /\ \A k \in DOMAIN c.sources : d.sources[k].missing = c.sources[k].missing
           /\ \A k \in DOMAIN c.sources :
                d.sources[k].unairable = IF JudgedBy(c, verdict, k) THEN ~verdict[c.sources[k].path]
                                         ELSE c.sources[k].unairable
<1> DEFINE judged(k) == /\ c.sources[k].path \in DOMAIN verdict /\ Fs(c.sources[k].path) \in DOMAIN c.sources
                        /\ c.sources[Fs(c.sources[k].path)].entry = c.sources[k].entry
           rows == [k \in DOMAIN c.sources |->
                       IF judged(k) THEN [c.sources[k] EXCEPT !.unairable = ~verdict[c.sources[k].path]]
                       ELSE c.sources[k]]
<1>1. d = [c EXCEPT !.sources = rows]
  BY DEF RecordAirability
<1>2. ASSUME NEW k \in DOMAIN c.sources
      PROVE  /\ rows[k] \in Rows /\ rows[k].entry = c.sources[k].entry /\ rows[k].path = c.sources[k].path
             /\ rows[k].missing = c.sources[k].missing
             /\ rows[k].unairable = IF judged(k) THEN ~verdict[c.sources[k].path] ELSE c.sources[k].unairable
  <2> DEFINE v == ~verdict[c.sources[k].path]
  <2>1. c.sources[k] \in Rows
    BY DEF CatalogOK
  <2>2. v \in BOOLEAN /\ v = ~verdict[c.sources[k].path]
    OBVIOUS
  <2>3. rows[k] = IF judged(k) THEN [c.sources[k] EXCEPT !.unairable = v] ELSE c.sources[k]
    OBVIOUS
  <2> HIDE DEF rows, judged
  <2>4. CASE judged(k)
    <3>1. rows[k] = [c.sources[k] EXCEPT !.unairable = v]
      BY <2>3, <2>4
    <3> HIDE DEF v
    <3>2. /\ rows[k] \in Rows /\ rows[k].entry = c.sources[k].entry /\ rows[k].path = c.sources[k].path
          /\ rows[k].missing = c.sources[k].missing /\ rows[k].unairable = v
      BY <2>1, <2>2, <3>1 DEF Rows
    <3> QED BY <2>2, <2>4, <3>2
  <2>5. CASE ~judged(k)
    <3>1. rows[k] = c.sources[k]
      BY <2>3, <2>5
    <3> QED BY <2>1, <2>5, <3>1
  <2> QED BY <2>4, <2>5
<1>3. DOMAIN rows = DOMAIN c.sources /\ rows = [k \in DOMAIN c.sources |-> rows[k]]
  OBVIOUS
<1> HIDE DEF rows
<1>4. CatalogOK(d) /\ SameSources(c, d) /\ SameButSources(c, d) /\ d.sources = rows
  BY <1>1, <1>2, <1>3, SourcesRewritten
<1> QED BY <1>2, <1>4 DEF JudgedBy

\* After entries are marked, each live one has a live source.
LEMMA MarkedEntries ==
    ASSUME NEW c, CatalogOK(c), NEW d, d = MarkEntries(c)
    PROVE  /\ CatalogOK(d) /\ Hollowless(d)
           /\ d.sources = c.sources /\ d.ids = c.ids /\ d.colls = c.colls /\ d.last = c.last /\ d.full = c.full
           /\ DOMAIN d.entries = DOMAIN c.entries
           /\ \A k \in DOMAIN c.sources : ~c.sources[k].missing =>
                d.entries[c.sources[k].entry].missing = c.entries[c.sources[k].entry].missing
<1> DEFINE alone(e) == \A k \in DOMAIN c.sources : c.sources[k].entry = e => c.sources[k].missing
           rows == [e \in DOMAIN c.entries |-> [c.entries[e] EXCEPT !.missing = @ \/ alone(e)]]
<1>1. d = [c EXCEPT !.entries = rows]
  BY DEF MarkEntries
<1>2. DOMAIN c = {"entries", "sources", "ids", "colls", "last", "full"}
  BY DEF CatalogOK
<1>3. \A e \in DOMAIN c.entries : rows[e] \in [missing : BOOLEAN]
                                  /\ rows[e].missing = (c.entries[e].missing \/ alone(e))
  BY DEF CatalogOK
<1>4. DOMAIN rows = DOMAIN c.entries /\ rows \in [DOMAIN rows -> [missing : BOOLEAN]]
  BY <1>3
<1> HIDE DEF rows
<1>5. /\ DOMAIN d = {"entries", "sources", "ids", "colls", "last", "full"}
      /\ d.entries = rows /\ d.sources = c.sources /\ d.ids = c.ids /\ d.colls = c.colls
      /\ d.last = c.last /\ d.full = c.full
  BY <1>1, <1>2
<1>6. CatalogOK(d)
  <2> USE <1>4, <1>5
  <2>1. DOMAIN d.entries \subseteq Entries /\ d.entries \in [DOMAIN d.entries -> [missing : BOOLEAN]]
    BY DEF CatalogOK
  <2>2. DOMAIN d.ids \subseteq Guids /\ d.ids \in [DOMAIN d.ids -> DOMAIN d.entries]
    BY DEF CatalogOK
  <2>3. d.colls \in [DOMAIN d.colls -> SUBSET DOMAIN d.entries]
    BY DEF CatalogOK
  <2>4. d.last \in Nat \cup {Never} /\ d.full \in Nat \cup {Never} /\ DOMAIN d.sources \subseteq Sources
        /\ d.sources \in [DOMAIN d.sources -> Rows]
    BY DEF CatalogOK
  <2>5. /\ \A k \in DOMAIN d.sources : d.sources[k].entry \in DOMAIN d.entries
        /\ \A p \in Paths : Fs(p) \in DOMAIN d.sources => d.sources[Fs(p)].path = p
    BY DEF CatalogOK
  <2> QED BY <2>1, <2>2, <2>3, <2>4, <2>5 DEF CatalogOK
<1>7. ASSUME NEW e \in DOMAIN d.entries, ~d.entries[e].missing PROVE Live(d, e) # {}
  <2>1. ~alone(e)
    BY <1>3, <1>4, <1>5, <1>7
  <2>2. PICK k \in DOMAIN c.sources : c.sources[k].entry = e /\ ~c.sources[k].missing
    BY <2>1
  <2> QED BY <1>5, <2>2 DEF Live
<1>8. \A k \in DOMAIN c.sources : ~c.sources[k].missing =>
        d.entries[c.sources[k].entry].missing = c.entries[c.sources[k].entry].missing
  BY <1>3, <1>5 DEF CatalogOK
<1> QED BY <1>4, <1>5, <1>6, <1>7, <1>8 DEF Hollowless

\* The entries of a fetched collection are those its known members are on.
LEMMA CollectionsWritten ==
    ASSUME NEW c, CatalogOK(c), NEW fetched, NEW prune \in BOOLEAN,
           NEW d, d = IngestCollections(c, fetched, prune)
    PROVE  /\ CatalogOK(d)
           /\ d.sources = c.sources /\ d.entries = c.entries /\ d.ids = c.ids /\ d.last = c.last /\ d.full = c.full
           /\ DOMAIN d.colls = DOMAIN fetched \cup (IF prune THEN {} ELSE DOMAIN c.colls)
           /\ \A x \in DOMAIN fetched : \A rk \in fetched[x] :
                Px(rk) \in DOMAIN c.sources => c.sources[Px(rk)].entry \in d.colls[x]
           /\ \A x \in DOMAIN d.colls : x \notin DOMAIN fetched => d.colls[x] = c.colls[x]
<1> DEFINE members(x) == {c.sources[Px(rk)].entry : rk \in {r \in fetched[x] : Px(r) \in DOMAIN c.sources}}
           kept == IF prune THEN {} ELSE DOMAIN c.colls
           table == [x \in DOMAIN fetched \cup kept |-> IF x \in DOMAIN fetched THEN members(x) ELSE c.colls[x]]
<1>1. d = [c EXCEPT !.colls = table]
  BY DEF IngestCollections
<1>2. DOMAIN c = {"entries", "sources", "ids", "colls", "last", "full"}
  BY DEF CatalogOK
<1>3. \A x \in DOMAIN fetched : table[x] = members(x) /\ members(x) \subseteq DOMAIN c.entries
  BY DEF CatalogOK
<1>4. \A x \in kept : c.colls[x] \subseteq DOMAIN c.entries
  BY DEF CatalogOK
<1>5. DOMAIN table = DOMAIN fetched \cup kept /\ table = [x \in DOMAIN table |-> table[x]]
      /\ \A x \in DOMAIN table : x \notin DOMAIN fetched => table[x] = c.colls[x]
  OBVIOUS
<1>6. table \in [DOMAIN table -> SUBSET DOMAIN c.entries]
  <2> HIDE DEF table, members, kept
  <2> QED BY <1>3, <1>4, <1>5
<1> HIDE DEF table
<1>7. /\ DOMAIN d = {"entries", "sources", "ids", "colls", "last", "full"}
      /\ d.colls = table /\ d.entries = c.entries /\ d.sources = c.sources /\ d.ids = c.ids
      /\ d.last = c.last /\ d.full = c.full
  BY <1>1, <1>2
<1>8. CatalogOK(d)
  <2> USE <1>6, <1>7
  <2> HIDE DEF kept, members
  <2>1. DOMAIN d.entries \subseteq Entries /\ d.entries \in [DOMAIN d.entries -> [missing : BOOLEAN]]
    BY DEF CatalogOK
  <2>2. DOMAIN d.ids \subseteq Guids /\ d.ids \in [DOMAIN d.ids -> DOMAIN d.entries]
    BY DEF CatalogOK
  <2>3. d.colls \in [DOMAIN d.colls -> SUBSET DOMAIN d.entries]
    OBVIOUS
  <2>4. d.last \in Nat \cup {Never} /\ d.full \in Nat \cup {Never} /\ DOMAIN d.sources \subseteq Sources
        /\ d.sources \in [DOMAIN d.sources -> Rows]
    BY DEF CatalogOK
  <2>5. /\ \A k \in DOMAIN d.sources : d.sources[k].entry \in DOMAIN d.entries
        /\ \A p \in Paths : Fs(p) \in DOMAIN d.sources => d.sources[Fs(p)].path = p
    BY DEF CatalogOK
  <2> QED BY <2>1, <2>2, <2>3, <2>4, <2>5 DEF CatalogOK
<1>9. \A x \in DOMAIN fetched : \A rk \in fetched[x] :
         Px(rk) \in DOMAIN c.sources => c.sources[Px(rk)].entry \in d.colls[x]
  BY <1>3, <1>7
<1> QED BY <1>5, <1>7, <1>8, <1>9

\* The files of a scan: each on the entry of its path, or on one of its own.
LEMMA FilesAdded ==
    ASSUME NEW c, CatalogOK(c), NEW files \in SUBSET Paths, NEW d, d = AddFiles(c, files, CanonicalIndex(c))
    PROVE  /\ CatalogOK(d)
           /\ d.ids = c.ids /\ d.colls = c.colls /\ d.last = c.last /\ d.full = c.full
           /\ DOMAIN d.sources = DOMAIN c.sources \cup {Fs(p) : p \in files}
           /\ \A k \in DOMAIN c.sources : k \notin {Fs(p) : p \in files} => d.sources[k] = c.sources[k]
           /\ \A p \in files : /\ d.sources[Fs(p)].entry = FileEntry(p, CanonicalIndex(c))
                               /\ d.sources[Fs(p)].path = p /\ ~d.sources[Fs(p)].missing
                               /\ d.sources[Fs(p)].unairable =>
                                    Fs(p) \in DOMAIN c.sources /\ c.sources[Fs(p)].unairable
           /\ DOMAIN c.entries \subseteq DOMAIN d.entries
           /\ \A e \in DOMAIN c.entries : ~c.entries[e].missing => ~d.entries[e].missing
<1> DEFINE index == CanonicalIndex(c)
           own == {e \in {FileEntry(p, index) : p \in files} : IsFs(e)}
           entries == Over([e \in own |-> [missing |-> FALSE]], c.entries)
           sources == Over([k \in {Fs(p) : p \in files} |-> Row(c, k, FileEntry(k[2], index), k[2])], c.sources)
<1>1. d = [c EXCEPT !.entries = entries, !.sources = sources]
  BY DEF AddFiles
<1>2. DOMAIN c = {"entries", "sources", "ids", "colls", "last", "full"}
  BY DEF CatalogOK
<1>3. \A p \in files : FileEntry(p, index) \in Entries
                       /\ FileEntry(p, index) \in DOMAIN c.entries \cup own
  <2> SUFFICES ASSUME NEW p \in files
               PROVE  FileEntry(p, index) \in Entries /\ FileEntry(p, index) \in DOMAIN c.entries \cup own
    OBVIOUS
  <2>1. CASE p \in DOMAIN index
    BY <2>1, IndexBegins DEF FileEntry, IndexOK, index
  <2>2. CASE p \notin DOMAIN index
    BY <2>2, Keys DEF FileEntry, Entries
  <2> QED BY <2>1, <2>2
<1> HIDE DEF index
<1>4. /\ DOMAIN entries = DOMAIN c.entries \cup own /\ entries \in [DOMAIN entries -> [missing : BOOLEAN]]
      /\ own \subseteq Entries
      /\ \A e \in DOMAIN c.entries : ~c.entries[e].missing => ~entries[e].missing
  <2>1. own \subseteq Entries
    BY <1>3
  <2> HIDE DEF own
  <2>2. \A e \in DOMAIN entries : entries[e] = IF e \in own THEN [missing |-> FALSE] ELSE c.entries[e]
    BY DEF Over
  <2>3. DOMAIN entries = DOMAIN c.entries \cup own /\ entries = [e \in DOMAIN entries |-> entries[e]]
    BY DEF Over
  <2> HIDE DEF entries
  <2>4. \A e \in DOMAIN entries : entries[e] \in [missing : BOOLEAN]
    <3>1. \A e \in DOMAIN c.entries : c.entries[e] \in [missing : BOOLEAN]
      BY DEF CatalogOK
    <3>2. [missing |-> FALSE] \in [missing : BOOLEAN]
      OBVIOUS
    <3> QED BY <2>2, <2>3, <3>1, <3>2
  <2> QED BY <2>1, <2>2, <2>3, <2>4
<1>5. /\ DOMAIN sources = DOMAIN c.sources \cup {Fs(p) : p \in files}
      /\ sources = [k \in DOMAIN sources |-> sources[k]]
      /\ \A p \in files : sources[Fs(p)] = Row(c, Fs(p), FileEntry(p, index), p)
      /\ \A k \in DOMAIN c.sources : k \notin {Fs(p) : p \in files} => sources[k] = c.sources[k]
  <2> DEFINE rows == [k \in {Fs(p) : p \in files} |-> Row(c, k, FileEntry(k[2], index), k[2])]
  <2>1. \A p \in files : rows[Fs(p)] = Row(c, Fs(p), FileEntry(p, index), p)
    BY Keys
  <2>2. DOMAIN rows = {Fs(p) : p \in files}
    OBVIOUS
  <2>3. sources = [k \in DOMAIN rows \cup DOMAIN c.sources |-> IF k \in DOMAIN rows THEN rows[k] ELSE c.sources[k]]
    BY DEF Over
  <2> HIDE DEF rows, sources
  <2> QED BY <2>1, <2>2, <2>3
<1> HIDE DEF entries, sources, own
<1>6. \A p \in files : /\ sources[Fs(p)] \in Rows /\ sources[Fs(p)].entry = FileEntry(p, index)
                       /\ sources[Fs(p)].path = p /\ ~sources[Fs(p)].missing
                       /\ sources[Fs(p)].unairable => Fs(p) \in DOMAIN c.sources /\ c.sources[Fs(p)].unairable
  <2> SUFFICES ASSUME NEW p \in files
               PROVE  /\ sources[Fs(p)] \in Rows /\ sources[Fs(p)].entry = FileEntry(p, index)
                      /\ sources[Fs(p)].path = p /\ ~sources[Fs(p)].missing
                      /\ sources[Fs(p)].unairable => Fs(p) \in DOMAIN c.sources /\ c.sources[Fs(p)].unairable
    OBVIOUS
  <2> DEFINE v == Fs(p) \in DOMAIN c.sources /\ c.sources[Fs(p)].path = p /\ c.sources[Fs(p)].unairable
  <2>1. sources[Fs(p)] = [entry |-> FileEntry(p, index), path |-> p, missing |-> FALSE, unairable |-> v]
    BY <1>5 DEF Row
  <2>2. v \in BOOLEAN
    BY DEF CatalogOK, Rows
  <2>3. v => Fs(p) \in DOMAIN c.sources /\ c.sources[Fs(p)].unairable
    OBVIOUS
  <2> HIDE DEF v
  <2> QED BY <1>3, <2>1, <2>2, <2>3 DEF Rows
<1>7. /\ DOMAIN d = {"entries", "sources", "ids", "colls", "last", "full"}
      /\ d.entries = entries /\ d.sources = sources /\ d.ids = c.ids /\ d.colls = c.colls
      /\ d.last = c.last /\ d.full = c.full
  BY <1>1, <1>2
<1>8. CatalogOK(d)
  <2>1. DOMAIN d.entries \subseteq Entries /\ d.entries \in [DOMAIN d.entries -> [missing : BOOLEAN]]
    BY <1>4, <1>7 DEF CatalogOK
  <2>2. DOMAIN d.ids \subseteq Guids /\ d.ids \in [DOMAIN d.ids -> DOMAIN d.entries]
    BY <1>4, <1>7 DEF CatalogOK
  <2>3. d.colls \in [DOMAIN d.colls -> SUBSET DOMAIN d.entries]
    BY <1>4, <1>7 DEF CatalogOK
  <2>4. d.last \in Nat \cup {Never} /\ d.full \in Nat \cup {Never}
    BY <1>7 DEF CatalogOK
  <2>5. \A k \in DOMAIN sources : k \in Sources /\ sources[k] \in Rows /\ sources[k].entry \in DOMAIN entries
    <3>1. \A p \in files : Fs(p) \in Sources
      BY DEF Sources
    <3> QED BY <1>3, <1>4, <1>5, <1>6, <3>1 DEF CatalogOK
  <2>6. DOMAIN d.sources \subseteq Sources /\ d.sources \in [DOMAIN d.sources -> Rows]
    BY <1>5, <1>7, <2>5
  <2>7. ASSUME NEW p \in Paths, Fs(p) \in DOMAIN sources PROVE sources[Fs(p)].path = p
    <3>1. CASE p \in files
      BY <1>6, <3>1
    <3>2. CASE p \notin files
      <4>1. Fs(p) \notin {Fs(q) : q \in files}
        BY <3>2, Keys
      <4>2. sources[Fs(p)] = c.sources[Fs(p)] /\ Fs(p) \in DOMAIN c.sources
        BY <1>5, <2>7, <4>1
      <4> QED BY <4>2 DEF CatalogOK
    <3> QED BY <3>1, <3>2
  <2> QED BY <1>7, <2>1, <2>2, <2>3, <2>4, <2>5, <2>6, <2>7 DEF CatalogOK
<1> QED BY <1>4, <1>5, <1>6, <1>7, <1>8 DEF index

-----------------------------------------------------------------------------
(* The two writes *)

LEMMA TwinsKeptOut ==
    ASSUME NEW c, NEW d, SameSources(c, d), Twinless(c)
    PROVE  Twinless(d)
BY DEF SameSources, Twinless, Claimed

\* What the write of a scan leaves of Plex's.
ScanTakes(c, d, files) ==
    /\ CatalogOK(d) /\ d.last = c.last /\ d.full = c.full /\ d.ids = c.ids /\ d.colls = c.colls
    /\ DOMAIN d.sources = DOMAIN c.sources \cup {Fs(p) : p \in files}
    /\ \A k \in DOMAIN c.sources : k[1] = "plex" =>
         /\ d.sources[k].entry = c.sources[k].entry /\ d.sources[k].path = c.sources[k].path
         /\ d.sources[k].missing = c.sources[k].missing
         /\ ~c.sources[k].missing /\ ~c.entries[c.sources[k].entry].missing
              => ~d.entries[c.sources[k].entry].missing
    /\ Hollowless(d)
    /\ Twinless(c) => Twinless(d)

\* The rows without a verdict after a scan: those of files that did not answer, which had
\* none before, or whose file comes from another entry.
Unheard(c, d, verdict, but) ==
    {k \in DOMAIN c.sources :
        /\ k[1] = "plex" /\ c.sources[k].path \notin DOMAIN verdict
        /\ \/ k \in but
           \/ /\ Fs(c.sources[k].path) \in DOMAIN c.sources
              /\ c.sources[Fs(c.sources[k].path)].entry # d.sources[Fs(c.sources[k].path)].entry}

LEMMA ScanIsTaken ==
    ASSUME NEW c, CatalogOK(c), NEW files \in SUBSET Paths, NEW verdict, NEW d, d = IngestFiles(c, files, verdict)
    PROVE  /\ ScanTakes(c, d, files)
           /\ \A but : Judged(c, but) => Judged(d, Unheard(c, d, verdict, but))
<1> DEFINE a == AddFiles(c, files, CanonicalIndex(c))
           b == MarkSources(a, "local_fs", {Fs(p) : p \in files})
           m == MarkEntries(b)
<1>0. d = RecordAirability(m, verdict)
  BY DEF IngestFiles
<1>1. /\ CatalogOK(a)
      /\ a.ids = c.ids /\ a.colls = c.colls /\ a.last = c.last /\ a.full = c.full
      /\ DOMAIN a.sources = DOMAIN c.sources \cup {Fs(p) : p \in files}
      /\ \A k \in DOMAIN c.sources : k \notin {Fs(p) : p \in files} => a.sources[k] = c.sources[k]
      /\ \A p \in files : /\ a.sources[Fs(p)].entry = FileEntry(p, CanonicalIndex(c))
                          /\ a.sources[Fs(p)].path = p /\ ~a.sources[Fs(p)].missing
                          /\ a.sources[Fs(p)].unairable =>
                               Fs(p) \in DOMAIN c.sources /\ c.sources[Fs(p)].unairable
      /\ DOMAIN c.entries \subseteq DOMAIN a.entries
      /\ \A e \in DOMAIN c.entries : ~c.entries[e].missing => ~a.entries[e].missing
  BY FilesAdded
<1> HIDE DEF a
<1>2. /\ CatalogOK(b) /\ SameSources(a, b) /\ SameButSources(a, b)
      /\ \A k \in DOMAIN a.sources :
           /\ b.sources[k].missing = (a.sources[k].missing \/ (k[1] = "local_fs" /\ k \notin {Fs(p) : p \in files}))
           /\ b.sources[k].unairable = a.sources[k].unairable
  BY <1>1, MarkedSources
<1> HIDE DEF b
<1>3. /\ CatalogOK(m) /\ Hollowless(m)
      /\ m.sources = b.sources /\ m.ids = b.ids /\ m.colls = b.colls /\ m.last = b.last /\ m.full = b.full
      /\ DOMAIN m.entries = DOMAIN b.entries
      /\ \A k \in DOMAIN b.sources : ~b.sources[k].missing =>
           m.entries[b.sources[k].entry].missing = b.entries[b.sources[k].entry].missing
  BY <1>2, MarkedEntries
<1> HIDE DEF m
<1>4. /\ CatalogOK(d) /\ SameSources(m, d) /\ SameButSources(m, d)
      /\ \A k \in DOMAIN m.sources : d.sources[k].missing = m.sources[k].missing
      /\ \A k \in DOMAIN m.sources :
           d.sources[k].unairable = IF JudgedBy(m, verdict, k) THEN ~verdict[m.sources[k].path]
                                    ELSE m.sources[k].unairable
  BY <1>0, <1>3, VerdictsRecorded
<1>5. /\ DOMAIN d.sources = DOMAIN a.sources
      /\ \A k \in DOMAIN a.sources : d.sources[k].entry = a.sources[k].entry /\ d.sources[k].path = a.sources[k].path
  BY <1>2, <1>3, <1>4 DEF SameSources
<1>6. d.last = c.last /\ d.full = c.full /\ d.ids = c.ids /\ d.colls = c.colls
  BY <1>1, <1>2, <1>3, <1>4 DEF SameButSources
<1>7. ASSUME NEW k \in DOMAIN c.sources, k[1] = "plex"
      PROVE  /\ a.sources[k] = c.sources[k] /\ k \in DOMAIN a.sources
             /\ d.sources[k].entry = c.sources[k].entry /\ d.sources[k].path = c.sources[k].path
             /\ d.sources[k].missing = c.sources[k].missing
             /\ ~c.sources[k].missing /\ ~c.entries[c.sources[k].entry].missing
                  => ~d.entries[c.sources[k].entry].missing
  <2>1. k \notin {Fs(p) : p \in files}
    BY <1>7, Keys
  <2>2. a.sources[k] = c.sources[k] /\ k \in DOMAIN a.sources
    BY <1>1, <2>1
  <2>3. b.sources[k].missing = c.sources[k].missing /\ b.sources[k].entry = c.sources[k].entry
        /\ k \in DOMAIN b.sources
    <3>1. c.sources[k].missing \in BOOLEAN
      BY <1>7 DEF CatalogOK, Rows
    <3>2. k[1] # "local_fs"
      BY <1>7
    <3>3. b.sources[k].missing = (c.sources[k].missing \/ (k[1] = "local_fs" /\ k \notin {Fs(p) : p \in files}))
      BY <1>2, <2>2
    <3>4. b.sources[k].entry = c.sources[k].entry /\ k \in DOMAIN b.sources
      BY <1>2, <2>2 DEF SameSources
    <3> QED BY <3>1, <3>2, <3>3, <3>4
  <2>4. d.sources[k].missing = c.sources[k].missing
    BY <1>3, <1>4, <2>3
  <2>5. ASSUME ~c.sources[k].missing, ~c.entries[c.sources[k].entry].missing
        PROVE  ~d.entries[c.sources[k].entry].missing
    <3>1. c.sources[k].entry \in DOMAIN c.entries
      BY <1>7 DEF CatalogOK
    <3>2. ~b.entries[c.sources[k].entry].missing
      BY <1>1, <1>2, <2>5, <3>1 DEF SameButSources
    <3> QED BY <1>3, <1>4, <2>3, <2>5, <3>2 DEF SameButSources
  <2> QED BY <1>5, <2>2, <2>4, <2>5
<1>8. Hollowless(d)
  <2>1. d.entries = m.entries /\ DOMAIN d.sources = DOMAIN m.sources
    BY <1>4 DEF SameSources, SameButSources
  <2>2. \A e : Live(d, e) = Live(m, e)
    BY <1>4, <2>1 DEF Live, SameSources
  <2> QED BY <1>3, <2>1, <2>2 DEF Hollowless
\* The sources of Plex's lead where they led.
<1>9. \A e : Claimed(c, e) => Claimed(a, e)
  BY <1>7 DEF Claimed
<1>10. ASSUME Twinless(c) PROVE Twinless(a)
  <2> SUFFICES ASSUME NEW k \in DOMAIN a.sources, k[1] = "plex", Fs(a.sources[k].path) \in DOMAIN a.sources,
                      IsFs(a.sources[Fs(a.sources[k].path)].entry)
               PROVE  Claimed(a, a.sources[Fs(a.sources[k].path)].entry)
    BY DEF Twinless
  <2> DEFINE p == c.sources[k].path
  <2>1. k \in DOMAIN c.sources /\ a.sources[k] = c.sources[k]
    <3>1. k \notin {Fs(q) : q \in files}
      BY Keys
    <3> QED BY <1>1, <3>1
  <2>2. CASE p \in files
    <3>1. p \in DOMAIN CanonicalIndex(c)
      BY <2>1, IndexBegins
    <3>2. a.sources[Fs(p)].entry = CanonicalIndex(c)[p]
      BY <1>1, <2>2, <3>1 DEF FileEntry
    <3>3. Claimed(c, CanonicalIndex(c)[p])
      BY <2>1, <3>2, IndexBegins
    <3> QED BY <1>9, <2>1, <3>2, <3>3
  <2>3. CASE p \notin files
    <3>1. Fs(p) \notin {Fs(q) : q \in files}
      BY <2>3, Keys
    <3>2. Fs(p) \in DOMAIN c.sources /\ a.sources[Fs(p)] = c.sources[Fs(p)]
      BY <1>1, <2>1, <3>1
    <3> QED BY <1>9, <1>10, <2>1, <3>2 DEF Twinless
  <2> QED BY <2>2, <2>3
<1>11. SameSources(a, d)
  BY <1>5 DEF SameSources
<1>12. ASSUME NEW but, Judged(c, but) PROVE Judged(d, Unheard(c, d, verdict, but))
  <2> SUFFICES ASSUME NEW k \in DOMAIN d.sources, k[1] = "plex", k \notin Unheard(c, d, verdict, but),
                      Fs(d.sources[k].path) \in DOMAIN d.sources,
                      d.sources[Fs(d.sources[k].path)].entry = d.sources[k].entry,
                      d.sources[Fs(d.sources[k].path)].unairable
               PROVE  d.sources[k].unairable
    BY DEF Judged
  <2> DEFINE p == d.sources[k].path
  <2>1. k \in DOMAIN c.sources
    <3>1. k \notin {Fs(q) : q \in files}
      BY Keys
    <3> QED BY <1>1, <1>5, <3>1
  <2>2. /\ c.sources[k].path = p /\ c.sources[k].entry = d.sources[k].entry
        /\ a.sources[k].unairable = c.sources[k].unairable
    BY <1>7, <2>1
  <2>3. /\ k \in DOMAIN m.sources /\ Fs(p) \in DOMAIN m.sources
        /\ m.sources[k].path = p /\ m.sources[k].entry = m.sources[Fs(p)].entry
        /\ m.sources[Fs(p)].path = p /\ p \in Paths
    <3>1. k \in DOMAIN m.sources /\ Fs(p) \in DOMAIN m.sources
          /\ m.sources[k].path = p /\ m.sources[k].entry = m.sources[Fs(p)].entry
      BY <1>4 DEF SameSources
    <3>2. m.sources[k] \in Rows
      BY <1>3, <3>1 DEF CatalogOK
    <3>3. p \in Paths
      BY <3>1, <3>2 DEF Rows
    <3> QED BY <1>3, <3>1, <3>3 DEF CatalogOK
  <2> HIDE DEF p
  <2>4. d.sources[Fs(p)].unairable
    BY DEF p
  <2>5. CASE p \in DOMAIN verdict
    <3>1. JudgedBy(m, verdict, k) /\ JudgedBy(m, verdict, Fs(p))
      BY <2>3, <2>5 DEF JudgedBy
    <3>2. d.sources[k].unairable = ~verdict[p] /\ d.sources[Fs(p)].unairable = ~verdict[p]
      BY <1>4, <2>3, <3>1
    <3> QED BY <2>4, <3>2
  <2>6. CASE p \notin DOMAIN verdict
    <3>1. ~JudgedBy(m, verdict, k) /\ ~JudgedBy(m, verdict, Fs(p))
      BY <2>3, <2>6 DEF JudgedBy
    <3>2. d.sources[k].unairable = m.sources[k].unairable /\ d.sources[Fs(p)].unairable = m.sources[Fs(p)].unairable
      BY <1>4, <2>3, <3>1
    <3>3. \A j \in DOMAIN m.sources : j \in DOMAIN a.sources /\ m.sources[j].unairable = a.sources[j].unairable
      BY <1>2, <1>3 DEF SameSources
    <3>4. d.sources[k].unairable = c.sources[k].unairable /\ a.sources[Fs(p)].unairable
      BY <2>2, <2>3, <2>4, <3>2, <3>3
    <3>5. Fs(p) \in DOMAIN c.sources /\ c.sources[Fs(p)].unairable
      <4>1. CASE p \in files
        BY <1>1, <3>4, <4>1
      <4>2. CASE p \notin files
        <5>1. Fs(p) \notin {Fs(q) : q \in files}
          BY <4>2, Keys
        <5>2. Fs(p) \in DOMAIN a.sources
          BY <2>3, <3>3
        <5>3. Fs(p) \in DOMAIN c.sources /\ a.sources[Fs(p)] = c.sources[Fs(p)]
          BY <1>1, <5>1, <5>2
        <5> QED BY <3>4, <5>3
      <4> QED BY <4>1, <4>2
    <3>6. k \notin but /\ c.sources[Fs(p)].entry = d.sources[Fs(p)].entry
      BY <2>1, <2>2, <2>6, <3>5 DEF Unheard
    <3>7. c.sources[Fs(p)].entry = c.sources[k].entry
      BY <2>2, <3>6 DEF p
    <3> QED BY <1>12, <2>1, <2>2, <3>4, <3>5, <3>6, <3>7 DEF Judged
  <2> QED BY <2>5, <2>6
<1> QED BY <1>1, <1>4, <1>5, <1>6, <1>7, <1>8, <1>10, <1>11, <1>12, TwinsKeptOut DEF ScanTakes

\* What the write of a pass changes: `fetched` are its collections.
PassTakes(c, d, items, fetched, full, started) ==
    LET read == {Px(items[i].rk) : i \in 1 .. Len(items)}
    IN /\ CatalogOK(d) /\ d.last = started /\ d.full = IF full THEN started ELSE c.full
       /\ DOMAIN d.sources = DOMAIN c.sources \cup read
       /\ \A k \in DOMAIN c.sources : k[1] = "plex" => d.sources[k].entry = c.sources[k].entry
       /\ \A k \in DOMAIN c.sources : k[1] = "plex" /\ k \notin read =>
            /\ d.sources[k].path = c.sources[k].path
            /\ d.sources[k].missing = (c.sources[k].missing \/ full)
            /\ ~d.sources[k].missing /\ ~c.entries[c.sources[k].entry].missing
                 => ~d.entries[c.sources[k].entry].missing
       /\ \A k \in read :
            /\ ~d.sources[k].missing /\ ~d.entries[d.sources[k].entry].missing
            /\ \E i \in 1 .. Len(items) : k = Px(items[i].rk) /\ d.sources[k].path = items[i].path
       /\ DOMAIN c.ids \subseteq DOMAIN d.ids
       /\ \A i \in 1 .. Len(items) : items[i].guid # NoGuid => items[i].guid \in DOMAIN d.ids
       /\ DOMAIN d.colls = DOMAIN fetched \cup (IF full THEN {} ELSE DOMAIN c.colls)
       /\ \A x \in DOMAIN fetched : \A rk \in fetched[x] :
            Px(rk) \in DOMAIN d.sources => d.sources[Px(rk)].entry \in d.colls[x]
       /\ \A x \in DOMAIN d.colls : x \notin DOMAIN fetched =>
            \A e \in c.colls[x] : Claimed(c, e) => e \in d.colls[x]
       /\ Hollowless(c) => Hollowless(d)
       /\ Twinless(c) => Twinless(d)

\* A catalog is one still when only the times of its passes differ.
LEMMA ClockSet ==
    ASSUME NEW c, CatalogOK(c), NEW d, DOMAIN d = DOMAIN c, d.sources = c.sources, d.entries = c.entries,
           d.ids = c.ids, d.colls = c.colls, d.last \in Nat \cup {Never}, d.full \in Nat \cup {Never}
    PROVE  CatalogOK(d)
<1>0. DOMAIN d = {"entries", "sources", "ids", "colls", "last", "full"}
  BY DEF CatalogOK
<1>1. DOMAIN d.entries \subseteq Entries /\ d.entries \in [DOMAIN d.entries -> [missing : BOOLEAN]]
  BY DEF CatalogOK
<1>2. DOMAIN d.ids \subseteq Guids /\ d.ids \in [DOMAIN d.ids -> DOMAIN d.entries]
  BY DEF CatalogOK
<1>3. d.colls \in [DOMAIN d.colls -> SUBSET DOMAIN d.entries]
  BY DEF CatalogOK
<1>4. DOMAIN d.sources \subseteq Sources /\ d.sources \in [DOMAIN d.sources -> Rows]
  BY DEF CatalogOK
<1>5. /\ \A k \in DOMAIN d.sources : d.sources[k].entry \in DOMAIN d.entries
      /\ \A p \in Paths : Fs(p) \in DOMAIN d.sources => d.sources[Fs(p)].path = p
  BY DEF CatalogOK
<1> QED BY <1>0, <1>1, <1>2, <1>3, <1>4, <1>5 DEF CatalogOK

LEMMA PassIsTaken ==
    ASSUME NEW c, CatalogOK(c), NEW items \in Seq(Read), NEW fetched, NEW full \in BOOLEAN,
           NEW started \in Nat, NEW d, d = WritePass(c, items, fetched, full, started)
    PROVE  /\ PassTakes(c, d, items, fetched, full, started)
           /\ \A but : Twinless(c) /\ Judged(c, but) /\ Fresh(c, items) \subseteq but => Judged(d, but)
<1> DEFINE a == IngestItems(c, items)
           b == IngestCollections(a, fetched, full)
           read == {Px(items[i].rk) : i \in 1 .. Len(items)}
           s == MarkSources(b, "plex", read)
           m == MarkEntries(s)
           w == IF full THEN m ELSE b
           whole == IF full THEN started ELSE w.full
<1>1. /\ Took(c, a, items, Len(items)) /\ (Hollowless(c) => Hollowless(a)) /\ (Twinless(c) => Twinless(a))
      /\ \A but : Twinless(c) /\ Judged(c, but) /\ Fresh(c, items) \subseteq but => Judged(a, but)
  BY ItemsAreTaken
<1>2. d = [w EXCEPT !.last = started, !.full = whole]
  <2>1. {Px(rk) : rk \in KeyOf(items)} = read
    <3>1. DOMAIN items = 1 .. Len(items)
      BY LenProperties
    <3> QED BY <3>1 DEF KeyOf
  <2> HIDE DEF read
  <2> QED BY <2>1 DEF WritePass
<1>a. \A k \in read : k[1] = "plex"
  BY Keys
<1> HIDE DEF a, read
<1>3. /\ CatalogOK(b)
      /\ b.sources = a.sources /\ b.entries = a.entries /\ b.ids = a.ids /\ b.last = a.last /\ b.full = a.full
      /\ DOMAIN b.colls = DOMAIN fetched \cup (IF full THEN {} ELSE DOMAIN a.colls)
      /\ \A x \in DOMAIN fetched : \A rk \in fetched[x] :
           Px(rk) \in DOMAIN a.sources => a.sources[Px(rk)].entry \in b.colls[x]
      /\ \A x \in DOMAIN b.colls : x \notin DOMAIN fetched => b.colls[x] = a.colls[x]
  <2>1. CatalogOK(a)
    BY <1>1 DEF Took
  <2> QED BY <2>1, CollectionsWritten
<1> HIDE DEF b
<1>4. /\ CatalogOK(s) /\ SameSources(b, s) /\ SameButSources(b, s)
      /\ \A k \in DOMAIN b.sources :
           /\ s.sources[k].missing = (b.sources[k].missing \/ (k[1] = "plex" /\ k \notin read))
           /\ s.sources[k].unairable = b.sources[k].unairable
  BY <1>3, MarkedSources
<1> HIDE DEF s
<1>5. /\ CatalogOK(m) /\ Hollowless(m)
      /\ m.sources = s.sources /\ m.ids = s.ids /\ m.colls = s.colls /\ m.last = s.last /\ m.full = s.full
      /\ DOMAIN m.entries = DOMAIN s.entries
      /\ \A k \in DOMAIN s.sources : ~s.sources[k].missing =>
           m.entries[s.sources[k].entry].missing = s.entries[s.sources[k].entry].missing
  BY <1>4, MarkedEntries
<1> HIDE DEF m
\* What the sweep of a whole pass does, and a partial one does not.
<1>6. /\ CatalogOK(w) /\ SameSources(b, w) /\ w.ids = b.ids /\ w.colls = b.colls /\ w.full = b.full
      /\ \A k \in DOMAIN b.sources : k[1] = "plex" =>
           /\ w.sources[k].missing = (b.sources[k].missing \/ (full /\ k \notin read))
           /\ ~w.sources[k].missing =>
                w.entries[b.sources[k].entry].missing = b.entries[b.sources[k].entry].missing
      /\ Hollowless(b) => Hollowless(w)
      /\ \A k \in DOMAIN b.sources : w.sources[k].unairable = b.sources[k].unairable
  <2>1. CASE full
    <3>1. w = m
      BY <2>1
    <3>2. ASSUME NEW k \in DOMAIN b.sources, k[1] = "plex"
          PROVE  /\ m.sources[k].missing = (b.sources[k].missing \/ (full /\ k \notin read))
                 /\ ~m.sources[k].missing =>
                      m.entries[b.sources[k].entry].missing = b.entries[b.sources[k].entry].missing
      <4>1. m.sources[k].missing = (b.sources[k].missing \/ k \notin read)
        BY <1>4, <1>5, <3>2
      <4>2. k \in DOMAIN s.sources /\ s.sources[k].entry = b.sources[k].entry /\ s.entries = b.entries
        BY <1>4 DEF SameSources, SameButSources
      <4> QED BY <1>5, <2>1, <4>1, <4>2
    <3>3. /\ SameSources(b, m) /\ m.ids = b.ids /\ m.colls = b.colls /\ m.full = b.full
      BY <1>4, <1>5 DEF SameSources, SameButSources
    <3>4. \A k \in DOMAIN b.sources : m.sources[k].unairable = b.sources[k].unairable
      BY <1>4, <1>5
    <3> HIDE DEF w
    <3> QED BY <1>5, <3>1, <3>2, <3>3, <3>4
  <2>2. CASE ~full
    <3>1. w = b
      BY <2>2
    <3>2. \A k \in DOMAIN b.sources : b.sources[k].missing \in BOOLEAN
      BY <1>3 DEF CatalogOK, Rows
    <3>3. SameSources(b, b)
      BY DEF SameSources
    <3> HIDE DEF w
    <3> QED BY <1>3, <2>2, <3>1, <3>2, <3>3
  <2> QED BY <2>1, <2>2
<1>7. w.full \in Nat \cup {Never}
  BY <1>6 DEF CatalogOK
<1> HIDE DEF w
<1>8. /\ CatalogOK(d) /\ d.sources = w.sources /\ d.entries = w.entries /\ d.ids = w.ids
      /\ d.colls = w.colls /\ d.last = started /\ d.full = whole
  <2>1. whole \in Nat \cup {Never}
    BY <1>7
  <2> HIDE DEF whole
  <2>2. CatalogOK(w) /\ DOMAIN w = {"entries", "sources", "ids", "colls", "last", "full"}
    BY <1>6 DEF CatalogOK
  <2>3. /\ DOMAIN d = DOMAIN w /\ d.sources = w.sources /\ d.entries = w.entries /\ d.ids = w.ids
        /\ d.colls = w.colls /\ d.last = started /\ d.full = whole
    BY <1>2, <2>2
  <2> QED BY <2>1, <2>2, <2>3, ClockSet
<1>9. d.full = IF full THEN started ELSE c.full
  BY <1>1, <1>3, <1>6, <1>8 DEF Took
<1> HIDE DEF whole
<1>10. /\ DOMAIN d.sources = DOMAIN a.sources
       /\ \A k \in DOMAIN a.sources : d.sources[k].entry = a.sources[k].entry /\ d.sources[k].path = a.sources[k].path
       /\ \A k \in DOMAIN a.sources : k[1] = "plex" =>
            /\ d.sources[k].missing = (a.sources[k].missing \/ (full /\ k \notin read))
            /\ ~d.sources[k].missing =>
                 d.entries[a.sources[k].entry].missing = a.entries[a.sources[k].entry].missing
  BY <1>3, <1>6, <1>8 DEF SameSources
<1>11. /\ DOMAIN a.sources = DOMAIN c.sources \cup read
       /\ \A k \in DOMAIN c.sources : k[1] = "plex" => a.sources[k].entry = c.sources[k].entry
       /\ \A k \in DOMAIN c.sources : k[1] = "plex" /\ k \notin read => a.sources[k] = c.sources[k]
       /\ \A k \in read :
            /\ ~a.sources[k].missing /\ ~a.entries[a.sources[k].entry].missing
            /\ \E i \in 1 .. Len(items) : k = Px(items[i].rk) /\ a.sources[k].path = items[i].path
       /\ \A e \in DOMAIN c.entries : Claimed(c, e) /\ ~c.entries[e].missing => ~a.entries[e].missing
       /\ DOMAIN c.ids \subseteq DOMAIN a.ids
       /\ \A i \in 1 .. Len(items) : items[i].guid # NoGuid => items[i].guid \in DOMAIN a.ids
       /\ DOMAIN a.colls = DOMAIN c.colls
       /\ \A x \in DOMAIN c.colls : \A e \in c.colls[x] : Claimed(c, e) => e \in a.colls[x]
  BY <1>1 DEF Took, read
<1>12. \A k \in DOMAIN c.sources : k[1] = "plex" => d.sources[k].entry = c.sources[k].entry
  BY <1>10, <1>11
<1>13. ASSUME NEW k \in DOMAIN c.sources, k[1] = "plex", k \notin read
       PROVE  /\ d.sources[k].path = c.sources[k].path
              /\ d.sources[k].missing = (c.sources[k].missing \/ full)
              /\ ~d.sources[k].missing /\ ~c.entries[c.sources[k].entry].missing
                   => ~d.entries[c.sources[k].entry].missing
  <2>1. a.sources[k] = c.sources[k] /\ k \in DOMAIN a.sources
    BY <1>11, <1>13
  <2>2. c.sources[k].entry \in DOMAIN c.entries /\ Claimed(c, c.sources[k].entry)
    BY <1>13 DEF CatalogOK, Claimed
  <2>3. ~c.entries[c.sources[k].entry].missing => ~a.entries[c.sources[k].entry].missing
    BY <1>11, <2>2
  <2> QED BY <1>10, <1>13, <2>1, <2>3
<1>14. ASSUME NEW k \in read
       PROVE  /\ ~d.sources[k].missing /\ ~d.entries[d.sources[k].entry].missing
              /\ \E i \in 1 .. Len(items) : k = Px(items[i].rk) /\ d.sources[k].path = items[i].path
  <2>1. k \in DOMAIN a.sources /\ k[1] = "plex"
    BY <1>a, <1>11
  <2>2. ~a.sources[k].missing /\ ~a.entries[a.sources[k].entry].missing
    BY <1>11
  <2>3. ~d.sources[k].missing
    BY <1>10, <1>14, <2>1, <2>2
  <2> QED BY <1>10, <1>11, <2>1, <2>2, <2>3
<1>15. /\ DOMAIN c.ids \subseteq DOMAIN d.ids
       /\ \A i \in 1 .. Len(items) : items[i].guid # NoGuid => items[i].guid \in DOMAIN d.ids
  BY <1>3, <1>6, <1>8, <1>11
<1>16. /\ DOMAIN d.colls = DOMAIN fetched \cup (IF full THEN {} ELSE DOMAIN c.colls)
       /\ \A x \in DOMAIN fetched : \A rk \in fetched[x] :
            Px(rk) \in DOMAIN d.sources => d.sources[Px(rk)].entry \in d.colls[x]
       /\ \A x \in DOMAIN d.colls : x \notin DOMAIN fetched => \A e \in c.colls[x] : Claimed(c, e) => e \in d.colls[x]
  <2>1. d.colls = b.colls
    BY <1>6, <1>8
  <2> QED BY <1>3, <1>10, <1>11, <2>1
<1>17. Hollowless(c) => Hollowless(d)
  <2>1. Hollowless(a) => Hollowless(b)
    BY <1>3 DEF Hollowless, Live
  <2>2. Hollowless(w) => Hollowless(d)
    BY <1>8 DEF Hollowless, Live
  <2> QED BY <1>1, <1>6, <2>1, <2>2
<1>18. Twinless(c) => Twinless(d)
  <2>1. SameSources(a, d)
    BY <1>10 DEF SameSources
  <2> QED BY <1>1, <2>1, TwinsKeptOut
<1>19. ASSUME NEW but, Twinless(c), Judged(c, but), Fresh(c, items) \subseteq but PROVE Judged(d, but)
  <2>1. Judged(a, but)
    BY <1>1, <1>19
  <2>2. \A k \in DOMAIN a.sources : d.sources[k].unairable = a.sources[k].unairable
    BY <1>3, <1>6, <1>8
  <2> QED BY <1>10, <2>1, <2>2 DEF Judged
<1> QED BY <1>8, <1>9, <1>10, <1>11, <1>12, <1>13, <1>14, <1>15, <1>16, <1>17, <1>18, <1>19 DEF PassTakes, read

-----------------------------------------------------------------------------
(* The kinds of the state *)

LEMMA TypeInit == Init => TypeOK
<1> SUFFICES ASSUME Init PROVE TypeOK
  OBVIOUS
<1> USE DEF Init
<1>1. now \in Nat /\ PassOK
  BY DEF PassOK
<1>2. DOMAIN disk \subseteq Paths /\ disk \in [DOMAIN disk -> BOOLEAN]
  OBVIOUS
<1>3. DOMAIN plex \subseteq RatingKeys /\ plex \in [DOMAIN plex -> Films]
  OBVIOUS
<1>4. DOMAIN colls \subseteq Collections /\ colls \in [DOMAIN colls -> [members : SUBSET RatingKeys, changed : Nat]]
  OBVIOUS
<1>5. gone \in [RatingKeys -> Nat \cup {Never}] /\ budget \in [disk : Nat, plex : Nat, colls : Nat]
  BY CatalogAssumption
<1>6. CatalogOK(catalog)
  <2>1. DOMAIN catalog = {"entries", "sources", "ids", "colls", "last", "full"}
    OBVIOUS
  <2>2. /\ DOMAIN catalog.entries = {} /\ catalog.entries = [e \in {} |-> <<>>]
        /\ DOMAIN catalog.sources = {} /\ catalog.sources = [e \in {} |-> <<>>]
        /\ DOMAIN catalog.ids = {} /\ catalog.ids = [e \in {} |-> <<>>]
        /\ DOMAIN catalog.colls = {} /\ catalog.colls = [e \in {} |-> <<>>]
    OBVIOUS
  <2>3. catalog.last = Never /\ catalog.full = Never
    OBVIOUS
  <2> QED BY <2>1, <2>2, <2>3 DEF CatalogOK
<1>7. moved \subseteq Sources
  OBVIOUS
<1> QED BY <1>1, <1>2, <1>3, <1>4, <1>5, <1>6, <1>7 DEF TypeOK

\* A table with rows of a kind, and what a row that is written into it does to it.
Table(K, V, t) == DOMAIN t \subseteq K /\ t \in [DOMAIN t -> V]

Rewrites(t, k, v, u) ==
    /\ DOMAIN u = DOMAIN t \cup {k} /\ u[k] = v
    /\ \A x \in DOMAIN t : x # k => u[x] = t[x]

LEMMA RowWritten ==
    ASSUME NEW t, NEW k, NEW v
    PROVE  /\ Rewrites(t, k, v, With(t, k, v))
           /\ \A K, V : Table(K, V, t) /\ k \in K /\ v \in V => Table(K, V, With(t, k, v))
<1>1. With(t, k, v) = [x \in DOMAIN t \cup {k} |-> IF x = k THEN v ELSE t[x]]
  BY DEF With, Over
<1> QED BY <1>1 DEF Table, Rewrites

Reading == pass.phase \in {"items", "collections"}
Reads == [phase : {"items", "collections"}, since : Nat \cup {Never}, started : Nat, start : Nat, items : Seq(Read)]

\* What a pass that reads Plex holds; one that has not begun, or has walked, holds nothing of Plex's.
LEMMA Passes ==
    ASSUME TypeOK
    PROVE  /\ pass.phase = "walked" => /\ pass.files \in SUBSET Paths
                                       /\ \A p \in DOMAIN pass.verdict : pass.verdict[p] \in BOOLEAN
           /\ Reading => /\ pass.since \in Nat \cup {Never} /\ pass.started \in Nat /\ pass.start \in Nat
                         /\ pass.items \in Seq(Read)
                         /\ pass \in Reads
BY DEF TypeOK, PassOK, Idle, Reading, Reads

LEMMA PlannedPass ==
    ASSUME NEW c, CatalogOK(c), NEW forced \in BOOLEAN, now \in Nat, NEW q, q = Planned(c, forced)
    PROVE  \/ q = Idle
           \/ /\ q \in Reads
              /\ q.phase = "items" /\ q.started = now /\ q.start = 0 /\ q.items = <<>>
              /\ q.since \in {Never, c.last}
<1> DEFINE plan == IF forced THEN "full" ELSE PlexIngestPlan(c.last, c.full)
           since == IF plan = "full" THEN Never ELSE c.last
<1>1. q = IF plan = "skip" THEN Idle
          ELSE [phase |-> "items", since |-> since, started |-> now, start |-> 0, items |-> <<>>]
  BY DEF Planned
<1>2. since \in Nat \cup {Never} /\ since \in {Never, c.last} /\ <<>> \in Seq(Read)
  BY DEF CatalogOK
<1> HIDE DEF since, plan
<1> QED BY <1>1, <1>2 DEF Reads

\* How many items stand before one in what Plex lists.
Ahead(since, rk) == Cardinality({r \in Listed(since) : r < rk})
Page(rk) == [rk |-> rk, guid |-> plex[rk].guid, path |-> plex[rk].path]

\* A page of one item, or of none.
OnePage(rk) ==
    /\ Ahead(pass.since, rk) = pass.start
    /\ pass'.items = Append(pass.items, Page(rk)) /\ pass'.start = pass.start + 1
    /\ pass'.phase = "items" \/ pass.start + 1 >= Cardinality(Listed(pass.since))
NoPage ==
    /\ pass'.items = pass.items /\ pass.start >= Cardinality(Listed(pass.since))
    /\ pass'.phase = "collections"

LEMMA PageFetched ==
    ASSUME TypeOK, FetchPage
    PROVE  /\ pass.phase = "items" /\ Reading
           /\ pass' \in Reads /\ pass'.since = pass.since /\ pass'.started = pass.started
           /\ NoPage \/ \E rk \in Listed(pass.since) : OnePage(rk)
           /\ UNCHANGED <<now, world, catalog, moved>>
<1> DEFINE listed == Listed(pass.since)
<1>0. pass.phase = "items" /\ UNCHANGED <<now, world, catalog, moved>>
  BY Zenon DEF FetchPage
<1>1. Reading /\ pass \in Reads
  BY <1>0, Passes DEF Reading, Reads
<1>2. DOMAIN pass = {"phase", "since", "started", "start", "items"}
      /\ pass.since \in Nat \cup {Never} /\ pass.started \in Nat /\ pass.start \in Nat /\ pass.items \in Seq(Read)
  BY <1>1 DEF Reads
<1>3. ASSUME NEW rk \in listed, Ahead(pass.since, rk) = pass.start, NEW items, items = Append(pass.items, Page(rk)),
             NEW phase, phase = IF pass.start + 1 < Cardinality(listed) THEN "items" ELSE "collections",
             pass' = [pass EXCEPT !.items = items, !.start = pass.start + 1, !.phase = phase]
      PROVE  pass' \in Reads /\ pass'.since = pass.since /\ pass'.started = pass.started /\ OnePage(rk)
  <2>1. Page(rk) \in Read
    BY <1>3 DEF TypeOK, Listed, Films, Read, Page
  <2>2. items \in Seq(Read)
    BY <1>2, <1>3, <2>1, AppendProperties
  <2>3. phase \in {"items", "collections"}
    BY <1>3
  <2>4. Cardinality(listed) \in Nat
    <3>1. IsFiniteSet(listed)
      BY CatalogAssumption, FS_Subset DEF Listed, TypeOK
    <3> QED BY <3>1, FS_CardinalityType
  <2>5. phase = "items" \/ pass.start + 1 >= Cardinality(listed)
    BY <1>2, <1>3, <2>4
  <2>6. pass' = [phase |-> phase, since |-> pass.since, started |-> pass.started, start |-> pass.start + 1, items |-> items]
    <3>1. pass = [phase |-> pass.phase, since |-> pass.since, started |-> pass.started, start |-> pass.start,
                  items |-> pass.items]
      BY <1>1 DEF Reads
    <3> QED BY <1>3, <3>1
  <2>7. pass.start + 1 \in Nat
    BY <1>2
  <2> QED BY <1>2, <1>3, <2>2, <2>3, <2>5, <2>6, <2>7 DEF Reads, OnePage
<1>4. ASSUME pass' = [pass EXCEPT !.phase = "collections"], pass.start >= Cardinality(listed)
      PROVE  pass' \in Reads /\ pass'.since = pass.since /\ pass'.started = pass.started /\ NoPage
  BY <1>1, <1>4 DEF Reads, NoPage
<1>5. \/ \E rk \in listed :
           /\ Ahead(pass.since, rk) = pass.start
           /\ pass' = [pass EXCEPT !.items = Append(pass.items, Page(rk)), !.start = pass.start + 1,
                       !.phase = IF pass.start + 1 < Cardinality(listed) THEN "items" ELSE "collections"]
      \/ /\ pass.start >= Cardinality(listed)
         /\ pass' = [pass EXCEPT !.phase = "collections"]
  BY Zenon DEF FetchPage, Ahead, Page
<1> HIDE DEF listed
<1>6. pass' \in Reads /\ pass'.since = pass.since /\ pass'.started = pass.started
      /\ (NoPage \/ \E rk \in listed : OnePage(rk))
  <2>1. CASE \E rk \in listed :
           /\ Ahead(pass.since, rk) = pass.start
           /\ pass' = [pass EXCEPT !.items = Append(pass.items, Page(rk)), !.start = pass.start + 1,
                       !.phase = IF pass.start + 1 < Cardinality(listed) THEN "items" ELSE "collections"]
    BY <1>3, <2>1, Zenon
  <2>2. CASE pass.start >= Cardinality(listed) /\ pass' = [pass EXCEPT !.phase = "collections"]
    BY <1>4, <2>2
  <2> QED BY <1>5, <2>1, <2>2, Zenon
<1> QED BY <1>0, <1>1, <1>6 DEF listed

LEMMA TypeStep == TypeOK /\ [Next]_vars => TypeOK'
<1> SUFFICES ASSUME TypeOK, [Next]_vars PROVE TypeOK'
  OBVIOUS
<1> USE DEF TypeOK
<1>1. CASE UNCHANGED vars
  BY <1>1 DEF vars, PassOK, CatalogOK
<1>2. CASE Tick
  BY <1>2 DEF Tick, world, PassOK, CatalogOK
\* The world: one table changes, and the catalog and the pass do not.
<1>w. ASSUME UNCHANGED <<now, catalog, pass, moved>>
      PROVE  now' \in Nat /\ CatalogOK(catalog') /\ PassOK' /\ moved' \subseteq Sources
  BY <1>w DEF PassOK
<1>b. ASSUME NEW what \in {"disk", "plex", "colls"}, Change(what)
      PROVE  UNCHANGED <<now, catalog, pass, moved>> /\ budget' \in [disk : Nat, plex : Nat, colls : Nat]
  BY <1>b DEF Change
<1>3. ASSUME NEW p \in Paths, NEW sound \in BOOLEAN, FileWritten(p, sound) PROVE TypeOK'
  <2>1. DOMAIN disk' \subseteq Paths /\ disk' \in [DOMAIN disk' -> BOOLEAN]
    <3>1. disk' = With(disk, p, sound) /\ DOMAIN disk \subseteq Paths /\ disk \in [DOMAIN disk -> BOOLEAN]
      BY <1>3 DEF FileWritten
    <3>2. Table(Paths, BOOLEAN, disk)
      BY <3>1 DEF Table
    <3>3. Table(Paths, BOOLEAN, disk')
      BY <3>1, <3>2, RowWritten
    <3> QED BY <3>3 DEF Table
  <2> QED BY <1>3, <1>b, <1>w, <2>1 DEF FileWritten
<1>4. ASSUME NEW lost, FileGone(lost) PROVE TypeOK'
  BY <1>4, <1>b, <1>w DEF FileGone
<1>5. ASSUME NEW rk \in RatingKeys, PlexLoses(rk) PROVE TypeOK'
  <2>1. DOMAIN plex' \subseteq RatingKeys /\ plex' \in [DOMAIN plex' -> Films]
    BY <1>5 DEF PlexLoses
  <2>2. gone' \in [RatingKeys -> Nat \cup {Never}]
    BY <1>5 DEF PlexLoses
  <2>3. DOMAIN colls' \subseteq Collections /\ colls' \in [DOMAIN colls' -> [members : SUBSET RatingKeys, changed : Nat]]
    <3>1. \A x \in DOMAIN colls : [colls[x] EXCEPT !.members = @ \ {rk}] \in [members : SUBSET RatingKeys, changed : Nat]
      OBVIOUS
    <3> QED BY <1>5, <3>1 DEF PlexLoses
  <2> QED BY <1>5, <1>b, <1>w, <2>1, <2>2, <2>3 DEF PlexLoses
<1>6. ASSUME NEW rk \in RatingKeys, NEW g \in Guids \cup {NoGuid}, NEW p \in Paths, PlexSets(rk, g, p) PROVE TypeOK'
  <2> DEFINE added == IF rk \in DOMAIN plex THEN plex[rk].added ELSE now
             item == [guid |-> g, path |-> p, changed |-> now, added |-> added]
  <2>1. added \in Nat
    BY DEF Films
  <2>2. item \in Films
    BY <2>1 DEF Films
  <2>3. plex' = With(plex, rk, item)
    BY <1>6 DEF PlexSets
  <2>4. DOMAIN plex' \subseteq RatingKeys /\ plex' \in [DOMAIN plex' -> Films]
    <3>1. Table(RatingKeys, Films, plex)
      BY DEF Table
    <3> HIDE DEF TypeOK, item
    <3>2. Table(RatingKeys, Films, plex')
      BY <2>2, <2>3, <3>1, RowWritten
    <3> QED BY <3>2 DEF Table
  <2> QED BY <1>6, <1>b, <1>w, <2>4 DEF PlexSets
<1>7. ASSUME NEW x \in Collections, Scraps(x) PROVE TypeOK'
  BY <1>7, <1>b, <1>w DEF Scraps
<1>8. ASSUME NEW x \in Collections, NEW rk \in RatingKeys, Curates(x, rk) PROVE TypeOK'
  <2> DEFINE members == IF x \in DOMAIN colls THEN SymDiff(colls[x].members, {rk}) ELSE {rk}
             row == [members |-> members, changed |-> now]
  <2>1. members \in SUBSET RatingKeys
    BY DEF SymDiff
  <2>2. row \in [members : SUBSET RatingKeys, changed : Nat]
    BY <2>1
  <2>3. colls' = With(colls, x, row)
    BY <1>8 DEF Curates
  <2>4. DOMAIN colls' \subseteq Collections /\ colls' \in [DOMAIN colls' -> [members : SUBSET RatingKeys, changed : Nat]]
    <3> DEFINE Lists == [members : SUBSET RatingKeys, changed : Nat]
    <3>1. Table(Collections, Lists, colls) /\ row \in Lists
      BY <2>2 DEF Table
    <3> HIDE DEF TypeOK, row, Lists
    <3>2. Table(Collections, Lists, colls')
      BY <2>3, <3>1, RowWritten
    <3> QED BY <3>2 DEF Table, Lists
  <2> QED BY <1>8, <1>b, <1>w, <2>4 DEF Curates
\* The pass: the world does not change.
<1>v. ASSUME UNCHANGED <<now, world>>, CatalogOK(catalog'), PassOK', moved' \subseteq Sources PROVE TypeOK'
  BY <1>v DEF world
<1>9. ASSUME NEW answered \in {{}, DOMAIN disk}, Walk(answered) PROVE TypeOK'
  <2>1. PassOK'
    BY <1>9 DEF Walk, PassOK
  <2> QED BY <1>9, <1>v, <2>1 DEF Walk
<1>p. ASSUME NEW forced \in BOOLEAN, CatalogOK(catalog'), pass' = Planned(catalog', forced) PROVE PassOK'
  BY <1>p, PlannedPass DEF PassOK, Reads
<1>10. ASSUME NEW forced \in BOOLEAN, WriteScan(forced) PROVE TypeOK'
  <2>1. CatalogOK(catalog')
    <3>1. catalog' = IngestFiles(catalog, pass.files, pass.verdict) /\ pass.files \in SUBSET Paths
      BY <1>10, Passes DEF WriteScan
    <3> HIDE DEF TypeOK
    <3>2. CatalogOK(catalog)
      BY DEF TypeOK
    <3> QED BY <3>1, <3>2, ScanIsTaken DEF ScanTakes
  <2>2. moved' \subseteq Sources
    BY <1>10 DEF WriteScan, CatalogOK
  <2> QED BY <1>10, <1>p, <1>v, <2>1, <2>2 DEF WriteScan
<1>11. ASSUME NEW forced \in BOOLEAN, FailScan(forced) PROVE TypeOK'
  <2>1. CatalogOK(catalog') /\ pass' = Planned(catalog', forced)
    BY <1>11 DEF FailScan
  <2> QED BY <1>11, <1>p, <1>v, <2>1 DEF FailScan
<1>12. CASE FetchPage
  <2>1. CatalogOK(catalog') /\ PassOK' /\ UNCHANGED <<now, world, moved>>
    BY <1>12, PageFetched DEF PassOK, Reads
  <2> QED BY <1>v, <2>1
<1>13. CASE Write
  <2>1. CatalogOK(catalog')
    <3> DEFINE fetched == CollectionsFetched(pass.since)
    <3>1. /\ catalog' = WritePass(catalog, pass.items, fetched, pass.since = Never, pass.started)
          /\ pass.items \in Seq(Read) /\ pass.started \in Nat /\ (pass.since = Never) \in BOOLEAN
      BY <1>13, Passes DEF Write, Reading
    <3>2. CatalogOK(catalog)
      OBVIOUS
    <3> DEFINE full == pass.since = Never
    <3>3. full \in BOOLEAN
      OBVIOUS
    <3> HIDE DEF TypeOK, fetched, full
    <3>4. catalog' = WritePass(catalog, pass.items, fetched, full, pass.started)
      BY <3>1 DEF full
    <3>5. PassTakes(catalog, catalog', pass.items, fetched, full, pass.started)
      BY <3>1, <3>2, <3>3, <3>4, PassIsTaken
    <3> QED BY <3>5 DEF PassTakes
  <2>2. PassOK'
    BY <1>13 DEF Write, PassOK
  <2>3. moved' \subseteq Sources
    <3>1. pass.items \in Seq(Read) /\ moved' = moved \cup Fresh(catalog, pass.items)
      BY <1>13, Passes DEF Write, Reading
    <3>2. ASSUME NEW i \in DOMAIN pass.items PROVE pass.items[i].rk \in RatingKeys
      <4>1. i \in 1 .. Len(pass.items)
        BY <3>1, LenProperties
      <4>2. pass.items[i] \in Read
        BY <3>1, <4>1, ElementOfSeq
      <4> QED BY <4>2 DEF Read
    <3>3. Fresh(catalog, pass.items) \subseteq Sources
      BY <3>2 DEF Fresh, Sources
    <3> QED BY <3>1, <3>3
  <2> QED BY <1>13, <1>v, <2>1, <2>2, <2>3 DEF Write
<1>14. CASE Abandon
  <2>1. CatalogOK(catalog') /\ PassOK' /\ UNCHANGED <<now, world, moved>>
    BY <1>14 DEF Abandon, PassOK
  <2> QED BY <1>v, <2>1
<1> QED BY <1>1, <1>2, <1>3, <1>4, <1>5, <1>6, <1>7, <1>8, <1>9, <1>10, <1>11, <1>12, <1>13, <1>14
        DEF Next, World, Pass

\* The world, the catalog and the pass stay of their kinds, and no row of the catalog leads to
\* nothing: neither a merge nor a sweep nor an unanswered probe leaves a source, an
\* identifier or a collection with an entry that is not there (catalog/schema).
THEOREM TypeCorrect == Spec => []TypeOK
BY TypeInit, TypeStep, PTL DEF Spec

-----------------------------------------------------------------------------
(* What a step can do to Plex, the catalog and the pass *)

Aside    == now' \in Nat /\ now' >= now /\ UNCHANGED <<plex, colls, gone, catalog, pass>>
Restarts == UNCHANGED <<now, plex, colls, gone, catalog>> /\ ~Reading'
Plans    == /\ UNCHANGED <<now, plex, colls, gone>> /\ CatalogOK(catalog')
            /\ \/ catalog' = catalog
               \/ \E files \in SUBSET Paths : ScanTakes(catalog, catalog', files)
            /\ Reading' => /\ pass'.phase = "items" /\ pass'.started = now /\ pass'.start = 0
                           /\ pass'.items = <<>> /\ pass'.since \in {Never, catalog'.last}
Writes   == /\ UNCHANGED <<now, plex, colls, gone>> /\ Reading /\ pass.phase = "collections" /\ ~Reading'
            /\ \E full \in BOOLEAN :
                 /\ full = (pass.since = Never)
                 /\ PassTakes(catalog, catalog', pass.items, CollectionsFetched(pass.since), full, pass.started)
Sets(rk) ==
    /\ UNCHANGED <<now, colls, gone, catalog, pass>>
    /\ DOMAIN plex' = DOMAIN plex \cup {rk}
    /\ plex'[rk].changed = now
    /\ plex'[rk].added = IF rk \in DOMAIN plex THEN plex[rk].added ELSE now
    /\ \A r \in DOMAIN plex : r # rk => plex'[r] = plex[r]
Loses(rk) ==
    /\ UNCHANGED <<now, catalog, pass>> /\ rk \in DOMAIN plex
    /\ pass.phase = "items" => Shrinks
    /\ DOMAIN plex' = DOMAIN plex \ {rk} /\ \A r \in DOMAIN plex' : plex'[r] = plex[r]
    /\ gone'[rk] = now /\ \A r \in RatingKeys : r # rk => gone'[r] = gone[r]
    /\ DOMAIN colls' = DOMAIN colls
    /\ \A x \in DOMAIN colls : /\ colls'[x].members = colls[x].members \ {rk}
                               /\ colls'[x].changed = colls[x].changed
Sorts ==
    /\ UNCHANGED <<now, plex, gone, catalog, pass>>
    /\ \A x \in DOMAIN colls' :
         \/ x \in DOMAIN colls /\ colls'[x] = colls[x]
         \/ /\ colls'[x].changed = now
            /\ \A r \in colls'[x].members : r \in DOMAIN plex \/ (x \in DOMAIN colls /\ r \in colls[x].members)

LEMMA Steps ==
    ASSUME TypeOK, [Next]_vars
    PROVE  \/ Aside \/ Restarts \/ Plans \/ Writes \/ FetchPage \/ Sorts
           \/ \E rk \in RatingKeys : Sets(rk) \/ Loses(rk)
<1>1. CASE UNCHANGED vars
  BY <1>1 DEF vars, Aside, TypeOK
<1>2. CASE Tick
  BY <1>2 DEF Tick, world, Aside, TypeOK
<1>3. ASSUME NEW p \in Paths, NEW sound \in BOOLEAN, FileWritten(p, sound) PROVE Aside
  BY <1>3 DEF FileWritten, Change, Aside, TypeOK
<1>4. ASSUME NEW lost, FileGone(lost) PROVE Aside
  BY <1>4 DEF FileGone, Change, Aside, TypeOK
<1>5. ASSUME NEW rk \in RatingKeys, PlexLoses(rk) PROVE Loses(rk)
  BY <1>5 DEF PlexLoses, Change, Loses, TypeOK
<1>6. ASSUME NEW rk \in RatingKeys, NEW g \in Guids \cup {NoGuid}, NEW p \in Paths, PlexSets(rk, g, p) PROVE Sets(rk)
  <2> DEFINE item == [guid |-> g, path |-> p, changed |-> now,
                      added |-> IF rk \in DOMAIN plex THEN plex[rk].added ELSE now]
  <2>1. plex' = With(plex, rk, item) /\ UNCHANGED <<now, colls, gone, catalog, pass>>
    BY <1>6 DEF PlexSets, Change
  <2>2. item.changed = now /\ item.added = IF rk \in DOMAIN plex THEN plex[rk].added ELSE now
    OBVIOUS
  <2> HIDE DEF item
  <2>3. Rewrites(plex, rk, item, plex')
    BY <2>1, RowWritten
  <2> QED BY <2>1, <2>2, <2>3 DEF Sets, Rewrites
<1>7. ASSUME NEW x \in Collections, Scraps(x) PROVE Sorts
  BY <1>7 DEF Scraps, Change, Sorts
<1>8. ASSUME NEW x \in Collections, NEW rk \in RatingKeys, Curates(x, rk) PROVE Sorts
  <2> DEFINE members == IF x \in DOMAIN colls THEN SymDiff(colls[x].members, {rk}) ELSE {rk}
             row == [members |-> members, changed |-> now]
  <2>1. colls' = With(colls, x, row) /\ UNCHANGED <<now, plex, gone, catalog, pass>> /\ rk \in DOMAIN plex
    BY <1>8 DEF Curates, Change
  <2>2. row.changed = now /\ row.members = members
    OBVIOUS
  <2>3. \A r \in members : r = rk \/ (x \in DOMAIN colls /\ r \in colls[x].members)
    BY DEF SymDiff
  <2> HIDE DEF members, row
  <2>4. /\ DOMAIN colls' = DOMAIN colls \cup {x} /\ colls'[x] = row
        /\ \A y \in DOMAIN colls : y # x => colls'[y] = colls[y]
    <3>1. Rewrites(colls, x, row, colls')
      BY <2>1, RowWritten
    <3> QED BY <3>1 DEF Rewrites
  <2> QED BY <2>1, <2>2, <2>3, <2>4 DEF Sorts
<1>9. ASSUME NEW answered, Walk(answered) PROVE Restarts
  BY <1>9 DEF Walk, Restarts, world, Reading
<1>10. CASE Abandon
  BY <1>10 DEF Abandon, Restarts, world, Reading, Idle
<1>p. ASSUME NEW forced \in BOOLEAN, CatalogOK(catalog'), pass' = Planned(catalog', forced), now \in Nat
      PROVE  Reading' => /\ pass'.phase = "items" /\ pass'.started = now /\ pass'.start = 0
                         /\ pass'.items = <<>> /\ pass'.since \in {Never, catalog'.last}
  BY <1>p, PlannedPass DEF Reading, Idle
<1>11. ASSUME NEW forced \in BOOLEAN, WriteScan(forced) PROVE Plans
  <2>1. catalog' = IngestFiles(catalog, pass.files, pass.verdict) /\ pass.files \in SUBSET Paths
    BY <1>11, Passes DEF WriteScan
  <2>2. CatalogOK(catalog) /\ now \in Nat
    BY DEF TypeOK
  <2>3. ScanTakes(catalog, catalog', pass.files)
    BY <2>1, <2>2, ScanIsTaken
  <2>4. CatalogOK(catalog')
    BY <2>3 DEF ScanTakes
  <2>5. pass' = Planned(catalog', forced) /\ UNCHANGED <<now, plex, colls, gone>>
    BY <1>11 DEF WriteScan, world
  <2> QED BY <1>p, <2>1, <2>2, <2>3, <2>4, <2>5 DEF Plans
<1>12. ASSUME NEW forced \in BOOLEAN, FailScan(forced) PROVE Plans
  <2>1. CatalogOK(catalog') /\ now \in Nat /\ catalog' = catalog
    BY <1>12 DEF TypeOK, FailScan
  <2>2. pass' = Planned(catalog', forced) /\ UNCHANGED <<now, plex, colls, gone>>
    BY <1>12 DEF FailScan, world
  <2> QED BY <1>p, <2>1, <2>2 DEF Plans
<1>13. CASE Write
  <2> DEFINE fetched == CollectionsFetched(pass.since)
             full == pass.since = Never
  <2>1. /\ catalog' = WritePass(catalog, pass.items, fetched, full, pass.started)
        /\ pass.items \in Seq(Read) /\ pass.started \in Nat /\ full \in BOOLEAN
        /\ Reading /\ pass.phase = "collections" /\ ~Reading' /\ UNCHANGED <<now, plex, colls, gone>>
    BY <1>13, Passes DEF Write, Reading, Idle, world
  <2>2. CatalogOK(catalog)
    BY DEF TypeOK
  <2> HIDE DEF fetched, full
  <2>3. PassTakes(catalog, catalog', pass.items, fetched, full, pass.started)
    BY <2>1, <2>2, PassIsTaken
  <2> QED BY <2>1, <2>3 DEF Writes, full, fetched
<1> QED BY <1>1, <1>2, <1>3, <1>4, <1>5, <1>6, <1>7, <1>8, <1>9, <1>10, <1>11, <1>12, <1>13
        DEF Next, World, Pass

-----------------------------------------------------------------------------
(* The invariant of the catalog *)

\* No cursor is ahead of the pass that will set it, nor of the clock.
Clocks ==
    /\ catalog.full =< catalog.last /\ catalog.last =< now
    /\ \A rk \in DOMAIN plex : plex[rk].added =< plex[rk].changed /\ plex[rk].changed =< now
    /\ Reading => /\ pass.started =< now /\ catalog.last =< pass.started
                  /\ pass.since \in {Never, catalog.last}

\* What a pass has read: Plex has it, or lost it since, and as it was read unless it changed since.
ReadRight ==
    Reading => \A i \in 1 .. Len(pass.items) :
        LET item == pass.items[i]
        IN /\ item.rk \notin DOMAIN plex => gone[item.rk] >= pass.started
           /\ item.rk \in DOMAIN plex /\ plex[item.rk].changed < pass.started
                => item.path = plex[item.rk].path /\ item.guid = plex[item.rk].guid

\* What a pass owes an answer: it stood in the list when the pass began, and stands there still.
Due(rk) ==
    \/ pass.since = Never /\ plex[rk].added < pass.started
    \/ Updated(rk) >= pass.since /\ plex[rk].changed < pass.started
    \/ plex[rk].added >= pass.since /\ plex[rk].added < pass.started

\* As long as Plex loses nothing while its pages are read, no page steps over what is owed.
NoneSkipped ==
    Reading => \A rk \in DOMAIN plex :
        Due(rk) /\ (pass.phase = "collections" \/ Ahead(pass.since, rk) < pass.start)
            => \E i \in 1 .. Len(pass.items) : pass.items[i].rk = rk

\* A collection holds what Plex holds, and was changed when its last member came, or later.
MembersAreThere ==
    \A x \in DOMAIN colls : \A rk \in colls[x].members :
        rk \in DOMAIN plex /\ plex[rk].added =< colls[x].changed

\* What came before the last pass has a row.
Arrived == \A rk \in DOMAIN plex : plex[rk].added < catalog.last => Px(rk) \in DOMAIN catalog.sources

LEMMA ClocksStep ==
    ASSUME TypeOK, Clocks, [Next]_vars
    PROVE  Clocks'
<1>0. /\ now \in Nat /\ catalog.last \in Nat \cup {Never} /\ catalog.full \in Nat \cup {Never}
      /\ \A rk \in DOMAIN plex : rk \in RatingKeys /\ plex[rk].added \in Nat /\ plex[rk].changed \in Nat
      /\ Reading => pass.started \in Nat /\ pass.since \in Nat \cup {Never} /\ pass \in Reads
  BY Passes DEF TypeOK, CatalogOK, Films
<1> USE DEF Clocks
<1>1. CASE Aside
  BY <1>0, <1>1 DEF Aside, Reading, Never
<1>2. CASE Restarts
  BY <1>2 DEF Restarts
<1>3. CASE Plans
  <2>1. catalog'.last = catalog.last /\ catalog'.full = catalog.full
    BY <1>3 DEF Plans, ScanTakes
  <2> QED BY <1>0, <1>3, <2>1 DEF Plans, Never
<1>4. CASE Writes
  <2>1. catalog'.last = pass.started /\ catalog'.full \in {pass.started, catalog.full}
        /\ pass.started =< now /\ catalog.last =< pass.started /\ pass.started \in Nat
    BY <1>0, <1>4 DEF Writes, PassTakes
  <2> QED BY <1>0, <1>4, <2>1 DEF Writes, Never
<1>5. CASE FetchPage
  <2>1. /\ Reading /\ pass'.since = pass.since /\ pass'.started = pass.started
        /\ now' = now /\ catalog' = catalog /\ plex' = plex
    BY <1>5, PageFetched DEF world
  <2> QED BY <2>1
<1>6. CASE Sorts
  BY <1>6 DEF Sorts, Reading
<1>7. ASSUME NEW rk \in RatingKeys, Sets(rk) PROVE Clocks'
  <2>1. \A r \in DOMAIN plex' : plex'[r].added =< plex'[r].changed /\ plex'[r].changed =< now
    <3> SUFFICES ASSUME NEW r \in DOMAIN plex' PROVE plex'[r].added =< plex'[r].changed /\ plex'[r].changed =< now
      OBVIOUS
    <3>1. CASE r = rk /\ rk \in DOMAIN plex
      BY <1>0, <1>7, <3>1 DEF Sets
    <3>2. CASE r = rk /\ rk \notin DOMAIN plex
      BY <1>0, <1>7, <3>2 DEF Sets
    <3>3. CASE r # rk
      BY <1>7, <3>3 DEF Sets
    <3> QED BY <3>1, <3>2, <3>3
  <2> QED BY <1>7, <2>1 DEF Sets, Reading
<1>8. ASSUME NEW rk \in RatingKeys, Loses(rk) PROVE Clocks'
  BY <1>8 DEF Loses, Reading
<1> QED BY <1>1, <1>2, <1>3, <1>4, <1>5, <1>6, <1>7, <1>8, Steps

LEMMA ReadRightStep ==
    ASSUME TypeOK, Clocks, ReadRight, [Next]_vars
    PROVE  ReadRight'
<1>0. /\ now \in Nat
      /\ \A rk \in DOMAIN plex : rk \in RatingKeys /\ plex[rk].added \in Nat /\ plex[rk].changed \in Nat
      /\ Reading => /\ pass.started \in Nat /\ pass.started =< now /\ pass.items \in Seq(Read)
                    /\ Len(pass.items) \in Nat
                    /\ \A i \in 1 .. Len(pass.items) : pass.items[i].rk \in RatingKeys
  <2>1. /\ Reading => pass.started \in Nat /\ pass.items \in Seq(Read)
    BY Passes
  <2>2. Reading => Len(pass.items) \in Nat /\ \A i \in 1 .. Len(pass.items) : pass.items[i] \in Read
    BY <2>1, LenProperties, ElementOfSeq
  <2> QED BY <2>1, <2>2 DEF TypeOK, Films, Clocks, Read
<1> USE DEF ReadRight
<1>1. CASE Aside
  BY <1>1 DEF Aside, Reading
<1>2. CASE Restarts
  BY <1>2 DEF Restarts
<1>3. CASE Plans
  <2>1. Reading' => Len(pass'.items) = 0
    BY <1>3 DEF Plans
  <2> QED BY <2>1
<1>4. CASE Writes
  BY <1>4 DEF Writes
<1>5. CASE FetchPage
  <2>1. /\ Reading /\ pass'.started = pass.started /\ plex' = plex /\ gone' = gone
        /\ NoPage \/ \E rk \in Listed(pass.since) : OnePage(rk)
    BY <1>5, PageFetched DEF world
  <2>2. CASE NoPage
    BY <2>1, <2>2 DEF NoPage
  <2>3. ASSUME NEW rk \in Listed(pass.since), OnePage(rk) PROVE ReadRight'
    <3>1. /\ Len(pass'.items) = Len(pass.items) + 1 /\ pass'.items[Len(pass.items) + 1] = Page(rk)
          /\ \A i \in 1 .. Len(pass.items) : pass'.items[i] = pass.items[i]
      <4>1. Page(rk) \in Read
        BY DEF TypeOK, Listed, Films, Read, Page
      <4> QED BY <1>0, <2>1, <2>3, <4>1, AppendProperties DEF OnePage
    <3>2. rk \in DOMAIN plex /\ Page(rk).rk = rk /\ Page(rk).path = plex[rk].path /\ Page(rk).guid = plex[rk].guid
      BY DEF Listed, Page
    <3>3. ASSUME NEW i \in 1 .. Len(pass'.items)
          PROVE  /\ pass'.items[i].rk \notin DOMAIN plex => gone[pass'.items[i].rk] >= pass.started
                 /\ pass'.items[i].rk \in DOMAIN plex /\ plex[pass'.items[i].rk].changed < pass.started
                      => /\ pass'.items[i].path = plex[pass'.items[i].rk].path
                         /\ pass'.items[i].guid = plex[pass'.items[i].rk].guid
      <4>1. CASE i = Len(pass.items) + 1
        BY <3>1, <3>2, <4>1
      <4>2. CASE i \in 1 .. Len(pass.items)
        BY <2>1, <3>1, <4>2
      <4> QED BY <1>0, <2>1, <3>1, <4>1, <4>2
    <3> QED BY <2>1, <3>3
  <2> QED BY <2>1, <2>2, <2>3
<1>6. CASE Sorts
  BY <1>6 DEF Sorts, Reading
<1>7. ASSUME NEW rk \in RatingKeys, Sets(rk) PROVE ReadRight'
  <2>1. /\ Reading' = Reading /\ pass' = pass /\ gone' = gone
        /\ DOMAIN plex' = DOMAIN plex \cup {rk} /\ plex'[rk].changed = now
        /\ \A r \in DOMAIN plex : r # rk => plex'[r] = plex[r]
    BY <1>7 DEF Sets, Reading
  <2> SUFFICES ASSUME Reading, NEW i \in 1 .. Len(pass.items)
               PROVE  LET item == pass.items[i]
                      IN /\ item.rk \notin DOMAIN plex' => gone[item.rk] >= pass.started
                         /\ item.rk \in DOMAIN plex' /\ plex'[item.rk].changed < pass.started
                              => item.path = plex'[item.rk].path /\ item.guid = plex'[item.rk].guid
    BY <2>1
  <2>2. CASE pass.items[i].rk = rk
    BY <1>0, <2>1, <2>2
  <2>3. CASE pass.items[i].rk # rk
    BY <2>1, <2>3
  <2> QED BY <2>2, <2>3
<1>8. ASSUME NEW rk \in RatingKeys, Loses(rk) PROVE ReadRight'
  <2>1. /\ Reading' = Reading /\ pass' = pass
        /\ DOMAIN plex' = DOMAIN plex \ {rk} /\ \A r \in DOMAIN plex' : plex'[r] = plex[r]
        /\ gone'[rk] = now /\ \A r \in RatingKeys : r # rk => gone'[r] = gone[r]
    BY <1>8 DEF Loses, Reading
  <2> QED BY <1>0, <2>1
<1> QED BY <1>1, <1>2, <1>3, <1>4, <1>5, <1>6, <1>7, <1>8, Steps

LEMMA MembersStep ==
    ASSUME TypeOK, Clocks, MembersAreThere, [Next]_vars
    PROVE  MembersAreThere'
<1>0. /\ now \in Nat
      /\ \A rk \in DOMAIN plex : /\ plex[rk].added \in Nat /\ plex[rk].changed \in Nat
                                 /\ plex[rk].added =< plex[rk].changed /\ plex[rk].changed =< now
  BY DEF TypeOK, Films, Clocks
<1> USE DEF MembersAreThere
<1>1. CASE Aside
  BY <1>1 DEF Aside
<1>2. CASE Restarts \/ Plans \/ Writes
  BY <1>2 DEF Restarts, Plans, Writes
<1>3. CASE FetchPage
  BY <1>3, PageFetched DEF world
<1>4. CASE Sorts
  <2> SUFFICES ASSUME NEW x \in DOMAIN colls', NEW r \in colls'[x].members
               PROVE  r \in DOMAIN plex /\ plex[r].added =< colls'[x].changed
    BY <1>4 DEF Sorts
  <2>1. CASE x \in DOMAIN colls /\ colls'[x] = colls[x]
    BY <2>1
  <2>2. CASE /\ colls'[x].changed = now
             /\ r \in DOMAIN plex \/ (x \in DOMAIN colls /\ r \in colls[x].members)
    BY <1>0, <2>2
  <2> QED BY <1>4, <2>1, <2>2 DEF Sorts
<1>5. ASSUME NEW rk \in RatingKeys, Sets(rk) PROVE MembersAreThere'
  BY <1>5 DEF Sets
<1>6. ASSUME NEW rk \in RatingKeys, Loses(rk) PROVE MembersAreThere'
  BY <1>6 DEF Loses
<1> QED BY <1>1, <1>2, <1>3, <1>4, <1>5, <1>6, Steps

\* An item that is listed has fewer before it than are listed, and no two have as many.
LEMMA Ranks ==
    ASSUME TypeOK, NEW since
    PROVE  /\ Listed(since) \subseteq RatingKeys /\ IsFiniteSet(Listed(since)) /\ Cardinality(Listed(since)) \in Nat
           /\ \A rk \in RatingKeys : Ahead(since, rk) \in Nat
           /\ \A rk \in Listed(since) : Ahead(since, rk) < Cardinality(Listed(since))
           /\ \A r, rk \in Listed(since) : Ahead(since, r) = Ahead(since, rk) => r = rk
<1> DEFINE L == Listed(since)
           before(rk) == {r \in L : r < rk}
<1>1. L \subseteq RatingKeys /\ IsFiniteSet(L) /\ Cardinality(L) \in Nat /\ RatingKeys \subseteq Nat
  <2>1. L \subseteq RatingKeys /\ RatingKeys \subseteq Nat /\ IsFiniteSet(RatingKeys)
    BY CatalogAssumption DEF Listed, TypeOK
  <2> HIDE DEF L
  <2>2. IsFiniteSet(L)
    BY <2>1, FS_Subset
  <2> QED BY <2>1, <2>2, FS_CardinalityType
<1>2. \A rk : Ahead(since, rk) = Cardinality(before(rk))
  BY DEF Ahead
<1> HIDE DEF L
<1>3. \A rk : IsFiniteSet(before(rk)) /\ Cardinality(before(rk)) \in Nat
  <2> SUFFICES ASSUME NEW rk PROVE IsFiniteSet(before(rk)) /\ Cardinality(before(rk)) \in Nat
    OBVIOUS
  <2>1. before(rk) \subseteq L
    OBVIOUS
  <2> HIDE DEF before
  <2>2. IsFiniteSet(before(rk))
    BY <1>1, <2>1, FS_Subset
  <2> QED BY <2>2, FS_CardinalityType
<1>4. ASSUME NEW rk \in L PROVE Cardinality(before(rk)) < Cardinality(L)
  <2>1. before(rk) \subseteq L /\ rk \in L /\ rk \notin before(rk)
    BY <1>1
  <2> HIDE DEF before
  <2>2. Cardinality(before(rk)) =< Cardinality(L) /\ before(rk) # L
    BY <1>1, <2>1, FS_Subset
  <2>3. Cardinality(before(rk)) # Cardinality(L)
    BY <1>1, <2>1, <2>2, FS_Subset
  <2> QED BY <1>1, <1>3, <2>2, <2>3
<1>5. ASSUME NEW r \in L, NEW rk \in L, r < rk PROVE Cardinality(before(r)) < Cardinality(before(rk))
  <2>1. before(r) \subseteq before(rk) /\ r \in before(rk) /\ r \notin before(r)
    <3>1. r \in Nat /\ rk \in Nat /\ \A x \in L : x \in Nat
      BY <1>1
    <3>2. \A x \in L : x < r => x < rk
      BY <1>5, <3>1
    <3>3. ~(r < r)
      BY <3>1
    <3> QED BY <1>5, <3>2, <3>3
  <2>2. IsFiniteSet(before(rk)) /\ Cardinality(before(rk)) \in Nat /\ Cardinality(before(r)) \in Nat
    BY <1>3
  <2> HIDE DEF before
  <2>3. Cardinality(before(r)) =< Cardinality(before(rk)) /\ before(r) # before(rk)
    BY <2>1, <2>2, FS_Subset
  <2>4. Cardinality(before(r)) # Cardinality(before(rk))
    BY <2>1, <2>2, <2>3, FS_Subset
  <2> QED BY <2>2, <2>3, <2>4
<1> HIDE DEF before
<1>6. \A r, rk \in L : Cardinality(before(r)) = Cardinality(before(rk)) => r = rk
  <2> SUFFICES ASSUME NEW r \in L, NEW rk \in L, Cardinality(before(r)) = Cardinality(before(rk)) PROVE r = rk
    OBVIOUS
  <2>1. ~(r < rk) /\ ~(rk < r)
    BY <1>3, <1>5
  <2> QED BY <1>1, <2>1
<1> QED BY <1>1, <1>2, <1>3, <1>4, <1>6 DEF L

\* What an item's change does to the list and to what is owed: the list only grows, and no more is owed.
LEMMA ListGrows ==
    ASSUME TypeOK, TypeOK', Clocks, Reading, NEW rk \in RatingKeys, Sets(rk)
    PROVE  /\ Listed(pass.since) \subseteq Listed(pass.since)'
           /\ \A r \in DOMAIN plex' : Due(r)' => r \in DOMAIN plex /\ Due(r)
<1> DEFINE since == pass.since
<1>0. /\ now \in Nat /\ pass.started \in Nat /\ pass.started =< now /\ since \in Nat \cup {Never}
      /\ \A r \in DOMAIN plex : /\ plex[r].added \in Nat /\ plex[r].changed \in Nat /\ plex[r].changed =< now
  BY Passes DEF TypeOK, Films, Clocks
<1>1. /\ pass' = pass /\ DOMAIN plex' = DOMAIN plex \cup {rk}
      /\ plex'[rk].changed = now
      /\ plex'[rk].added = IF rk \in DOMAIN plex THEN plex[rk].added ELSE now
      /\ \A r \in DOMAIN plex : r # rk => plex'[r] = plex[r]
  BY DEF Sets
<1>2. ASSUME NEW r \in Listed(since) PROVE r \in Listed(since)'
  <2>1. r \in DOMAIN plex /\ (since = Never \/ Updated(r) > since - 1 \/ plex[r].added > since - 1)
    BY DEF Listed
  <2>2. r \in DOMAIN plex' /\ plex'[r].added = plex[r].added
    BY <1>1, <2>1
  <2>3. Updated(r)' >= Updated(r) /\ Updated(r) \in Nat \cup {Never} /\ Updated(r)' \in Nat \cup {Never}
    <3>1. CASE r \in Dated
      BY <1>0, <1>1, <2>1, <3>1 DEF Updated
    <3>2. CASE r \notin Dated
      BY <3>2 DEF Updated, Never
    <3> QED BY <3>1, <3>2
  <2>4. since = Never \/ Updated(r)' > since - 1 \/ plex'[r].added > since - 1
    BY <1>0, <2>1, <2>2, <2>3 DEF Never
  <2> QED BY <1>1, <2>2, <2>4 DEF Listed
<1>3. ASSUME NEW r \in DOMAIN plex', Due(r)' PROVE r \in DOMAIN plex /\ Due(r)
  <2>1. \/ since = Never /\ plex'[r].added < pass.started
        \/ Updated(r)' >= since /\ plex'[r].changed < pass.started
        \/ plex'[r].added >= since /\ plex'[r].added < pass.started
    BY <1>1, <1>3 DEF Due
  <2>2. CASE r # rk
    <3>1. r \in DOMAIN plex /\ plex'[r] = plex[r]
      BY <1>1, <2>2
    <3>2. Updated(r)' = Updated(r)
      BY <3>1 DEF Updated
    <3> QED BY <2>1, <3>1, <3>2 DEF Due
  <2>3. CASE r = rk
    <3>1. ~(plex'[r].changed < pass.started)
      BY <1>0, <1>1, <2>3
    <3>2. rk \in DOMAIN plex
      BY <1>0, <1>1, <2>1, <2>3, <3>1
    <3> QED BY <1>1, <2>1, <2>3, <3>1, <3>2 DEF Due
  <2> QED BY <2>2, <2>3
<1>4. Listed(since)' = Listed(pass.since)'
  OBVIOUS
<1> QED BY <1>2, <1>3

LEMMA NoneSkippedStep ==
    ASSUME ~Shrinks, TypeOK, TypeOK', Clocks, NoneSkipped, [Next]_vars
    PROVE  NoneSkipped'
<1>0. /\ \A rk \in DOMAIN plex : /\ rk \in RatingKeys /\ plex[rk].added \in Nat /\ plex[rk].changed \in Nat
      /\ Reading => /\ pass.started \in Nat /\ pass.start \in Nat /\ pass.since \in Nat \cup {Never}
                    /\ pass.items \in Seq(Read) /\ Len(pass.items) \in Nat
  BY Passes, LenProperties DEF TypeOK, Films
<1>1. CASE Aside \/ Sorts
  <2>1. pass' = pass /\ plex' = plex
    BY <1>1 DEF Aside, Sorts
  <2> QED BY <2>1 DEF NoneSkipped, Reading, Due, Updated, Ahead, Listed
<1>2. CASE Restarts \/ Writes
  BY <1>2 DEF Restarts, Writes, NoneSkipped
<1>3. CASE Plans
  <2> SUFFICES ASSUME Reading', NEW rk \in DOMAIN plex', Ahead(pass.since, rk)' < pass'.start \/ pass'.phase = "collections"
               PROVE  FALSE
    BY DEF NoneSkipped
  <2>1. pass'.phase = "items" /\ pass'.start = 0 /\ plex' = plex
    BY <1>3 DEF Plans
  <2>2. Ahead(pass.since, rk)' = Ahead(pass'.since, rk)
    BY <2>1 DEF Ahead, Listed, Updated
  <2>3. Ahead(pass'.since, rk) \in Nat
    BY <1>0, <2>1, Ranks
  <2> QED BY <2>1, <2>2, <2>3
<1>4. CASE FetchPage
  <2>1. /\ Reading /\ pass.phase = "items" /\ pass'.since = pass.since /\ pass'.started = pass.started
        /\ plex' = plex /\ pass'.phase \in {"items", "collections"}
        /\ NoPage \/ \E rk \in Listed(pass.since) : OnePage(rk)
    BY <1>4, PageFetched DEF world, Reads
  <2>2. SUFFICES ASSUME NEW rk \in DOMAIN plex, Due(rk),
                        pass'.phase = "collections" \/ Ahead(pass.since, rk) < pass'.start
                 PROVE  \E i \in 1 .. Len(pass'.items) : pass'.items[i].rk = rk
    <3>1. \A rk : Due(rk)' = Due(rk) /\ Ahead(pass.since, rk)' = Ahead(pass.since, rk)
      BY <2>1 DEF Due, Updated, Ahead, Listed
    <3> QED BY <2>1, <3>1 DEF NoneSkipped
  <2>3. rk \in Listed(pass.since)
    <3>1. Updated(rk) \in Nat \cup {Never}
      BY <1>0 DEF Updated
    <3> QED BY <1>0, <2>1, <2>2, <3>1 DEF Due, Listed, Never
  <2>4. /\ Ahead(pass.since, rk) \in Nat /\ Ahead(pass.since, rk) < Cardinality(Listed(pass.since))
        /\ Cardinality(Listed(pass.since)) \in Nat
    BY <1>0, <2>2, <2>3, Ranks
  <2>5. Ahead(pass.since, rk) < pass.start => \E i \in 1 .. Len(pass.items) : pass.items[i].rk = rk
    BY <2>1, <2>2 DEF NoneSkipped
  <2>6. CASE NoPage
    BY <1>0, <2>1, <2>4, <2>5, <2>6 DEF NoPage
  <2>7. ASSUME NEW next \in Listed(pass.since), OnePage(next)
        PROVE  \E i \in 1 .. Len(pass'.items) : pass'.items[i].rk = rk
    <3>1. /\ Len(pass'.items) = Len(pass.items) + 1 /\ pass'.items[Len(pass.items) + 1] = Page(next)
          /\ \A i \in 1 .. Len(pass.items) : pass'.items[i] = pass.items[i]
      <4>1. Page(next) \in Read
        BY DEF TypeOK, Listed, Films, Read, Page
      <4> QED BY <1>0, <2>1, <2>7, <4>1, AppendProperties DEF OnePage
    <3>2. Ahead(pass.since, next) = pass.start
      BY <2>7 DEF OnePage
    <3>3. Ahead(pass.since, rk) < pass.start + 1
      BY <1>0, <2>1, <2>2, <2>4, <2>7 DEF OnePage
    <3>4. CASE Ahead(pass.since, rk) < pass.start
      <4>1. PICK i \in 1 .. Len(pass.items) : pass.items[i].rk = rk
        BY <2>5, <3>4
      <4>2. i \in 1 .. Len(pass'.items)
        BY <1>0, <2>1, <3>1
      <4> QED BY <3>1, <4>1, <4>2
    <3>5. CASE Ahead(pass.since, rk) = pass.start
      <4>1. rk = next
        BY <2>3, <3>2, <3>5, Ranks
      <4>2. Len(pass.items) + 1 \in 1 .. Len(pass'.items) /\ Page(next).rk = next
        BY <1>0, <2>1, <3>1 DEF Page
      <4> QED BY <3>1, <4>1, <4>2
    <3> QED BY <1>0, <2>1, <2>4, <3>3, <3>4, <3>5
  <2> QED BY <2>1, <2>6, <2>7
<1>5. ASSUME NEW rk \in RatingKeys, Sets(rk) PROVE NoneSkipped'
  <2> SUFFICES ASSUME Reading', NEW r \in DOMAIN plex', Due(r)',
                      pass'.phase = "collections" \/ Ahead(pass.since, r)' < pass'.start
               PROVE  \E i \in 1 .. Len(pass'.items) : pass'.items[i].rk = r
    BY DEF NoneSkipped
  <2>1. pass' = pass /\ Reading
    BY <1>5 DEF Sets, Reading
  <2>2. /\ Listed(pass.since) \subseteq Listed(pass.since)'
        /\ r \in DOMAIN plex /\ Due(r)
    BY <1>5, <2>1, ListGrows
  <2>3. pass.phase # "collections" => Ahead(pass.since, r) < pass.start
    <3> DEFINE S == {x \in Listed(pass.since) : x < r}
               T == {x \in Listed(pass.since)' : x < r}
    <3>1. S \subseteq T
      BY <2>2
    <3>2. IsFiniteSet(T)
      <4>1. Listed(pass.since)' \subseteq RatingKeys
        BY DEF Listed, TypeOK
      <4>2. T \subseteq RatingKeys
        BY <4>1
      <4> HIDE DEF T
      <4> QED BY <4>2, CatalogAssumption, FS_Subset
    <3>3. Ahead(pass.since, r) = Cardinality(S) /\ Ahead(pass.since, r)' = Cardinality(T)
      BY <2>1 DEF Ahead
    <3> HIDE DEF S, T
    <3>4. Cardinality(S) =< Cardinality(T) /\ Cardinality(S) \in Nat /\ Cardinality(T) \in Nat
      BY <3>1, <3>2, FS_Subset, FS_CardinalityType
    <3>5. pass.phase # "collections" => Cardinality(T) < pass.start
      BY <2>1, <3>3
    <3> QED BY <1>0, <2>1, <3>3, <3>4, <3>5
  <2> QED BY <2>1, <2>2, <2>3 DEF NoneSkipped
<1>6. ASSUME NEW rk \in RatingKeys, Loses(rk) PROVE NoneSkipped'
  <2>1. /\ pass' = pass /\ Reading' = Reading /\ pass.phase # "items"
        /\ DOMAIN plex' = DOMAIN plex \ {rk} /\ \A r \in DOMAIN plex' : plex'[r] = plex[r]
    BY <1>6 DEF Loses, Reading
  <2>2. \A r \in DOMAIN plex' : Due(r)' = Due(r)
    BY <2>1 DEF Due, Updated
  <2> QED BY <2>1, <2>2 DEF NoneSkipped, Reading
<1> QED BY <1>1, <1>2, <1>3, <1>4, <1>5, <1>6, Steps

-----------------------------------------------------------------------------
(* What is missing, and what has a twin *)

\* Of a pass that is written: what it read, and that the catalog's times are numbers.
LEMMA Written ==
    ASSUME TypeOK, Clocks, Writes
    PROVE  /\ pass.started \in Nat /\ catalog.last =< pass.started /\ catalog.full =< catalog.last
           /\ catalog.last \in Nat \cup {Never} /\ catalog.full \in Nat \cup {Never}
           /\ pass.since \in {Never, catalog.last} /\ pass.since \in Nat \cup {Never}
           /\ \A i \in 1 .. Len(pass.items) : pass.items[i].rk \in RatingKeys
           /\ \A rk : Px(rk) \in {Px(pass.items[i].rk) : i \in 1 .. Len(pass.items)}
                        => \E i \in 1 .. Len(pass.items) : pass.items[i].rk = rk
<1>1. Reading
  BY DEF Writes
<1>2. pass.started \in Nat /\ pass.items \in Seq(Read) /\ pass.since \in Nat \cup {Never}
  BY <1>1, Passes
<1>3. \A i \in 1 .. Len(pass.items) : pass.items[i] \in Read
  BY <1>2, ElementOfSeq
<1>4. \A rk : Px(rk) \in {Px(pass.items[i].rk) : i \in 1 .. Len(pass.items)}
                => \E i \in 1 .. Len(pass.items) : pass.items[i].rk = rk
  BY Keys
<1> QED BY <1>1, <1>2, <1>3, <1>4 DEF TypeOK, CatalogOK, Clocks, Read

LEMMA GoneStep ==
    ASSUME TypeOK, Clocks, ReadRight, GoneAfterSweep, [Next]_vars
    PROVE  GoneAfterSweep'
<1>0. now \in Nat /\ catalog.full \in Nat \cup {Never} /\ catalog.full =< now
  BY DEF TypeOK, CatalogOK, Clocks, Never
<1> USE DEF GoneAfterSweep
<1>1. CASE Aside \/ Restarts \/ Sorts
  BY <1>1 DEF Aside, Restarts, Sorts
<1>2. CASE FetchPage
  BY <1>2, PageFetched DEF world
<1>3. CASE Plans
  <2>1. CASE catalog' = catalog
    BY <1>3, <2>1 DEF Plans
  <2>2. ASSUME NEW files \in SUBSET Paths, ScanTakes(catalog, catalog', files) PROVE GoneAfterSweep'
    <3>1. \A rk \in RatingKeys : Px(rk) \in DOMAIN catalog'.sources =>
            Px(rk) \in DOMAIN catalog.sources /\ catalog'.sources[Px(rk)].missing = catalog.sources[Px(rk)].missing
      BY <2>2, Keys DEF ScanTakes
    <3>2. catalog'.full = catalog.full /\ plex' = plex /\ gone' = gone
      BY <1>3, <2>2 DEF ScanTakes, Plans
    <3> QED BY <3>1, <3>2
  <2> QED BY <1>3, <2>1, <2>2 DEF Plans
<1>4. CASE Writes
  <2> SUFFICES ASSUME NEW rk \in RatingKeys, Px(rk) \in DOMAIN catalog'.sources, rk \notin DOMAIN plex,
                      ~catalog'.sources[Px(rk)].missing
               PROVE  gone[rk] >= catalog'.full
    BY <1>4 DEF Writes
  <2> DEFINE read == {Px(pass.items[i].rk) : i \in 1 .. Len(pass.items)}
  <2>1. PICK full \in BOOLEAN : PassTakes(catalog, catalog', pass.items, CollectionsFetched(pass.since), full, pass.started)
    BY <1>4 DEF Writes
  <2>2. /\ catalog'.full = IF full THEN pass.started ELSE catalog.full
        /\ DOMAIN catalog'.sources = DOMAIN catalog.sources \cup read
        /\ \A k \in DOMAIN catalog.sources : k[1] = "plex" /\ k \notin read =>
             catalog'.sources[k].missing = (catalog.sources[k].missing \/ full)
    BY <2>1 DEF PassTakes
  <2>3. gone[rk] \in Nat \cup {Never}
    BY DEF TypeOK
  <2>4. CASE Px(rk) \in read
    <3>1. PICK i \in 1 .. Len(pass.items) : pass.items[i].rk = rk
      BY <1>4, <2>4, Written
    <3>2. gone[rk] >= pass.started
      BY <1>4, <3>1 DEF ReadRight, Writes
    <3> QED BY <1>0, <1>4, <2>2, <2>3, <3>2, Written DEF Never
  <2>5. CASE Px(rk) \notin read
    <3>1. ~full /\ Px(rk) \in DOMAIN catalog.sources /\ ~catalog.sources[Px(rk)].missing
      BY <2>2, <2>5, Keys
    <3> QED BY <2>2, <3>1
  <2> QED BY <2>4, <2>5
<1>5. ASSUME NEW rk \in RatingKeys, Sets(rk) PROVE GoneAfterSweep'
  BY <1>5 DEF Sets
<1>6. ASSUME NEW rk \in RatingKeys, Loses(rk) PROVE GoneAfterSweep'
  BY <1>0, <1>6 DEF Loses
<1> QED BY <1>1, <1>2, <1>3, <1>4, <1>5, <1>6, Steps

LEMMA HollowStep ==
    ASSUME TypeOK, NoHollowEntries, [Next]_vars
    PROVE  NoHollowEntries'
<1>0. Hollowless(catalog) /\ (Hollowless(catalog') => NoHollowEntries')
  BY DEF NoHollowEntries, Hollowless
<1>1. catalog' = catalog => Hollowless(catalog')
  BY <1>0
<1>2. CASE Plans
  BY <1>0, <1>1, <1>2 DEF Plans, ScanTakes
<1>3. CASE Writes
  BY <1>0, <1>3 DEF Writes, PassTakes
<1>4. CASE FetchPage
  BY <1>0, <1>1, <1>4, PageFetched
<1>5. CASE Aside \/ Restarts \/ Sorts \/ \E rk \in RatingKeys : Sets(rk) \/ Loses(rk)
  BY <1>0, <1>1, <1>5 DEF Aside, Restarts, Sorts, Sets, Loses
<1> QED BY <1>2, <1>3, <1>4, <1>5, Steps

LEMMA TwinsStep ==
    ASSUME TypeOK, NoTwins, [Next]_vars
    PROVE  NoTwins'
<1>0. Twinless(catalog) /\ (Twinless(catalog') => NoTwins')
  <2>1. Twinless(catalog)
    BY DEF NoTwins, Twinless, Claimed
  <2>2. ASSUME Twinless(catalog') PROVE NoTwins'
    BY <2>2 DEF NoTwins, Twinless, Claimed
  <2> QED BY <2>1, <2>2
<1>1. catalog' = catalog => Twinless(catalog')
  BY <1>0
<1>2. CASE Plans
  BY <1>0, <1>1, <1>2 DEF Plans, ScanTakes
<1>3. CASE Writes
  BY <1>0, <1>3 DEF Writes, PassTakes
<1>4. CASE FetchPage
  BY <1>0, <1>1, <1>4, PageFetched
<1>5. CASE Aside \/ Restarts \/ Sorts \/ \E rk \in RatingKeys : Sets(rk) \/ Loses(rk)
  BY <1>0, <1>1, <1>5 DEF Aside, Restarts, Sorts, Sets, Loses
<1> QED BY <1>2, <1>3, <1>4, <1>5, Steps

\* In the beginning there is nothing.
LEMMA Beginning ==
    ASSUME Init
    PROVE  /\ Clocks /\ ReadRight /\ MembersAreThere /\ NoneSkipped /\ Arrived
           /\ GoneAfterSweep /\ NoHollowEntries /\ NoTwins
<1>1. /\ now = 0 /\ DOMAIN plex = {} /\ DOMAIN catalog.sources = {} /\ DOMAIN catalog.entries = {}
      /\ catalog.last = Never /\ catalog.full = Never
      /\ \A x \in DOMAIN colls : colls[x].members = {}
  BY DEF Init
<1>2. ~Reading
  BY DEF Init, Idle, Reading
<1> QED BY <1>1, <1>2 DEF Clocks, ReadRight, MembersAreThere, NoneSkipped, Arrived, GoneAfterSweep,
                          NoHollowEntries, NoTwins, Never

\* A missing mark is there when it should be: what Plex lost before the last whole pass has no
\* live source of Plex's (catalog/mod.rs:508), and no query draws an entry without a live source
\* (catalog/mod.rs:536).
THEOREM Missing_IsRight == Spec => []MissingIsRight
<1> DEFINE Inv == TypeOK /\ Clocks /\ ReadRight /\ MissingIsRight
<1>1. Init => Inv
  BY TypeInit, Beginning DEF MissingIsRight
<1>2. Inv /\ [Next]_vars => Inv'
  BY TypeStep, ClocksStep, ReadRightStep, GoneStep, HollowStep DEF MissingIsRight
<1>3. Inv => MissingIsRight
  OBVIOUS
<1> HIDE DEF Inv
<1> QED BY <1>1, <1>2, <1>3, PTL DEF Spec

\* One file, one entry: the entry a scan made of a file goes when Plex names the title of the
\* file (plex.rs:336), and no later scan makes another (fs.rs:241).
THEOREM No_Twins == Spec => []NoTwins
<1>1. Init => TypeOK /\ NoTwins
  BY TypeInit, Beginning
<1>2. TypeOK /\ NoTwins /\ [Next]_vars => (TypeOK /\ NoTwins)'
  BY TypeStep, TwinsStep
<1> QED BY <1>1, <1>2, PTL DEF Spec

-----------------------------------------------------------------------------
(* A bad file stays out *)

\* Only the two writes change what is known of files.
LEMMA VerdictsStep ==
    ASSUME TypeOK, NoTwins, Judged(catalog, moved), [Next]_vars
    PROVE  Judged(catalog', moved')
<1>0. CatalogOK(catalog) /\ Twinless(catalog)
  BY DEF TypeOK, NoTwins, Twinless, Claimed
<1>1. ASSUME UNCHANGED <<catalog, moved>> PROVE Judged(catalog', moved')
  BY <1>1
<1>2. CASE UNCHANGED vars
  BY <1>1, <1>2 DEF vars
<1>3. CASE World
  BY <1>1, <1>3 DEF World, Tick, FileWritten, FileGone, PlexLoses, PlexSets, Scraps, Curates, Change
<1>4. ASSUME NEW answered, Walk(answered) PROVE Judged(catalog', moved')
  BY <1>1, <1>4 DEF Walk
<1>5. ASSUME NEW forced, WriteScan(forced) PROVE Judged(catalog', moved')
  <2>1. /\ catalog' = IngestFiles(catalog, pass.files, pass.verdict) /\ pass.files \in SUBSET Paths
        /\ moved' = Unheard(catalog, catalog', pass.verdict, moved)
    BY <1>5, Passes DEF WriteScan, Unheard
  <2> QED BY <1>0, <2>1, ScanIsTaken
<1>6. ASSUME NEW forced, FailScan(forced) PROVE Judged(catalog', moved')
  BY <1>1, <1>6 DEF FailScan
<1>7. CASE FetchPage
  BY <1>1, <1>7, PageFetched
<1>8. CASE Write
  <2> DEFINE full == pass.since = Never
             fetched == CollectionsFetched(pass.since)
  <2>1. /\ catalog' = WritePass(catalog, pass.items, fetched, full, pass.started)
        /\ moved' = moved \cup Fresh(catalog, pass.items)
        /\ pass.items \in Seq(Read) /\ pass.started \in Nat /\ full \in BOOLEAN
    BY <1>8, Passes DEF Write, Reading
  <2>2. Judged(catalog, moved')
    BY <2>1 DEF Judged
  <2>3. Fresh(catalog, pass.items) \subseteq moved'
    BY <2>1
  <2> HIDE DEF full, fetched
  <2> QED BY <1>0, <2>1, <2>2, <2>3, PassIsTaken
<1>9. CASE Abandon
  BY <1>1, <1>9 DEF Abandon
<1> QED BY <1>2, <1>3, <1>4, <1>5, <1>6, <1>7, <1>8, <1>9 DEF Next, Pass

\* Of an entry that a query draws a source is played that can be, as far as is known.
LEMMA SourcePlayed ==
    ASSUME NEW c, CatalogOK(c), Hollowless(c), NEW e \in Drawn(c)
    PROVE  LET k == PlaybackSource(c, e)
           IN k \in DOMAIN c.sources /\ c.sources[k].entry = e /\ ~c.sources[k].unairable
<1> DEFINE rows == {k \in DOMAIN c.sources : c.sources[k].entry = e}
           local == {k \in rows : k[1] = "local_fs"}
           live == {k \in rows : ~c.sources[k].missing}
           airable == {k \in live : ~c.sources[k].unairable}
           choices == <<local \cap airable, airable, local \cap live, live, local, rows>>
           n == CHOOSE i \in 1..6 : choices[i] # {} /\ \A j \in 1 .. i - 1 : choices[j] = {}
           best == choices[n]
<1>1. PlaybackSource(c, e) = CHOOSE k \in best : \A j \in best : ~Before(j, k)
  BY DEF PlaybackSource
<1>2. airable # {}
  BY DEF Drawn, Hollowless, Live
<1>3. choices[1] = local \cap airable /\ choices[2] = airable
  OBVIOUS
<1>4. airable \subseteq rows /\ rows \subseteq Sources /\ \A k \in airable : ~c.sources[k].unairable
  BY DEF CatalogOK
<1> HIDE DEF choices, airable, local, live
<1>5. n \in {1, 2} /\ choices[n] # {}
  <2>1. CASE choices[1] # {}
    <3>1. n \in 1..6 /\ choices[n] # {} /\ \A j \in 1 .. n - 1 : choices[j] = {}
      <4>1. 1 \in 1..6 /\ choices[1] # {} /\ \A j \in 1 .. 1 - 1 : choices[j] = {}
        BY <2>1
      <4> QED BY <4>1
    <3> HIDE DEF n
    <3>2. ~(1 \in 1 .. n - 1)
      BY <2>1, <3>1
    <3> QED BY <3>1, <3>2
  <2>2. CASE choices[1] = {}
    <3>1. n \in 1..6 /\ choices[n] # {} /\ \A j \in 1 .. n - 1 : choices[j] = {}
      <4>1. 2 \in 1..6 /\ choices[2] # {} /\ \A j \in 1 .. 2 - 1 : choices[j] = {}
        BY <1>2, <1>3, <2>2
      <4> QED BY <4>1
    <3> HIDE DEF n
    <3>2. ~(2 \in 1 .. n - 1)
      BY <1>2, <1>3, <3>1
    <3> QED BY <3>1, <3>2
  <2> QED BY <2>1, <2>2
<1> HIDE DEF n
<1>6. best \subseteq airable /\ best # {}
  BY <1>3, <1>5
<1> HIDE DEF best
<1>7. PlaybackSource(c, e) \in best
  <2>1. best \subseteq Sources
    BY <1>4, <1>6
  <2>2. \E k \in best : \A j \in best : ~Before(j, k)
    BY <1>6, <2>1, FirstAndLast
  <2> QED BY <1>1, <2>2
<1>8. PlaybackSource(c, e) \in rows /\ ~c.sources[PlaybackSource(c, e)].unairable
  BY <1>4, <1>6, <1>7
<1> QED BY <1>8

\* A file a scan found unfit is played under no name (fs.rs:189): every row that names it on
\* its entry knows it, as long as it has had a verdict, and no row that knows it is chosen
\* (resolve.rs:2411) where a query lets the entry through (catalog/mod.rs:1740).
THEOREM BadFile_StaysOut == Spec => []BadFileStaysOut
<1> DEFINE Inv == TypeOK /\ NoTwins /\ NoHollowEntries /\ Judged(catalog, moved)
<1>1. Init => Inv
  <2>1. Init => Judged(catalog, moved)
    BY DEF Init, Judged
  <2> QED BY <2>1, TypeInit, Beginning
<1>2. Inv /\ [Next]_vars => Inv'
  BY TypeStep, TwinsStep, HollowStep, VerdictsStep
<1>3. Inv => BadFileStaysOut
  <2> SUFFICES ASSUME Inv, NEW e \in Drawn(catalog) ,
                      PlaybackSource(catalog, e) \notin moved,
                      Fs(catalog.sources[PlaybackSource(catalog, e)].path) \in DOMAIN catalog.sources,
                      catalog.sources[Fs(catalog.sources[PlaybackSource(catalog, e)].path)].entry = e
               PROVE  ~catalog.sources[Fs(catalog.sources[PlaybackSource(catalog, e)].path)].unairable
    BY DEF BadFileStaysOut
  <2> DEFINE k == PlaybackSource(catalog, e)
             p == catalog.sources[k].path
  <2>1. CatalogOK(catalog) /\ Hollowless(catalog)
    BY DEF TypeOK, NoHollowEntries, Hollowless
  <2>2. k \in DOMAIN catalog.sources /\ catalog.sources[k].entry = e /\ ~catalog.sources[k].unairable
    BY <2>1, SourcePlayed
  <2> HIDE DEF k
  <2>3. CASE k[1] = "plex"
    BY <2>2, <2>3 DEF Judged, k
  <2>4. CASE k[1] = "local_fs"
    <3>1. PICK q \in Paths : k = Fs(q)
      BY <2>1, <2>2, <2>4, KindsOfSources DEF CatalogOK
    <3>2. p = q
      BY <2>1, <2>2, <3>1 DEF CatalogOK
    <3> QED BY <2>2, <3>1, <3>2 DEF k
  <2> QED BY <2>1, <2>2, <2>3, <2>4, KindsOfSources DEF CatalogOK
<1> HIDE DEF Inv
<1> QED BY <1>1, <1>2, <1>3, PTL DEF Spec

-----------------------------------------------------------------------------
(* Nothing is lost *)

LEMMA ArrivedStep ==
    ASSUME TypeOK, Clocks, NoneSkipped, Arrived, [Next]_vars
    PROVE  Arrived'
<1>0. /\ now \in Nat /\ catalog.last \in Nat \cup {Never} /\ catalog.last =< now
      /\ \A rk \in DOMAIN plex : rk \in RatingKeys /\ plex[rk].added \in Nat
  BY DEF TypeOK, CatalogOK, Clocks, Films
<1> USE DEF Arrived
<1>1. CASE Aside \/ Restarts \/ Sorts
  BY <1>1 DEF Aside, Restarts, Sorts
<1>2. CASE FetchPage
  BY <1>2, PageFetched DEF world
<1>3. CASE Plans
  BY <1>3 DEF Plans, ScanTakes
<1>4. CASE Writes
  <2> SUFFICES ASSUME NEW rk \in DOMAIN plex, plex[rk].added < catalog'.last PROVE Px(rk) \in DOMAIN catalog'.sources
    BY <1>4 DEF Writes
  <2>1. /\ catalog'.last = pass.started
        /\ DOMAIN catalog'.sources = DOMAIN catalog.sources \cup {Px(pass.items[i].rk) : i \in 1 .. Len(pass.items)}
    BY <1>4 DEF Writes, PassTakes
  <2>2. CASE plex[rk].added < catalog.last
    BY <2>1, <2>2
  <2>3. CASE ~(plex[rk].added < catalog.last)
    <3>1. Due(rk)
      BY <1>0, <1>4, <2>1, <2>3, Written DEF Due, Never
    <3>2. PICK i \in 1 .. Len(pass.items) : pass.items[i].rk = rk
      BY <1>4, <3>1 DEF NoneSkipped, Writes
    <3> QED BY <2>1, <3>2
  <2> QED BY <2>2, <2>3
<1>5. ASSUME NEW rk \in RatingKeys, Sets(rk) PROVE Arrived'
  <2>1. /\ DOMAIN plex' = DOMAIN plex \cup {rk} /\ catalog' = catalog
        /\ plex'[rk].added = IF rk \in DOMAIN plex THEN plex[rk].added ELSE now
        /\ \A r \in DOMAIN plex : r # rk => plex'[r] = plex[r]
    BY <1>5 DEF Sets
  <2>2. ~(now < catalog.last)
    BY <1>0 DEF Never
  <2> QED BY <2>1, <2>2
<1>6. ASSUME NEW rk \in RatingKeys, Loses(rk) PROVE Arrived'
  BY <1>6 DEF Loses
<1> QED BY <1>1, <1>2, <1>3, <1>4, <1>5, <1>6, Steps

\* Members arrive after the items of a pass were read; those the pass did not read were known before.
LEMMA CollectionsStep ==
    ASSUME TypeOK, Clocks, MembersAreThere, Arrived, CollectionsFollow, [Next]_vars
    PROVE  CollectionsFollow'
<1>0. /\ now \in Nat /\ catalog.last \in Nat \cup {Never} /\ catalog.last =< now
      /\ \A rk \in DOMAIN plex : rk \in RatingKeys /\ plex[rk].added \in Nat
      /\ \A x \in DOMAIN colls : colls[x].changed \in Nat /\ colls[x].members \subseteq RatingKeys
  BY DEF TypeOK, CatalogOK, Clocks, Films
<1> USE DEF CollectionsFollow
<1>1. CASE Aside \/ Restarts
  BY <1>1 DEF Aside, Restarts
<1>2. CASE FetchPage
  BY <1>2, PageFetched DEF world
<1>3. CASE Plans
  <2>1. CASE catalog' = catalog
    BY <1>3, <2>1 DEF Plans
  <2>2. ASSUME NEW files \in SUBSET Paths, ScanTakes(catalog, catalog', files) PROVE CollectionsFollow'
    <3>1. \A rk : Px(rk) \in DOMAIN catalog'.sources =>
            Px(rk) \in DOMAIN catalog.sources /\ catalog'.sources[Px(rk)].entry = catalog.sources[Px(rk)].entry
      BY <2>2, Keys DEF ScanTakes
    <3>2. catalog'.last = catalog.last /\ catalog'.colls = catalog.colls /\ colls' = colls
      BY <1>3, <2>2 DEF ScanTakes, Plans
    <3> QED BY <3>1, <3>2
  <2> QED BY <1>3, <2>1, <2>2 DEF Plans
<1>4. CASE Writes
  <2> SUFFICES ASSUME NEW x \in DOMAIN colls, colls[x].changed < catalog'.last
               PROVE  /\ x \in DOMAIN catalog'.colls
                      /\ \A rk \in colls[x].members : Px(rk) \in DOMAIN catalog'.sources =>
                           catalog'.sources[Px(rk)].entry \in catalog'.colls[x]
    BY <1>4 DEF Writes
  <2> DEFINE fetched == CollectionsFetched(pass.since)
  <2>1. PICK full \in BOOLEAN : /\ full = (pass.since = Never)
                                /\ PassTakes(catalog, catalog', pass.items, fetched, full, pass.started)
    BY <1>4 DEF Writes
  <2>2. /\ DOMAIN catalog'.colls = DOMAIN fetched \cup (IF full THEN {} ELSE DOMAIN catalog.colls)
        /\ \A y \in DOMAIN fetched : \A rk \in fetched[y] :
             Px(rk) \in DOMAIN catalog'.sources => catalog'.sources[Px(rk)].entry \in catalog'.colls[y]
        /\ \A y \in DOMAIN catalog'.colls : y \notin DOMAIN fetched =>
             \A e \in catalog.colls[y] : Claimed(catalog, e) => e \in catalog'.colls[y]
        /\ \A k \in DOMAIN catalog.sources : k[1] = "plex" => catalog'.sources[k].entry = catalog.sources[k].entry
    BY <2>1 DEF PassTakes
  <2>3. CASE x \in DOMAIN fetched
    <3>1. fetched[x] = colls[x].members
      BY <2>3 DEF CollectionsFetched
    <3> QED BY <2>2, <2>3, <3>1
  <2>4. CASE x \notin DOMAIN fetched
    <3>1. ~full /\ colls[x].changed < catalog.last
      <4>1. pass.since # Never /\ ~(colls[x].changed >= pass.since)
        BY <2>4 DEF CollectionsFetched
      <4>2. pass.since = catalog.last
        BY <1>4, <4>1, Written
      <4>3. ~full
        BY <2>1, <4>1
      <4>4. colls[x].changed \in Nat
        BY <1>0
      <4>5. colls[x].changed < catalog.last
        BY <1>0, <4>1, <4>2, <4>4 DEF Never
      <4> QED BY <4>3, <4>5
    <3>2. x \in DOMAIN catalog.colls /\ \A rk \in colls[x].members :
            Px(rk) \in DOMAIN catalog.sources => catalog.sources[Px(rk)].entry \in catalog.colls[x]
      BY <3>1
    <3>3. ASSUME NEW rk \in colls[x].members PROVE catalog'.sources[Px(rk)].entry \in catalog'.colls[x]
      <4>1. rk \in DOMAIN plex /\ plex[rk].added =< colls[x].changed
        BY <3>3 DEF MembersAreThere
      <4>2. plex[rk].added < catalog.last
        BY <1>0, <3>1, <4>1 DEF Never
      <4>3. Px(rk) \in DOMAIN catalog.sources /\ Px(rk)[1] = "plex"
        BY <4>1, <4>2, Keys DEF Arrived
      <4>4. /\ catalog.sources[Px(rk)].entry \in catalog.colls[x] /\ Claimed(catalog, catalog.sources[Px(rk)].entry)
            /\ catalog'.sources[Px(rk)].entry = catalog.sources[Px(rk)].entry
        BY <2>2, <3>2, <4>3 DEF Claimed
      <4> QED BY <2>2, <2>4, <3>1, <3>2, <4>4
    <3> QED BY <2>2, <3>1, <3>2, <3>3
  <2> QED BY <2>3, <2>4
<1>5. CASE Sorts
  <2>1. ~(now < catalog.last)
    BY <1>0 DEF Never
  <2> QED BY <1>5, <2>1 DEF Sorts
<1>6. ASSUME NEW rk \in RatingKeys, Sets(rk) PROVE CollectionsFollow'
  BY <1>6 DEF Sets
<1>7. ASSUME NEW rk \in RatingKeys, Loses(rk) PROVE CollectionsFollow'
  BY <1>7 DEF Loses
<1> QED BY <1>1, <1>2, <1>3, <1>4, <1>5, <1>6, <1>7, Steps

\* An item whose last change the last passes have promised to have seen.
Promised(rk) ==
    \/ plex[rk].changed < catalog.full
    \/ plex[rk].changed < catalog.last /\ (rk \in Dated \/ plex[rk].added = plex[rk].changed)
ItemsFollow == \A rk \in DOMAIN plex : Promised(rk) => UpToDate(rk)

LEMMA ItemsStep ==
    ASSUME TypeOK, TypeOK', Clocks, ReadRight, NoneSkipped, ItemsFollow, [Next]_vars
    PROVE  ItemsFollow'
<1>0. /\ now \in Nat /\ catalog.last \in Nat \cup {Never} /\ catalog.last =< now
      /\ catalog.full \in Nat \cup {Never} /\ catalog.full =< catalog.last
      /\ \A rk \in DOMAIN plex : /\ rk \in RatingKeys /\ plex[rk].added \in Nat /\ plex[rk].changed \in Nat
                                 /\ plex[rk].added =< plex[rk].changed
  BY DEF TypeOK, CatalogOK, Clocks, Films
<1> USE DEF ItemsFollow
<1>1. CASE Aside \/ Restarts \/ Sorts
  BY <1>1 DEF Aside, Restarts, Sorts, Promised, UpToDate
<1>2. CASE FetchPage
  BY <1>2, PageFetched DEF world, Promised, UpToDate
<1>3. CASE Plans
  <2>1. CASE catalog' = catalog
    BY <1>3, <2>1 DEF Plans, Promised, UpToDate
  <2>2. ASSUME NEW files \in SUBSET Paths, ScanTakes(catalog, catalog', files), NEW rk \in DOMAIN plex, UpToDate(rk)
        PROVE  UpToDate(rk)'
    <3>1. /\ Px(rk) \in DOMAIN catalog.sources /\ Px(rk)[1] = "plex"
          /\ catalog.sources[Px(rk)].path = plex[rk].path /\ ~catalog.sources[Px(rk)].missing
          /\ ~catalog.entries[catalog.sources[Px(rk)].entry].missing
          /\ plex[rk].guid # NoGuid => plex[rk].guid \in DOMAIN catalog.ids
      BY <2>2, Keys DEF UpToDate
    <3>2. /\ Px(rk) \in DOMAIN catalog'.sources
          /\ catalog'.sources[Px(rk)].entry = catalog.sources[Px(rk)].entry
          /\ catalog'.sources[Px(rk)].path = catalog.sources[Px(rk)].path
          /\ catalog'.sources[Px(rk)].missing = catalog.sources[Px(rk)].missing
          /\ ~catalog'.entries[catalog.sources[Px(rk)].entry].missing
          /\ catalog'.ids = catalog.ids
      BY <2>2, <3>1 DEF ScanTakes
    <3>3. plex' = plex
      BY <1>3 DEF Plans
    <3> QED BY <3>1, <3>2, <3>3 DEF UpToDate
  <2>3. ASSUME NEW files \in SUBSET Paths, ScanTakes(catalog, catalog', files) PROVE ItemsFollow'
    <3>1. catalog'.last = catalog.last /\ catalog'.full = catalog.full /\ plex' = plex
      BY <1>3, <2>3 DEF ScanTakes, Plans
    <3>2. \A rk \in DOMAIN plex : Promised(rk)' => Promised(rk)
      BY <3>1 DEF Promised
    <3> QED BY <2>2, <2>3, <3>1, <3>2
  <2> QED BY <1>3, <2>1, <2>3 DEF Plans
<1>4. CASE Writes
  <2> DEFINE read == {Px(pass.items[i].rk) : i \in 1 .. Len(pass.items)}
  <2>1. PICK full \in BOOLEAN :
          /\ full = (pass.since = Never)
          /\ PassTakes(catalog, catalog', pass.items, CollectionsFetched(pass.since), full, pass.started)
    BY <1>4 DEF Writes
  <2>2. /\ catalog'.last = pass.started /\ catalog'.full = IF full THEN pass.started ELSE catalog.full
        /\ DOMAIN catalog'.sources = DOMAIN catalog.sources \cup read
        /\ \A k \in DOMAIN catalog.sources : k[1] = "plex" => catalog'.sources[k].entry = catalog.sources[k].entry
        /\ \A k \in DOMAIN catalog.sources : k[1] = "plex" /\ k \notin read =>
             /\ catalog'.sources[k].path = catalog.sources[k].path
             /\ catalog'.sources[k].missing = (catalog.sources[k].missing \/ full)
             /\ ~catalog'.sources[k].missing /\ ~catalog.entries[catalog.sources[k].entry].missing
                  => ~catalog'.entries[catalog.sources[k].entry].missing
        /\ \A k \in read :
             /\ ~catalog'.sources[k].missing /\ ~catalog'.entries[catalog'.sources[k].entry].missing
             /\ \E i \in 1 .. Len(pass.items) : k = Px(pass.items[i].rk)
                                                /\ catalog'.sources[k].path = pass.items[i].path
        /\ DOMAIN catalog.ids \subseteq DOMAIN catalog'.ids
        /\ \A i \in 1 .. Len(pass.items) :
             pass.items[i].guid # NoGuid => pass.items[i].guid \in DOMAIN catalog'.ids
    BY <2>1 DEF PassTakes
  <2>3. plex' = plex /\ Reading /\ pass.phase = "collections"
    BY <1>4 DEF Writes
  <2> SUFFICES ASSUME NEW rk \in DOMAIN plex, Promised(rk)' PROVE UpToDate(rk)'
    BY <2>3
  <2>4. /\ pass.started \in Nat /\ catalog.last =< pass.started /\ pass.since \in {Never, catalog.last}
    BY <1>4, Written
  <2>5. plex[rk].changed < pass.started /\ Px(rk)[1] = "plex"
    BY <1>0, <2>2, <2>3, <2>4, Keys DEF Promised, Never
  <2>6. CASE Px(rk) \in read
    <3>1. PICK i \in 1 .. Len(pass.items) : Px(rk) = Px(pass.items[i].rk)
                                            /\ catalog'.sources[Px(rk)].path = pass.items[i].path
      BY <2>2, <2>6
    <3>2. pass.items[i].rk = rk
      BY <3>1, Keys
    <3>3. pass.items[i].path = plex[rk].path /\ pass.items[i].guid = plex[rk].guid
      BY <2>3, <2>5, <3>2 DEF ReadRight
    <3> HIDE DEF read
    <3> QED BY <2>2, <2>3, <2>6, <3>1, <3>3 DEF UpToDate
  <2>7. CASE Px(rk) \notin read
    <3>1. ~Due(rk)
      <4>1. ASSUME NEW i \in 1 .. Len(pass.items) PROVE pass.items[i].rk # rk
        BY <2>7
      <4> QED BY <2>3, <4>1 DEF NoneSkipped
    <3>2. ~full /\ pass.since = catalog.last
      <4>1. plex[rk].added < pass.started
        BY <1>0, <2>4, <2>5
      <4>2. pass.since # Never
        BY <3>1, <4>1 DEF Due
      <4> QED BY <2>1, <2>4, <4>2
    <3>3. Promised(rk)
      <4>1. plex[rk].changed < catalog.full \/ rk \in Dated \/ plex[rk].added = plex[rk].changed
        BY <2>2, <2>3, <3>2 DEF Promised
      <4>2. CASE plex[rk].changed < catalog.last
        BY <4>1, <4>2 DEF Promised
      <4>3. CASE ~(plex[rk].changed < catalog.last)
        <5>1. plex[rk].changed >= pass.since
          BY <1>0, <3>2, <4>3 DEF Never
        <5> QED BY <1>0, <2>5, <3>1, <4>1, <4>3, <5>1 DEF Due, Updated, Promised, Never
      <4> QED BY <4>2, <4>3
    <3>4. /\ Px(rk) \in DOMAIN catalog.sources /\ catalog.sources[Px(rk)].path = plex[rk].path
          /\ ~catalog.sources[Px(rk)].missing
          /\ ~catalog.entries[catalog.sources[Px(rk)].entry].missing
          /\ plex[rk].guid # NoGuid => plex[rk].guid \in DOMAIN catalog.ids
      BY <3>3 DEF UpToDate
    <3> HIDE DEF read
    <3> QED BY <2>2, <2>3, <2>5, <2>7, <3>2, <3>4 DEF UpToDate
  <2> QED BY <2>6, <2>7
<1>5. ASSUME NEW rk \in RatingKeys, Sets(rk) PROVE ItemsFollow'
  <2>1. /\ DOMAIN plex' = DOMAIN plex \cup {rk} /\ catalog' = catalog /\ plex'[rk].changed = now
        /\ \A r \in DOMAIN plex : r # rk => plex'[r] = plex[r]
    BY <1>5 DEF Sets
  <2>2. ~Promised(rk)'
    BY <1>0, <2>1 DEF Promised, Never
  <2>3. ASSUME NEW r \in DOMAIN plex, r # rk PROVE Promised(r)' => UpToDate(r)'
    <3>1. plex'[r] = plex[r]
      BY <2>1, <2>3
    <3>2. Promised(r)' => Promised(r)
      BY <2>1, <3>1 DEF Promised
    <3>3. UpToDate(r) => UpToDate(r)'
      BY <2>1, <3>1 DEF UpToDate
    <3> QED BY <3>2, <3>3
  <2> QED BY <2>1, <2>2, <2>3
<1>6. ASSUME NEW rk \in RatingKeys, Loses(rk) PROVE ItemsFollow'
  <2>1. /\ DOMAIN plex' = DOMAIN plex \ {rk} /\ catalog' = catalog
        /\ \A r \in DOMAIN plex' : plex'[r] = plex[r]
    BY <1>6 DEF Loses
  <2>2. ASSUME NEW r \in DOMAIN plex' PROVE Promised(r)' => UpToDate(r)'
    <3>1. plex'[r] = plex[r] /\ r \in DOMAIN plex
      BY <2>1, <2>2
    <3>2. Promised(r)' => Promised(r)
      BY <2>1, <3>1 DEF Promised
    <3>3. UpToDate(r) => UpToDate(r)'
      BY <2>1, <3>1 DEF UpToDate
    <3> QED BY <3>1, <3>2, <3>3
  <2> QED BY <2>2
<1> QED BY <1>1, <1>2, <1>3, <1>4, <1>5, <1>6, Steps

\* Whatever Plex changed before the last pass began to read is in the catalog, live, an item as
\* well as a collection (plex.rs:722, :1356), as long as Plex loses nothing while its pages are
\* read: a loss moves the items behind it up a page, and one of them is stepped over (plex.rs:1310).
THEOREM Nothing_Lost == ASSUME ~Shrinks PROVE Spec => []NothingLost
<1> DEFINE Inv == /\ TypeOK /\ Clocks /\ ReadRight /\ NoneSkipped /\ MembersAreThere /\ Arrived
                  /\ CollectionsFollow /\ ItemsFollow
<1>1. Init => Inv
  <2>1. Init => CollectionsFollow /\ ItemsFollow
    <3>1. ASSUME Init PROVE /\ DOMAIN plex = {} /\ catalog.last = Never /\ catalog.full = Never
                            /\ \A x \in DOMAIN colls : colls[x].changed = 0
      BY <3>1 DEF Init
    <3> QED BY <3>1 DEF CollectionsFollow, ItemsFollow, Never
  <2> QED BY <2>1, TypeInit, Beginning
<1>2. Inv /\ [Next]_vars => Inv'
  BY TypeStep, ClocksStep, ReadRightStep, NoneSkippedStep, MembersStep, ArrivedStep, CollectionsStep, ItemsStep
<1>3. Inv => NothingLost
  BY DEF NothingLost, ItemsFollow, Promised
<1> HIDE DEF Inv
<1> QED BY <1>1, <1>2, <1>3, PTL DEF Spec

=============================================================================
