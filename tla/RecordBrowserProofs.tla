-------------------------- MODULE RecordBrowserProofs --------------------------
(***************************************************************************)
(* The properties of RecordBrowser for every set of records, tables,       *)
(* catalogs, objects and requests, and any number of changes.              *)
(***************************************************************************)
EXTENDS RecordBrowser, FiniteSetTheorems, TLAPS

-------------------------------------------------------------------------------
(* What the statements of get_table_progress count *)

\* The stages of the funnel of one table account for its records.
LEMMA FunnelSound ==
    ASSUME DataFits, NEW t \in Tables
    PROVE  Sound(Funnel(t)) /\ Funnel(t).total = RecordsOf(t) /\ RecordsOf(t) \subseteq registered
  <1> DEFINE rs == RecordsOf(t)
  <1>1. rs \subseteq registered /\ rs \subseteq Records
    BY DEF RecordsOf, DataFits, DataTyped
  <1>2. Untouched \in [Catalogs -> CatalogCounts]
    BY DEF Untouched, CatalogCounts
  <1>3. \A c \in Catalogs : Untouched[c].in_layer2 = {} /\ Untouched[c].layer2_pending = {}
    BY DEF Untouched
  <1>4. \A r \in rs : crossmatch[r] = None \/ crossmatch[r].triage \in Triage
    BY <1>1 DEF DataFits, DataTyped, Results
  <1>5. \A r \in rs : pgc[r] # None => crossmatch[r] # None
    BY <1>1 DEF DataFits, NumbersFollow
  <1>6. Funnel(t) \in Counts
    BY <1>1, <1>2 DEF Funnel, Counts
  <1>7. Accounts(Funnel(t))
    BY <1>1, <1>3, <1>4, <1>5 DEF Funnel, Accounts, Triage
  <1>8. Funnel(t).total = rs
    BY DEF Funnel
  <1> QED BY <1>1, <1>6, <1>7, <1>8 DEF Sound

\* A catalog counts records it has among those of the table.
LEMMA CatalogSound ==
    ASSUME DataFits, NEW t \in Tables, NEW c \in Catalogs PROVE CatalogAccounts(CatalogProgress(c, t))
  BY DEF DataFits, DataTyped, RecordsOf, CatalogProgress, CatalogAccounts, CatalogCounts

\* Each group is the row of a table of that name, and each table has its group.
LEMMA GroupsOfTables ==
    ASSUME DataFits, NEW v, DOMAIN v \subseteq Tables, \A t \in DOMAIN v : name[t] # None
    PROVE  /\ DOMAIN Grouped(v) = {name[t] : t \in DOMAIN v}
           /\ \A n \in DOMAIN Grouped(v) : \E t \in DOMAIN v : name[t] = n /\ Grouped(v)[n] = v[t]
           /\ \A t \in DOMAIN v : Grouped(v)[name[t]] = v[t]
  <1> DEFINE S == DOMAIN v  g == Grouped(v)
  <1>2. g = [n \in {name[t] : t \in S} |-> v[CHOOSE t \in S : name[t] = n]]
    BY DEF Grouped
  <1>3. \A t \in S : (CHOOSE u \in S : name[u] = name[t]) = t
    BY DEF DataFits, NamesApart
  <1> HIDE DEF g
  <1>4. DOMAIN g = {name[t] : t \in S}
    BY <1>2
  <1>5. \A t \in S : g[name[t]] = v[t]
    BY <1>2, <1>3
  <1>6. \A n \in DOMAIN g : \E t \in S : name[t] = n /\ g[n] = v[t]
    BY <1>4, <1>5
  <1> QED BY <1>4, <1>5, <1>6 DEF g

\* The rows of the funnel, and of a catalog, for the tables that have one of some names.
FunnelRows(N) == [t \in {u \in {w \in Tables : name[w] \in N} : RecordsOf(u) # {}} |-> Funnel(t)]
CatalogRows(c, N) ==
    [t \in {u \in {w \in Tables : name[w] \in N} : RecordsOf(u) \cap layer1[c] # {}} |-> CatalogProgress(c, t)]

\* The groups of the funnel are sound, and together they have every record.
LEMMA FunnelGroups ==
    ASSUME DataFits, NEW N \in SUBSET Names
    PROVE  LET g == Grouped(FunnelRows(N)) IN
           /\ DOMAIN g \subseteq Names
           /\ \A n \in DOMAIN g : Sound(g[n]) /\ g[n].total \subseteq registered
           /\ N = Names => registered \subseteq CountedIn(g)
  <1> DEFINE g == Grouped(FunnelRows(N))  S == DOMAIN FunnelRows(N)
  <1>1. S \subseteq Tables /\ \A t \in S : FunnelRows(N)[t] = Funnel(t) /\ name[t] \in Names
    BY DEF FunnelRows
  <1>2. \A t \in S : name[t] # None
    BY <1>1, NoneIsApart
  <1>3. /\ DOMAIN g = {name[t] : t \in S}
        /\ \A n \in DOMAIN g : \E t \in S : name[t] = n /\ g[n] = FunnelRows(N)[t]
        /\ \A t \in S : g[name[t]] = FunnelRows(N)[t]
    BY <1>1, <1>2, GroupsOfTables
  <1>4. N = Names => \A r \in registered : Home[r] \in S
    BY RecordsAreNumbers DEF FunnelRows, DataFits, DataTyped, RecordsNamed, RecordsOf
  <1> HIDE DEF S, g
  <1>5. DOMAIN g \subseteq Names
    BY <1>1, <1>3
  <1>6. \A n \in DOMAIN g : Sound(g[n]) /\ g[n].total \subseteq registered
    <2> SUFFICES ASSUME NEW n \in DOMAIN g PROVE Sound(g[n]) /\ g[n].total \subseteq registered
      OBVIOUS
    <2>1. PICK t \in S : g[n] = Funnel(t)
      BY <1>1, <1>3
    <2>2. Sound(Funnel(t)) /\ Funnel(t).total \subseteq registered
      BY <1>1, <2>1, FunnelSound
    <2> QED BY <2>1, <2>2
  <1>7. ASSUME N = Names, NEW r \in registered PROVE \E n \in DOMAIN g : r \in g[n].total
    <2>1. Home[r] \in S
      BY <1>4, <1>7
    <2>2. r \in Funnel(Home[r]).total
      BY <1>1, <2>1, FunnelSound DEF RecordsOf
    <2> QED BY <1>1, <1>3, <2>1, <2>2
  <1>8. N = Names => registered \subseteq CountedIn(g)
    BY <1>7 DEF CountedIn
  <1> QED BY <1>5, <1>6, <1>8 DEF g

\* So are the groups of a catalog.
LEMMA CatalogGroups ==
    ASSUME DataFits, NEW N \in SUBSET Names, NEW c \in Catalogs
    PROVE  LET g == Grouped(CatalogRows(c, N)) IN
           DOMAIN g \subseteq Names /\ \A n \in DOMAIN g : CatalogAccounts(g[n])
  <1> DEFINE v == CatalogRows(c, N)  g == Grouped(v)
  <1>1. DOMAIN v \subseteq Tables /\ \A t \in DOMAIN v : v[t] = CatalogProgress(c, t) /\ name[t] \in Names
    BY DEF CatalogRows
  <1>2. \A t \in DOMAIN v : name[t] # None
    BY <1>1, NoneIsApart
  <1> HIDE DEF v
  <1>3. /\ DOMAIN g = {name[t] : t \in DOMAIN v}
        /\ \A n \in DOMAIN g : \E t \in DOMAIN v : g[n] = v[t]
    BY <1>1, <1>2, GroupsOfTables
  <1> HIDE DEF g
  <1>4. DOMAIN g \subseteq Names /\ \A n \in DOMAIN g : CatalogAccounts(g[n])
    BY <1>1, <1>3, CatalogSound
  <1> QED BY <1>4 DEF g, v

\* Nothing is counted of a table without rows.
LEMMA NothingSound == Sound(Nothing) /\ Nothing.total = {} /\ \A c \in Catalogs : CatalogAccounts(Untouched[c])
  <1>1. \A c \in Catalogs : CatalogAccounts(Untouched[c])
    BY DEF Untouched, CatalogAccounts, CatalogCounts
  <1>2. Untouched \in [Catalogs -> CatalogCounts]
    BY DEF Untouched, CatalogCounts
  <1>3. \A c \in Catalogs : Untouched[c].in_layer2 \cup Untouched[c].layer2_pending \subseteq Untouched[c].structured
    BY DEF Untouched
  <1> QED BY <1>1, <1>2, <1>3 DEF Nothing, Sound, Counts, Accounts

\* Sound counts with the progress of the catalogs put in stay sound.
LEMMA WithCatalogs ==
    ASSUME NEW v, Sound(v), NEW q, q = [c \in Catalogs |-> q[c]], \A c \in Catalogs : CatalogAccounts(q[c])
    PROVE  Sound([v EXCEPT !.catalogs = q]) /\ [v EXCEPT !.catalogs = q].total = v.total
  <1>1. q \in [Catalogs -> CatalogCounts]
    BY DEF CatalogAccounts
  <1> QED BY <1>1 DEF Sound, Counts, Accounts, CatalogAccounts

\* What is published or returned counts what its statements counted.
LEMMA MergedSound ==
    ASSUME JobFits, job # NoJob
    PROVE  /\ DOMAIN Merged \subseteq Names
           /\ \A n \in DOMAIN Merged : Sound(Merged[n]) /\ Merged[n].total \subseteq registered
           /\ CountedIn(job.funnel) \subseteq CountedIn(Merged)
  <1> DEFINE names == DOMAIN job.funnel \cup UNION {DOMAIN job.rows[c] : c \in Catalogs}
             Base(n) == IF n \in DOMAIN job.funnel THEN job.funnel[n] ELSE Nothing
             CatalogsOf(n) == [c \in Catalogs |-> IF n \in DOMAIN job.rows[c] THEN job.rows[c][n] ELSE Untouched[c]]
  <1>1. Merged = [n \in names |-> [Base(n) EXCEPT !.catalogs = CatalogsOf(n)]]
    BY DEF Merged
  <1>2. \A n \in names : Sound(Base(n)) /\ Base(n).total \subseteq registered
    BY NothingSound DEF JobFits
  <1>3. \A n \in names : CatalogsOf(n) = [c \in Catalogs |-> CatalogsOf(n)[c]] /\ \A c \in Catalogs : CatalogAccounts(CatalogsOf(n)[c])
    BY NothingSound DEF JobFits
  <1>4. names \subseteq Names /\ DOMAIN job.funnel \subseteq names
    BY DEF JobFits
  <1>5. \A n \in DOMAIN job.funnel : Base(n) = job.funnel[n]
    OBVIOUS
  <1> HIDE DEF names, Base, CatalogsOf
  <1>6. \A n \in names : Sound(Merged[n]) /\ Merged[n].total = Base(n).total
    BY <1>1, <1>2, <1>3, WithCatalogs
  <1> QED BY <1>1, <1>2, <1>4, <1>5, <1>6 DEF CountedIn

-------------------------------------------------------------------------------
(* The first state *)

LEMMA InitSound == ASSUME Init PROVE IInv
  <1>1. DataFits
    BY FirstIsSound, CatalogsAreNamed
       DEF Init, DataFits, DataTyped, NamesApart, RecordsNamed, NumbersFollow
  <1>2. CallFits
    BY DEF Init, CallFits, NoCall, Blank, CallTyped, RowsFit, TableFits, SchemaFits, ProgressFits,
           RecordFits, AskedFor
  <1>3. CountsFit
    <2> DEFINE v == [t \in {u \in Tables : RecordsOf(u) # {}} |-> Whole(t)]
    <2>1. DOMAIN v \subseteq Tables /\ \A t \in DOMAIN v : v[t] = Whole(t) /\ RecordsOf(t) # {}
      OBVIOUS
    <2>2. \A t \in DOMAIN v : name[t] # None /\ name[t] \in Names
      BY <1>1, <2>1 DEF RecordsOf, DataFits, DataTyped, RecordsNamed
    <2>3. \A t \in Tables : Sound(Whole(t)) /\ Whole(t).total \subseteq registered
      <3> SUFFICES ASSUME NEW t \in Tables PROVE Sound(Whole(t)) /\ Whole(t).total \subseteq registered
        OBVIOUS
      <3> DEFINE q == [c \in Catalogs |-> CatalogProgress(c, t)]
      <3>1. q = [c \in Catalogs |-> q[c]] /\ \A c \in Catalogs : CatalogAccounts(q[c])
        BY <1>1, CatalogSound
      <3>2. Sound(Funnel(t)) /\ Funnel(t).total \subseteq registered
        BY <1>1, FunnelSound
      <3> HIDE DEF q
      <3>3. Sound([Funnel(t) EXCEPT !.catalogs = q]) /\ [Funnel(t) EXCEPT !.catalogs = q].total = Funnel(t).total
        BY <3>1, <3>2, WithCatalogs
      <3> QED BY <3>2, <3>3 DEF Whole, q
    <2>4. snapshot = Grouped(v)
      BY DEF Init
    <2> HIDE DEF v
    <2>5. /\ DOMAIN Grouped(v) = {name[t] : t \in DOMAIN v}
          /\ \A n \in DOMAIN Grouped(v) : \E t \in DOMAIN v : Grouped(v)[n] = v[t]
      BY <1>1, <2>1, <2>2, GroupsOfTables
    <2>6. \A n \in DOMAIN Grouped(v) : Sound(Grouped(v)[n]) /\ Grouped(v)[n].total \subseteq registered
      BY <2>1, <2>3, <2>5
    <2>7. DOMAIN Grouped(v) \subseteq Names
      BY <2>2, <2>5
    <2> QED BY <2>4, <2>6, <2>7 DEF CountsFit, JobFits, Init
  <1> QED BY <1>1, <1>2, <1>3 DEF IInv

-------------------------------------------------------------------------------
(* The changes of the database *)

\* One table takes a name nobody has; the request, if there is one, is told.
NameMoves == \E t \in Tables, n \in Names : Free(n) /\ name' = [name EXCEPT ![t] = n] /\ Moved(t, n)

LEMMA NamesKeepData ==
    ASSUME DataFits, NameMoves,
           UNCHANGED <<rawRows, registered, crossmatch, pgc, layer1, layer2, modified>>
    PROVE  DataFits'
  <1>1. PICK t \in Tables, n \in Names : Free(n) /\ name' = [name EXCEPT ![t] = n]
    BY DEF NameMoves
  <1>2. n # None /\ \A u \in Tables : name[u] # n
    BY <1>1, NoneIsApart DEF Free, Owner
  <1>3. name' \in [Tables -> Names \cup {None}]
    BY <1>1 DEF DataFits, DataTyped
  <1>4. \A u \in Tables : name'[u] = IF u = t THEN n ELSE name[u]
    BY <1>1 DEF DataFits, DataTyped
  <1>5. NamesApart'
    BY <1>2, <1>4 DEF DataFits, NamesApart
  <1>6. RecordsNamed'
    BY <1>2, <1>4, RecordsAreNumbers DEF DataFits, DataTyped, RecordsNamed
  <1> QED BY <1>3, <1>5, <1>6 DEF DataFits, DataTyped, NumbersFollow

LEMMA ResultTyped ==
    ASSUME NEW p \in Payloads, NEW r \in PayloadIds(p)
    PROVE  CrossmatchRow(p, r) \in Results
  <1>1. PartOf(p, r) \in Parts /\ r \in DOMAIN p[PartOf(p, r)]
    BY DEF PartOf, PayloadIds, Parts
  <1>2. p[PartOf(p, r)][r] \subseteq Pgcs
    BY <1>1, PayloadsAreTyped DEF Parts
  <1>3. DefaultTriage[PartOf(p, r)] \in Triage
    BY <1>1 DEF DefaultTriage, Parts, Triage
  <1> QED BY <1>2, <1>3, PayloadsAreTyped DEF CrossmatchRow, Results

\* What every change of the database keeps and leaves alone.
LEMMA ChangeKeepsData ==
    ASSUME DataFits, Change
    PROVE  /\ DataFits' /\ registered \subseteq registered' /\ UNCHANGED <<snapshot, job, got>>
           /\ NameMoves \/ UNCHANGED <<call, name>>
  <1> DEFINE Goal == /\ DataFits' /\ registered \subseteq registered' /\ UNCHANGED <<snapshot, job, got>>
                     /\ NameMoves \/ UNCHANGED <<call, name>>
  <1>1. ASSUME NEW t \in Tables, NEW n \in Names, CreateTable(t, n) \/ Rename(t, n) PROVE Goal
    <2>1. NameMoves /\ UNCHANGED <<rawRows, registered, crossmatch, pgc, layer1, layer2, modified>>
      BY <1>1 DEF CreateTable, Rename, NameMoves
    <2> QED BY <1>1, <2>1, NamesKeepData DEF CreateTable, Rename, Edit, cache
  <1>2. ASSUME NEW r \in Records, InsertRawData(r) PROVE Goal
    BY <1>2 DEF InsertRawData, Quietly, Edit, cache, DataFits, DataTyped, NamesApart,
                RecordsNamed, NumbersFollow
  <1>3. ASSUME NEW r \in Records, RegisterRecords(r) PROVE Goal
    BY <1>3 DEF RegisterRecords, Quietly, Edit, cache, DataFits, DataTyped, NamesApart,
                RecordsNamed, NumbersFollow
  <1>4. ASSUME NEW p \in Payloads, SetCrossmatchResults(p) PROVE Goal
    <2>1. crossmatch' \in [Records -> Results \cup {None}]
      BY <1>4, ResultTyped DEF SetCrossmatchResults, DataFits, DataTyped
    <2>2. \A r \in Records : crossmatch[r] # None => crossmatch'[r] # None
      BY <1>4, ResultTyped, NoneIsApart DEF SetCrossmatchResults
    <2> QED BY <1>4, <2>1, <2>2 DEF SetCrossmatchResults, Quietly, Edit, cache, DataFits, DataTyped,
               NamesApart, RecordsNamed, NumbersFollow
  <1>5. ASSUME NEW r \in Records, NEW p \in Pgcs, AssignRecordPgcs(r, p) PROVE Goal
    BY <1>5 DEF AssignRecordPgcs, Touch, Quietly, Edit, cache, DataFits, DataTyped, NamesApart,
                RecordsNamed, NumbersFollow
  <1>6. ASSUME NEW source \in Pgcs, NEW target \in Pgcs, MergePgcs(source, target) PROVE Goal
    <2>1. pgc' \in [Records -> Pgcs \cup {None}] /\ \A r \in Records : pgc'[r] # None => pgc[r] # None
      BY <1>6, NoneIsApart DEF MergePgcs, DataFits, DataTyped
    <2> QED BY <1>6, <2>1 DEF MergePgcs, Touch, Quietly, Edit, cache, DataFits, DataTyped,
                              NamesApart,
                RecordsNamed, NumbersFollow
  <1>7. ASSUME NEW c \in Catalogs, NEW r \in Records, SaveStructuredData(c, r) PROVE Goal
    BY <1>7 DEF SaveStructuredData, Touch, Quietly, Edit, cache, DataFits, DataTyped, NamesApart,
                RecordsNamed, NumbersFollow
  <1>8. ASSUME NEW c \in Shown, Import(c) PROVE Goal
    BY <1>8 DEF Import, Quietly, Edit, cache, DataFits, DataTyped, NamesApart, RecordsNamed,
                NumbersFollow
  <1> QED BY <1>1, <1>2, <1>3, <1>4, <1>5, <1>6, <1>7, <1>8 DEF Change

\* The counts stand while records are only added.
LEMMA CountsStand ==
    ASSUME CountsFit, registered \subseteq registered', UNCHANGED <<snapshot, job>> PROVE CountsFit'
  BY DEF CountsFit, JobFits

\* What a move of other names leaves to a request; a first move of its own takes its table.
LEMMA NamesKeepCall ==
    ASSUME DataFits, CallFits, NameMoves, got' = got, registered \subseteq registered' PROVE CallFits'
  <1>1. PICK t \in Tables, n \in Names : Free(n) /\ name' = [name EXCEPT ![t] = n] /\ Moved(t, n)
    BY DEF NameMoves
  <1>2. n # None /\ \A u \in Tables : name[u] # n
    BY <1>1, NoneIsApart DEF Free, Owner
  <1>3. \A u \in Tables : name'[u] = IF u = t THEN n ELSE name[u]
    BY <1>1 DEF DataFits, DataTyped
  <1>4. /\ call' = [req |-> call'.req, at |-> call'.at, left |-> call'.left, moves |-> call'.moves]
        /\ call'.req = call.req /\ call'.at = call.at /\ call'.left = call.left
        /\ call'.moves \in 0..2 /\ call.moves \in 0..2
        /\ call'.moves < 2 => call'.moves = call.moves \/ (call'.moves = 1 /\ call.moves = 0)
        /\ call.req # None /\ Concerns(t, n) => call'.moves # 0 /\ (call'.moves = 1 => call.moves = 0)
    BY <1>1 DEF Moved, CallFits, CallTyped
  <1>5. AskedFor("table") \/ AskedFor("records") => call.req.name # None
    BY RequestsAreTyped, NoneIsApart DEF CallFits, AskedFor
  <1> DEFINE Named == AskedFor("table") \/ AskedFor("records")
  <1>6. ASSUME Named, NEW u, Still(u), call'.moves < 2 PROVE Still(u)'
    <2>1. CASE Concerns(t, n)
      BY <1>2, <1>3, <1>4, <1>5, <1>6, <2>1 DEF Still, Owner, Found, DataFits, NamesApart, AskedFor
    <2>2. CASE ~Concerns(t, n)
      <3>1. call' = call
        BY <1>1, <2>2 DEF Moved
      <3>2. call.req.name # n /\ name[t] # call.req.name
        BY <1>6, <2>2 DEF Concerns, AskedFor
      <3>3. \A v \in Tables : name'[v] = call.req.name <=> name[v] = call.req.name
        BY <1>3, <3>2
      <3> QED BY <1>6, <3>1, <3>3 DEF Still, Owner, Found
    <2> QED BY <2>1, <2>2
  <1>7. ASSUME Named, Found(call.req.name), call'.moves = 0 PROVE Found(call.req.name)'
    <2>1. call' = call /\ ~Concerns(t, n)
      BY <1>1, <1>4, <1>7 DEF Moved, AskedFor
    <2>2. name[t] # call.req.name
      BY <1>7, <2>1 DEF Concerns, AskedFor
    <2> QED BY <1>3, <1>7, <2>1, <2>2 DEF Found, Owner
  <1>8. RecordFits'
    <2> SUFFICES ASSUME AskedFor("crossmatch") PROVE RecordFits'
      BY <1>4 DEF RecordFits, AskedFor
    <2>1. ASSUME call.at = "raw", call'.moves = 0 PROVE got.table = name'[Home[call.req.record]]
      <3>1. call' = call /\ ~Concerns(t, n)
        BY <1>1, <1>4, <2>1 DEF Moved, AskedFor
      <3>2. Home[call.req.record] # t
        BY <3>1 DEF Concerns, AskedFor
      <3>3. call.req.record \in registered /\ got.table = name[Home[call.req.record]]
        BY <2>1, <3>1 DEF CallFits, RecordFits
      <3>4. Home[call.req.record] \in Tables
        BY <3>3, RecordsAreNumbers DEF DataFits, DataTyped
      <3> QED BY <1>3, <3>2, <3>3, <3>4
    <2> QED BY <1>4, <2>1 DEF CallFits, RecordFits, AskedFor
  <1>9. RowsFit' /\ ProgressFits'
    BY <1>4 DEF CallFits, RowsFit, OfRow, ProgressFits, AskedFor
  <1>10. TableFits'
    BY <1>4, <1>6, <1>7 DEF CallFits, TableFits, AskedFor
  <1>11. SchemaFits'
    BY <1>4, <1>6 DEF CallFits, SchemaFits, AskedFor
  <1> QED BY <1>4, <1>8, <1>9, <1>10, <1>11 DEF CallFits, CallTyped

\* A request stands while no name moves.
LEMMA CallStands ==
    ASSUME CallFits, UNCHANGED <<call, got, name>>, registered \subseteq registered' PROVE CallFits'
  BY DEF CallFits, CallTyped, RowsFit, OfRow, TableFits, SchemaFits, ProgressFits, RecordFits,
         AskedFor,
         Still, Found, Owner

LEMMA ChangeKeeps == ASSUME IInv, Change PROVE IInv'
  BY ChangeKeepsData, CountsStand, NamesKeepCall, CallStands DEF IInv

-------------------------------------------------------------------------------
(* The counting *)

LEMMA DataStands == ASSUME DataFits, UNCHANGED database PROVE DataFits'
  BY DEF DataFits, DataTyped, NamesApart, RecordsNamed, NumbersFollow, database

\* A counting starts with nothing counted.
LEMMA StartFits ==
    ASSUME NEW w \in {"cache", "request"}, NEW N \in SUBSET Names, Start(w, N) PROVE JobFits'
  <1>1. job' = [for |-> w, names |-> N, left |-> Catalogs \cup {"funnel"},
                funnel |-> NoTables, rows |-> [c \in Catalogs |-> NoTables]]
    BY DEF Start
  <1>2. DOMAIN NoTables = {}
    BY DEF NoTables
  <1> QED BY <1>1, <1>2 DEF JobFits

\* What each statement of the counting, its end and its failure do.
LEMMA CountKeeps ==
    ASSUME IInv, Count
    PROVE  IInv'
  <1> USE DEF IInv
  <1>1. CASE ReadFunnel
    <2> DEFINE g == Grouped(FunnelRows(Asked(job)))
    <2>1. UNCHANGED <<database, cache, reader>> /\ "funnel" \in job.left
          /\ job' = [job EXCEPT !.left = @ \ {"funnel"}, !.funnel = g]
      BY <1>1 DEF ReadFunnel, FunnelRows, Counted
    <2>2. job # NoJob
      BY <2>1 DEF NoJob
    <2>3. Asked(job) \subseteq Names /\ (job.for = "cache" => Asked(job) = Names)
      BY <2>2 DEF Asked, CountsFit, JobFits
    <2>4. /\ DOMAIN g \subseteq Names
          /\ \A n \in DOMAIN g : Sound(g[n]) /\ g[n].total \subseteq registered
          /\ job.for = "cache" => registered \subseteq CountedIn(g)
      BY <2>3, FunnelGroups
    <2> HIDE DEF g
    <2>5. CountedIn(snapshot) \subseteq registered
      BY DEF CountsFit, CountedIn
    <2>6. CountsFit'
      BY <2>1, <2>2, <2>4, <2>5 DEF CountsFit, JobFits, cache, database
    <2>7. CallFits'
      BY <2>1, CallStands DEF database, reader
    <2> QED BY <2>1, <2>6, <2>7, DataStands
  <1>2. ASSUME NEW c \in Catalogs, ReadCatalog(c) PROVE IInv'
    <2> DEFINE g == Grouped(CatalogRows(c, Asked(job)))
    <2>1. UNCHANGED <<database, cache, reader>> /\ c \in job.left
          /\ job' = [job EXCEPT !.left = @ \ {c}, !.rows[c] = g]
      BY <1>2 DEF ReadCatalog, CatalogRows, Counted
    <2>2. job # NoJob
      BY <2>1 DEF NoJob
    <2>3. Asked(job) \subseteq Names
      BY <2>2 DEF Asked, CountsFit, JobFits
    <2>4. DOMAIN g \subseteq Names /\ \A n \in DOMAIN g : CatalogAccounts(g[n])
      BY <2>3, CatalogGroups
    <2> HIDE DEF g
    <2>5. CountsFit'
      BY <2>1, <2>2, <2>4, CatalogsAreNamed DEF CountsFit, JobFits, cache, database
    <2>6. CallFits'
      BY <2>1, CallStands DEF database, reader
    <2> QED BY <2>1, <2>5, <2>6, DataStands
  <1>3. CASE StartRefresh
    <2>1. JobFits'
      BY <1>3, StartFits DEF StartRefresh
    <2>2. CountsFit'
      BY <1>3, <2>1 DEF StartRefresh, CountsFit, database
    <2> QED BY <1>3, <2>2, DataStands, CallStands DEF StartRefresh, reader, database
  <1>4. CASE Publish
    <2>1. job # NoJob
      BY <1>4 DEF Publish, Done, NoJob
    <2>2. CountsFit'
      BY <1>4, <2>1, MergedSound DEF Publish, CountsFit, JobFits, database
    <2> QED BY <1>4, <2>2, DataStands, CallStands DEF Publish, reader, database
  <1>5. CASE RefreshFails
    <2>1. CountsFit'
      BY <1>5 DEF RefreshFails, KeptSnapshot, CountsFit, JobFits, database
    <2> QED BY <1>5, <2>1, DataStands, CallStands DEF RefreshFails, reader, database
  <1> QED BY <1>1, <1>2, <1>3, <1>4, <1>5 DEF Count

-------------------------------------------------------------------------------
(* The requests *)

\* A request that reads keeps the database and the counts.
LEMMA ReadKeeps == ASSUME IInv, Only, CallFits' PROVE IInv'
  BY DataStands, CountsStand DEF IInv, Only, database, cache

LEMMA SendKeeps == ASSUME IInv, NEW req \in Requests, Send(req) PROVE IInv'
  <1>1. req # None
    BY NoneIsApart
  <1>2. CallFits'
    BY <1>1 DEF IInv, CallFits, Send, Blank, CallTyped, RowsFit, TableFits, SchemaFits,
                ProgressFits,
           RecordFits, AskedFor
  <1> QED BY <1>2, DataStands, CountsStand DEF IInv, Send, database, cache

LEMMA ReturnKeeps == ASSUME IInv, Return PROVE IInv'
  <1>1. CallFits'
    BY DEF IInv, CallFits, Return, NoCall, Blank, CallTyped, RowsFit, TableFits, SchemaFits,
           ProgressFits,
           RecordFits, AskedFor
  <1> QED BY <1>1, ReadKeeps DEF Return

\* A request that a failed statement ends has read nothing.
LEMMA FailureKeeps == ASSUME IInv, StatementFails PROVE IInv'
  <1> USE DEF IInv, StatementFails
  <1>1. /\ call' = [req |-> call.req, at |-> "lost", left |-> {}, moves |-> call.moves]
        /\ call.moves \in 0..2 /\ call.req \in Requests /\ call.req # None
    BY DEF CallFits, CallTyped
  <1>2. call'.at = "lost" /\ got' = Blank
    BY <1>1
  <1>3. RowsFit' /\ TableFits' /\ SchemaFits' /\ ProgressFits' /\ RecordFits'
    BY <1>2 DEF Blank, RowsFit, TableFits, SchemaFits, ProgressFits, RecordFits
  <1>4. CallFits'
    BY <1>1, <1>2, <1>3 DEF CallFits, CallTyped, Blank
  <1>5. CountsFit'
    BY DEF CountsFit, JobFits, cache, database
  <1> QED BY <1>4, <1>5, DataStands

\* The list of the tables and the tables of the TAP service promise nothing here.
LEMMA ListingKeeps == ASSUME IInv, GetTableList \/ TapTables PROVE IInv'
  <1>1. Only /\ AskedFor(call.req.kind) /\ call.req.kind \in {"list", "tap"}
    BY DEF GetTableList, TapTables, SearchTables, ListProgress, ListTables, ListColumns, At,
           AskedFor
  <1>2. CallFits'
    BY <1>1 DEF IInv, CallFits, GetTableList, TapTables, SearchTables, ListProgress, ListTables,
                ListColumns,
           At, Go, CallTyped, RowsFit, TableFits, SchemaFits, ProgressFits, RecordFits, AskedFor
  <1> QED BY <1>1, <1>2, ReadKeeps

\* The crossmatch result of a record.
LEMMA CrossmatchKeeps == ASSUME IInv, GetRecordCrossmatch PROVE IInv'
  <1>1. Only /\ AskedFor("crossmatch")
    BY DEF GetRecordCrossmatch, GetProcessedRecord, ConvertRecord, ResolveTableName, FetchRawData,
           RawDataFails, QueryCandidates, At, AskedFor
  <1>2. CallFits' /\ RecordFits'
    <2> USE <1>1 DEF IInv, CallFits, At, Go, Fail, Candidates, Blank, CallTyped, RowsFit, TableFits,
            SchemaFits, ProgressFits, RecordFits, AskedFor, Only, database
    <2>1. CASE GetProcessedRecord
      BY <2>1 DEF GetProcessedRecord, Processed
    <2>2. CASE ConvertRecord
      BY <2>2 DEF ConvertRecord
    <2>3. CASE ResolveTableName
      BY <2>3 DEF ResolveTableName
    <2>4. CASE FetchRawData
      BY <2>4 DEF FetchRawData
    <2>5. CASE RawDataFails
      BY <2>5 DEF RawDataFails
    <2>6. CASE QueryCandidates
      BY <2>6 DEF QueryCandidates
    <2> QED BY <2>1, <2>2, <2>3, <2>4, <2>5, <2>6 DEF GetRecordCrossmatch
  <1> QED BY <1>1, <1>2, ReadKeeps

\* The description of a table: what was found before the first move has its name until then.
LEMMA TableKeeps == ASSUME IInv, GetTable PROVE IInv'
  <1>1. AskedFor("table") /\ call.req.name \in Names /\ call.req.name # None
    <2>1. AskedFor("table")
      BY DEF GetTable, ReadRegistry, ReadColumns, ReadTableMetadata, ReadRegistryAgain,
             TableNotFound,
             CachedProgress, CountProgress, FreshProgress, At, AskedFor
    <2> QED BY <2>1, RequestsAreTyped, NoneIsApart DEF IInv, CallFits, AskedFor
  <1>2. \A t, u \in Owner(call.req.name) : t = u
    BY <1>1 DEF IInv, DataFits, NamesApart, Owner
  <1>3. call.at # "idle" /\ call.moves \in 0..2
    BY <1>1 DEF IInv, CallFits, CallTyped, AskedFor
  <1> DEFINE Steps == /\ call' = [call EXCEPT !.at = call'.at] /\ call'.at # "idle"
                      /\ got' = [rows |-> got'.rows, cats |-> got'.cats, table |-> got'.table,
                                 columns |-> got'.columns, data |-> got'.data, progress |-> got'.progress]
                      /\ UNCHANGED name
  <1>4. ASSUME Steps, TableFits', ProgressFits' PROVE CallFits'
    BY <1>1, <1>3, <1>4 DEF IInv, CallFits, CallTyped, RowsFit, SchemaFits, RecordFits, AskedFor
  <1> USE DEF IInv, CallFits, At, Go
  <1>5. CASE ReadRegistry
    <2>1. Steps /\ call'.at = "columns" /\ Only /\ Found(call.req.name)
      BY <1>5 DEF ReadRegistry, Only, database
    <2>2. TableFits' /\ ProgressFits'
      BY <1>1, <2>1 DEF TableFits, ProgressFits, AskedFor, Found, Owner
    <2> QED BY <1>4, <2>1, <2>2, ReadKeeps
  <1>6. CASE ReadColumns
    <2>1. Steps /\ call'.at = "info" /\ Only /\ call.at = "columns"
      BY <1>6 DEF ReadColumns, Only, database
    <2>2. Found(call.req.name) => got'.columns \in Owner(call.req.name)
      BY <1>6 DEF ReadColumns, Found
    <2>3. TableFits' /\ ProgressFits'
      BY <1>1, <1>3, <2>1, <2>2 DEF TableFits, ProgressFits, AskedFor, Still, Found, Owner
    <2> QED BY <1>4, <2>1, <2>3, ReadKeeps
  <1>7. CASE ReadTableMetadata
    <2>1. Steps /\ call'.at = "again" /\ Only /\ call.at = "info" /\ got' = got
      BY <1>7 DEF ReadTableMetadata, Only, database
    <2>2. TableFits' /\ ProgressFits'
      BY <1>1, <2>1 DEF TableFits, ProgressFits, AskedFor, Still, Found, Owner
    <2> QED BY <1>4, <2>1, <2>2, ReadKeeps
  <1>8. CASE ReadRegistryAgain
    <2>1. Steps /\ call'.at = "progress" /\ Only /\ call.at = "again"
          /\ got'.columns = got.columns /\ got'.table \in Owner(call.req.name)
      BY <1>8 DEF ReadRegistryAgain, Only, database
    <2>2. TableFits' /\ ProgressFits'
      BY <1>1, <1>2, <2>1 DEF TableFits, ProgressFits, AskedFor, Still, Found
    <2> QED BY <1>4, <2>1, <2>2, ReadKeeps
  <1>9. CASE TableNotFound
    <2>1. Steps /\ call'.at = "failed" /\ Only
      BY <1>9 DEF TableNotFound, Fail, Blank, Only, database
    <2>2. TableFits' /\ ProgressFits'
      BY <1>1, <2>1 DEF TableFits, ProgressFits, AskedFor
    <2> QED BY <1>4, <2>1, <2>2, ReadKeeps
  <1>10. CASE CachedProgress
    <2>1. Steps /\ call'.at = "answered" /\ Only /\ call.at = "progress"
          /\ got'.columns = got.columns /\ got'.table = got.table
      BY <1>10 DEF CachedProgress, Only, database
    <2>2. Accounts(got'.progress)
      BY <1>10 DEF CachedProgress, CountsFit, Sound
    <2>3. TableFits' /\ ProgressFits'
      BY <1>1, <2>1, <2>2 DEF TableFits, ProgressFits, AskedFor, Accounts
    <2> QED BY <1>4, <2>1, <2>3, ReadKeeps
  <1>11. CASE CountProgress
    <2>1. Steps /\ call'.at = "counting" /\ call.at = "progress" /\ got' = got
      BY <1>11 DEF CountProgress, database
    <2>2. TableFits' /\ ProgressFits'
      BY <1>1, <2>1 DEF TableFits, ProgressFits, AskedFor
    <2>3. JobFits'
      BY <1>1, <1>11, StartFits DEF CountProgress
    <2>4. CountsFit'
      BY <1>11, <2>3 DEF CountProgress, CountsFit, cache, database
    <2> QED BY <1>4, <1>11, <2>1, <2>2, <2>4, DataStands DEF CountProgress
  <1>12. CASE FreshProgress
    <2>1. Steps /\ call'.at = "answered" /\ call.at = "counting"
          /\ got'.columns = got.columns /\ got'.table = got.table
      BY <1>12 DEF FreshProgress, database
    <2>2. job # NoJob
      BY <1>12 DEF FreshProgress, Done, NoJob
    <2>3. Accounts(got'.progress)
      BY <1>12, <2>2, MergedSound, NothingSound DEF FreshProgress, CountsFit, Sound
    <2>4. TableFits' /\ ProgressFits'
      BY <1>1, <2>1, <2>3 DEF TableFits, ProgressFits, AskedFor, Accounts
    <2>5. CountsFit'
      BY <1>12 DEF FreshProgress, CountsFit, JobFits, cache, database
    <2> QED BY <1>4, <1>12, <2>1, <2>4, <2>5, DataStands DEF FreshProgress
  <1> QED BY <1>5, <1>6, <1>7, <1>8, <1>9, <1>10, <1>11, <1>12 DEF GetTable

\* A page of rows is a sequence.
LEMMA PageIsSequence ==
    ASSUME NEW n \in Nat, NEW s, s = [i \in 1..n |-> s[i]], NEW req \in Requests, req.kind = "records"
    PROVE  DOMAIN Page(s, req) = 1..Len(Page(s, req)) /\ Len(Page(s, req)) \in Nat
  <1>1. s \in Seq({s[i] : i \in 1..n})
    OBVIOUS
  <1>2. req.page \in Nat /\ req.size \in Nat
    BY RequestsAreTyped
  <1> DEFINE lo == req.page * req.size + 1  hi == Min({Len(s), (req.page + 1) * req.size})
  <1>3. lo \in Nat /\ lo >= 1 /\ (req.page + 1) * req.size \in Int
    BY <1>2
  <1>4. hi \in Int /\ hi <= Len(s)
    BY <1>1, <1>3 DEF Min
  <1>5. Page(s, req) = SubSeq(s, lo, hi)
    BY DEF Page
  <1> HIDE DEF lo, hi
  <1>6. SubSeq(s, lo, hi) \in Seq({s[i] : i \in 1..n})
    BY <1>1, <1>3, <1>4
  <1> QED BY <1>5, <1>6

\* The records of a table: as long as the rows stand, each catalog gives as many values.
LEMMA RecordsKeep == ASSUME IInv, GetRecords PROVE IInv'
  <1>1. AskedFor("records") /\ Only
    BY DEF GetRecords, FetchRecords, SchemaInfo, SchemaColumns, PartFails, ReadCatalogs,
           GetCatalogRecords, ZipRecords, At, AskedFor
  <1>2. call.req \in Requests /\ call.req.kind = "records" /\ call.req.name # None
    BY <1>1, RequestsAreTyped, NoneIsApart DEF IInv, CallFits, AskedFor
  <1>3. \A t, u \in Owner(call.req.name) : t = u
    BY <1>2 DEF IInv, DataFits, NamesApart, Owner
  <1>4. call.at # "idle" /\ call.moves \in 0..2
    BY <1>1 DEF IInv, CallFits, CallTyped, AskedFor
  <1> DEFINE Steps == /\ call' = [call EXCEPT !.at = call'.at, !.left = call'.left] /\ call'.at # "idle"
                      /\ got' = [rows |-> got'.rows, cats |-> got'.cats, table |-> got'.table,
                                 columns |-> got'.columns, data |-> got'.data, progress |-> got'.progress]
                      /\ UNCHANGED name
  <1>5. ASSUME Steps, RowsFit', SchemaFits' PROVE IInv'
    <2>1. CallFits'
      BY <1>1, <1>4, <1>5 DEF IInv, CallFits, CallTyped, TableFits, ProgressFits, RecordFits,
                              AskedFor
    <2> QED BY <1>1, <2>1, ReadKeeps
  <1> USE DEF IInv, CallFits, At, Go, Left
  <1>6. CASE FetchRecords
    <2>1. PICK t \in Owner(call.req.name) :
              LET found == {r \in RowsOf(t) : Selected(call.req, r)} IN
              \E ids \in [1..Cardinality(found) -> found] :
                  got' = [got EXCEPT !.table = t,
                                     !.rows = Page([i \in DOMAIN ids |-> Row(ids[i])], call.req)]
      BY <1>6 DEF FetchRecords
    <2> DEFINE found == {r \in RowsOf(t) : Selected(call.req, r)}
    <2>2. Cardinality(found) \in Nat
      <3>1. found \subseteq Records
        BY DEF DataFits, DataTyped, RowsOf
      <3> QED BY <3>1, RecordsAreNumbers, FS_Subset, FS_CardinalityType
    <2> HIDE DEF found
    <2>3. PICK ids \in [1..Cardinality(found) -> found] :
              got' = [got EXCEPT !.table = t,
                                 !.rows = Page([i \in DOMAIN ids |-> Row(ids[i])], call.req)]
      BY <2>1 DEF found
    <2> DEFINE s == [i \in DOMAIN ids |-> Row(ids[i])]
    <2>4. s = [i \in 1..Cardinality(found) |-> s[i]]
      OBVIOUS
    <2> HIDE DEF s
    <2>5. DOMAIN Page(s, call.req) = 1..Len(Page(s, call.req)) /\ Len(Page(s, call.req)) \in Nat
      BY <1>2, <2>2, <2>4, PageIsSequence
    <2>6. got' = [got EXCEPT !.table = t, !.rows = Page(s, call.req)]
      BY <2>3 DEF s
    <2>7. Steps /\ call'.at = "read" /\ call.at = "read" /\ call'.left = call.left \ {"records"}
          /\ got'.columns = got.columns /\ got'.table = t /\ got'.rows = Page(s, call.req)
      BY <1>1, <1>6, <2>6 DEF FetchRecords, Only, database
    <2>8. RowsFit'
      BY <2>5, <2>7 DEF RowsFit
    <2>9. SchemaFits'
      BY <1>1, <1>2, <1>3, <2>7, <1>6 DEF SchemaFits, AskedFor, Still, Found, Owner, FetchRecords
    <2> QED BY <1>5, <2>7, <2>8, <2>9
  <1>7. CASE SchemaInfo
    <2>1. Steps /\ call'.at = "read" /\ call.at = "read" /\ call'.left = call.left \ {"info"} /\ got' = got
      BY <1>1, <1>7 DEF SchemaInfo, Only, database
    <2>2. /\ "records" \in call'.left <=> "records" \in call.left
          /\ "columns" \in call'.left <=> "columns" \in call.left
          /\ call'.left \cap {"records", "columns"} = call.left \cap {"records", "columns"}
          /\ call'.req = call.req /\ call'.moves = call.moves /\ name' = name
      BY <2>1
    <2>3. RowsFit'
      BY <1>1, <2>1 DEF RowsFit, AskedFor
    <2>4. SchemaFits'
      BY <1>1, <2>1, <2>2 DEF SchemaFits, AskedFor, Still, Found, Owner
    <2> QED BY <1>5, <2>1, <2>3, <2>4
  <1>8. CASE SchemaColumns
    <2>1. Steps /\ call'.at = "read" /\ call.at = "read" /\ call'.left = call.left \ {"columns"}
          /\ got'.table = got.table /\ got'.rows = got.rows
      BY <1>1, <1>8 DEF SchemaColumns, Only, database
    <2>2. IF Found(call.req.name) THEN got'.columns \in Owner(call.req.name) ELSE got'.columns = None
      BY <1>8 DEF SchemaColumns, Found
    <2>3. RowsFit'
      BY <1>1, <2>1 DEF RowsFit, AskedFor
    <2>4. /\ "records" \in call'.left <=> "records" \in call.left
          /\ "columns" \notin call'.left
          /\ call'.left \cap {"records", "columns"} = {} <=> "records" \notin call.left
          /\ call'.req = call.req /\ call'.moves = call.moves /\ name' = name
      BY <2>1
    <2>5. ASSUME call.moves < 2, "records" \notin call.left PROVE got'.columns \in {got.table, None}
      <3>1. CASE "columns" \in call.left
        <4>1. Still(got.table)
          BY <1>1, <2>1, <2>5, <3>1 DEF SchemaFits
        <4> QED BY <1>3, <2>2, <4>1 DEF Still
      <3>2. CASE "columns" \notin call.left
        BY <1>8, <3>2 DEF SchemaColumns
      <3> QED BY <3>1, <3>2
    <2>6. "records" \in call.left => got'.columns = None \/ Still(got'.columns)
      BY <2>2 DEF Still
    <2>7. \A t : Still(t)' <=> Still(t)
      BY <2>4 DEF Still, Found, Owner
    <2>8. SchemaFits'
      BY <1>1, <2>1, <2>4, <2>5, <2>6, <2>7 DEF SchemaFits, AskedFor
    <2> QED BY <1>5, <2>1, <2>3, <2>8
  <1>9. CASE PartFails
    <2>1. Steps /\ call'.at = "failed" /\ got' = Blank
      BY <1>1, <1>9 DEF PartFails, Fail, Blank, Only, database
    <2>2. RowsFit' /\ SchemaFits'
      BY <1>1, <2>1 DEF RowsFit, SchemaFits, AskedFor, Blank
    <2> QED BY <1>5, <2>1, <2>2
  <1>10. CASE ReadCatalogs
    <2>1. Steps /\ call'.at = "catalogs" /\ call'.left = Shown /\ call.at = "read" /\ call.left = {}
          /\ got' = [got EXCEPT !.cats = [c \in Shown |-> <<>>]]
      BY <1>1, <1>10 DEF ReadCatalogs, Only, database
    <2>2. RowsFit' /\ SchemaFits'
      BY <1>1, <2>1 DEF RowsFit, SchemaFits, AskedFor
    <2> QED BY <1>5, <2>1, <2>2
  <1>11. ASSUME NEW c \in Shown, GetCatalogRecords(c) PROVE IInv'
    <2>1. Steps /\ call'.at = "catalogs" /\ call.at = "catalogs" /\ call'.left = call.left \ {c}
          /\ got' = [got EXCEPT !.cats[c] = ById(c)]
      BY <1>1, <1>11 DEF GetCatalogRecords, Only, database
    <2>2. got'.cats = [got.cats EXCEPT ![c] = ById(c)] /\ got'.rows = got.rows /\ got'.table = got.table
          /\ got'.columns = got.columns
      BY <2>1
    <2>3. got.cats = [d \in Shown |-> got.cats[d]]
      BY <1>1, <2>1 DEF RowsFit
    <2>4. /\ ById(c) = [i \in DOMAIN got.rows |-> ById(c)[i]]
          /\ \A i \in DOMAIN got.rows : ById(c)[i] \in {got.rows[i].id, None}
      BY DEF ById
    <2>5. \A d \in Shown \ call'.left : OfRow(d)'
      <3> SUFFICES ASSUME NEW d \in Shown \ call'.left PROVE OfRow(d)'
        OBVIOUS
      <3>1. CASE d = c
        BY <2>2, <2>3, <2>4, <3>1 DEF OfRow
      <3>2. CASE d # c
        <4>1. OfRow(d)
          BY <1>1, <2>1, <3>2 DEF RowsFit
        <4> QED BY <2>2, <2>3, <3>2, <4>1 DEF OfRow
      <3> QED BY <3>1, <3>2
    <2>6. RowsFit'
      BY <1>1, <2>1, <2>2, <2>3, <2>5 DEF RowsFit, AskedFor
    <2>7. SchemaFits'
      BY <1>1, <2>1, <2>2 DEF SchemaFits, AskedFor
    <2> QED BY <1>5, <2>1, <2>6, <2>7
  <1>12. CASE ZipRecords
    <2>1. got' = got /\ call.at = "catalogs" /\ call.left = {} /\ \A c \in Shown : OfRow(c)
      BY <1>1, <1>12 DEF ZipRecords, RowsFit
    <2>2. \A c \in Shown : Len(got.cats[c]) = Len(got.rows)
      <3> SUFFICES ASSUME NEW c \in Shown PROVE Len(got.cats[c]) = Len(got.rows)
        OBVIOUS
      <3> DEFINE x == got.cats[c]  n == Len(got.rows)
      <3>1. n \in Nat /\ x = [i \in 1..n |-> x[i]]
        BY <1>1, <2>1 DEF RowsFit, OfRow
      <3> HIDE DEF x, n
      <3>2. Len(x) = n
        BY <3>1
      <3> QED BY <3>2 DEF x, n
    <2>3. Steps /\ call'.at = "answered" /\ call'.left = call.left
      BY <1>1, <1>12, <2>2 DEF ZipRecords, Only, database
    <2>4. RowsFit' /\ SchemaFits'
      BY <1>1, <2>1, <2>3 DEF RowsFit, OfRow, SchemaFits, AskedFor
    <2> QED BY <1>5, <2>3, <2>4
  <1> QED BY <1>6, <1>7, <1>8, <1>9, <1>10, <1>11, <1>12 DEF GetRecords

-------------------------------------------------------------------------------
(* The invariant and what follows from it *)

LEMMA NextKeeps == ASSUME IInv, [Next]_vars PROVE IInv'
  <1>1. CASE UNCHANGED vars
    <2>1. UNCHANGED database /\ UNCHANGED <<snapshot, job, call, got>>
      BY <1>1 DEF vars, cache, reader
    <2> QED BY <2>1, DataStands, CountsStand, CallStands DEF IInv, database
  <1> QED BY <1>1, ChangeKeeps, CountKeeps, SendKeeps, ReturnKeeps, FailureKeeps, RecordsKeep,
             TableKeeps, ListingKeeps, CrossmatchKeeps DEF Next

\* What a request has read and what a counting has counted agree with the database as
\* far as the names of its tables have stood.
THEOREM InductiveInvariant == Spec => []IInv
  <1>1. Init => IInv
    BY InitSound
  <1>2. IInv /\ [Next]_vars => IInv'
    BY NextKeeps
  <1> QED BY <1>1, <1>2, PTL DEF Spec

\* The tables, the counts under names of tables and the requests keep their types.
THEOREM TypesHold == Spec => []TypeOK
  <1>1. IInv => TypeOK
    BY DEF IInv, DataFits, CountsFit, CallFits, TypeOK, SnapshotTyped, Sound
  <1> QED BY <1>1, InductiveInvariant, PTL

\* zip never runs short in get_records, and each catalog value is of the record of its row.
THEOREM RowsAlwaysAligned == Spec => []RowsAligned
  <1>1. IInv => RowsAligned
    BY DEF IInv, CallFits, RowsFit, OfRow, RowsAligned, AskedFor
  <1> QED BY <1>1, InductiveInvariant, PTL

\* Whatever is changed while they are counted, the stages of get_table_progress account
\* for every record.
THEOREM ProgressAlwaysAccounts == Spec => []ProgressAccounts
  <1>1. IInv => ProgressAccounts
    BY DEF IInv, CountsFit, Sound, CallFits, ProgressFits, AskedFor, ProgressAccounts
  <1> QED BY <1>1, InductiveInvariant, PTL

\* An answer of get_table or get_records mixes two tables only if the requested name changed
\* hands twice meanwhile; moves of other names do not count.
THEOREM AnswersAreOfOneTable == Spec => []OneTablePerAnswer
  <1>1. IInv => OneTablePerAnswer
    BY DEF IInv, CallFits, CallTyped, TableFits, SchemaFits, AskedFor, OneTablePerAnswer
  <1> QED BY <1>1, InductiveInvariant, PTL

\* The snapshot of the table statistics never loses a record it has counted.
THEOREM CountsAreKept == Spec => CountedStayCounted
  <1> DEFINE Kept == \A n \in DOMAIN snapshot :
                 snapshot[n].total \subseteq UNION {snapshot'[m].total : m \in DOMAIN snapshot'}
  <1>1. ASSUME IInv, snapshot' = snapshot PROVE Kept
    BY <1>1
  <1>2. ASSUME IInv, Publish PROVE Kept
    <2>1. job # NoJob /\ job.for = "cache" /\ "funnel" \notin job.left /\ snapshot' = Merged
      BY <1>2 DEF Publish, Done, NoJob
    <2>2. CountedIn(snapshot) \subseteq CountedIn(Merged)
      BY <1>2, <2>1, MergedSound DEF IInv, CountsFit, JobFits
    <2> QED BY <2>1, <2>2 DEF CountedIn
  <1>3. ASSUME IInv, [Next]_vars PROVE Kept
    <2>1. CASE Change
      BY <1>1, <1>3, <2>1, ChangeKeepsData DEF IInv
    <2>2. CASE Count
      BY <1>1, <1>2, <1>3, <2>2 DEF Count, ReadFunnel, ReadCatalog, StartRefresh, RefreshFails,
                                    KeptSnapshot, cache
    <2>3. CASE (\E req \in Requests : Send(req)) \/ Return \/ StatementFails
      BY <1>1, <1>3, <2>3 DEF Send, Return, StatementFails, Only, cache
    <2>4. CASE GetRecords \/ GetTable
      BY <1>1, <1>3, <2>4
         DEF GetRecords, FetchRecords, SchemaInfo, SchemaColumns, PartFails, ReadCatalogs,
             GetCatalogRecords, ZipRecords, GetTable, ReadRegistry, ReadColumns, ReadTableMetadata,
             ReadRegistryAgain, TableNotFound, CachedProgress, CountProgress, FreshProgress, Only, cache
    <2>5. CASE GetTableList \/ GetRecordCrossmatch \/ TapTables
      BY <1>1, <1>3, <2>5
         DEF GetTableList, SearchTables, ListProgress, GetRecordCrossmatch, GetProcessedRecord,
             ConvertRecord, ResolveTableName, FetchRawData, RawDataFails, QueryCandidates, TapTables,
             ListTables, ListColumns, Only, cache
    <2>6. CASE UNCHANGED vars
      BY <1>1, <1>3, <2>6 DEF vars, cache
    <2> QED BY <1>3, <2>1, <2>2, <2>3, <2>4, <2>5, <2>6 DEF Next
  <1>4. IInv /\ [Next]_vars => [Kept]_vars
    BY <1>3
  <1> QED BY <1>4, InductiveInvariant, PTL DEF Spec, CountedStayCounted

\* get_record_crossmatch raises an error of its own on a record with a result only when no
\* catalog has it; an answer that names a table has the record's raw row, unless that table
\* was renamed since the request came.
THEOREM CrossmatchIsAnswered == Spec => CrossmatchAnswered
  <1> DEFINE r == call.req.record
             Answers == /\ At("crossmatch", "layer1") /\ call'.at = "failed" => \A c \in Shown : r \notin layer1[c]
                        /\ At("crossmatch", "raw") /\ call.moves = 0 /\ call'.at # "raw" =>
                               got'.table = None \/ got'.data = {r} \cap rawRows
  <1>1. ASSUME IInv, At("crossmatch", "layer1") => call'.at # "failed", At("crossmatch", "raw") => call'.at = "raw"
        PROVE  Answers
    BY <1>1
  <1>2. ASSUME IInv, call'.at = call.at PROVE Answers
    BY <1>1, <1>2 DEF At
  <1>3. ASSUME IInv, GetRecordCrossmatch PROVE Answers
    <2> USE <1>3 DEF IInv, CallFits
    <2>1. CASE GetProcessedRecord \/ ResolveTableName \/ QueryCandidates
      BY <1>1, <2>1 DEF GetProcessedRecord, ResolveTableName, QueryCandidates, At, Go
    <2>2. CASE ConvertRecord
      BY <2>2 DEF ConvertRecord, QueryRecords, At, Go
    <2>3. CASE FetchRawData
      <3>1. SUFFICES ASSUME call.moves = 0 PROVE got'.data = {r} \cap rawRows
        BY <2>3 DEF FetchRawData, At
      <3>2. r \in registered /\ got.table = name[Home[r]]
        BY <2>3, <3>1 DEF FetchRawData, At, RecordFits, AskedFor
      <3>3. Home[r] \in Tables /\ name[Home[r]] # None
        BY <3>2, RecordsAreNumbers DEF DataFits, DataTyped, RecordsNamed
      <3>4. Owner(got.table) = {Home[r]}
        BY <3>2, <3>3 DEF Owner, DataFits, NamesApart
      <3>5. got'.data = RowsOf(Home[r]) \cap {r}
        BY <2>3, <3>4 DEF FetchRawData
      <3> QED BY <3>5 DEF RowsOf
    <2>4. CASE RawDataFails
      BY <2>4 DEF RawDataFails, At
    <2> QED BY <2>1, <2>2, <2>3, <2>4 DEF GetRecordCrossmatch
  <1>4. ASSUME IInv, [Next]_vars PROVE Answers
    <2>1. CASE Change
      <3>1. call'.at = call.at
        BY <1>4, <2>1, ChangeKeepsData DEF IInv, CallFits, NameMoves, Moved
      <3> QED BY <1>2, <1>4, <3>1
    <2>2. CASE Count
      BY <1>2, <1>4, <2>2 DEF Count, ReadFunnel, ReadCatalog, StartRefresh, Publish, RefreshFails,
                              reader
    <2>3. CASE (\E req \in Requests : Send(req)) \/ Return \/ StatementFails
      <3>1. StatementFails => call'.at = "lost" /\ call.at # "raw"
        BY DEF IInv, CallFits, StatementFails
      <3> QED BY <1>1, <1>4, <2>3, <3>1 DEF Send, Return, At
    <2>4. CASE GetRecords \/ GetTable
      BY <1>1, <1>4, <2>4
         DEF GetRecords, FetchRecords, SchemaInfo, SchemaColumns, PartFails, ReadCatalogs,
             GetCatalogRecords, ZipRecords, GetTable, ReadRegistry, ReadColumns, ReadTableMetadata,
             ReadRegistryAgain, TableNotFound, CachedProgress, CountProgress, FreshProgress, At
    <2>5. CASE GetTableList \/ TapTables
      BY <1>1, <1>4, <2>5
         DEF GetTableList, SearchTables, ListProgress, TapTables, ListTables, ListColumns, At
    <2>6. CASE UNCHANGED vars
      BY <1>2, <1>4, <2>6 DEF vars, reader
    <2> QED BY <1>3, <1>4, <2>1, <2>2, <2>3, <2>4, <2>5, <2>6 DEF Next
  <1>5. IInv /\ [Next]_vars => [Answers]_vars
    BY <1>4
  <1> QED BY <1>5, InductiveInvariant, PTL DEF Spec, CrossmatchAnswered
===============================================================================
