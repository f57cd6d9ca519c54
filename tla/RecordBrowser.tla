----------------------------- MODULE RecordBrowser -----------------------------
(***************************************************************************)
(* What the admin API shows of the raw tables: the records of a table, the *)
(* description of a table, the list of the tables with their progress, the *)
(* crossmatch result of a record, and the tables the TAP service lists.    *)
(* Each answer is put together from statements that see the database at    *)
(* different moments, while uploads, renames, crossmatch results, object   *)
(* numbers, structured data and the imports change it.                     *)
(*                                                                         *)
(* A change is the commit of one transaction (RecordAssignment, TableUpload*)
(* and Layer2Import open them up; the rename that gives two tables each a  *)
(* half of a name, TableUpload's finding, is left to it).  A number the    *)
(* code counts is the set of the records counted.                          *)
(*                                                                         *)
(* The refresh of the cache and the counting of a request are one after    *)
(* the other here; in the code they may overlap, but share nothing.        *)
(***************************************************************************)
EXTENDS Integers, Sequences, FiniteSets, FiniteSetsExt

CONSTANTS Records,        \* identifiers, naturals in the order of the database
          Tables, Names, Pgcs,
          Catalogs,       \* the catalogs the progress counts
          Shown,          \* those of them that have a table in layer 2
          Home,           \* the table of each record, for ever: its hash has the name
          Payloads,       \* crossmatch results that may be sent
          Requests,       \* requests that may be sent
          FirstName, FirstRecords, FirstCrossmatch, FirstPgc, FirstLayer1,
          MaxEdits, MaxRefreshes, MaxCalls,
          None

Triage == {"pending", "resolved"}
Results == [triage : Triage, candidates : SUBSET Pgcs]

ASSUME RecordsAreNumbers ==
    Records \subseteq Nat /\ IsFiniteSet(Records) /\ Home \in [Records -> Tables]
ASSUME CatalogsAreNamed == Shown \subseteq Catalogs /\ "funnel" \notin Catalogs
ASSUME NoneIsApart == None \notin UNION {Tables, Names, Pgcs, Catalogs, Requests, Results}
ASSUME RequestsAreTyped ==
    \A req \in Requests :
        /\ req.kind \in {"records", "table"} => req.name \in Names
        /\ req.kind = "records" => req.page \in Nat /\ req.size \in Nat
ASSUME PayloadsAreTyped ==
    \A p \in Payloads :
        /\ p.triage \in Triage \cup {None}
        /\ \A part \in {"new", "existing", "collided"} :
               \A r \in DOMAIN p[part] : p[part][r] \subseteq Pgcs
\* The database a process finds: no two tables of a name, and numbers only after a
\* crossmatch result.
ASSUME FirstIsSound ==
    /\ FirstName \in [Tables -> Names \cup {None}]
    /\ \A t, u \in Tables : FirstName[t] = FirstName[u] /\ FirstName[t] # None => t = u
    /\ FirstRecords \subseteq {r \in Records : FirstName[Home[r]] # None}
    /\ FirstCrossmatch \in [Records -> Results \cup {None}]
    /\ FirstPgc \in [Records -> Pgcs \cup {None}]
    /\ \A r \in Records : FirstPgc[r] # None => FirstCrossmatch[r] # None
    /\ FirstLayer1 \in [Catalogs -> SUBSET Records]

VARIABLES name,         \* registry and relation name of each table, they change at once
          rawRows,      \* rows of the raw tables
          registered,   \* rows of layer0.records
          crossmatch,   \* rows of layer0.crossmatch
          pgc,          \* layer0.records.pgc
          layer1,       \* records with rows in a catalog
          layer2,       \* objects with a row in a catalog
          modified,     \* objects modified after the catalog's last update
          snapshot,     \* what the cache of table statistics holds
          job,          \* the counting under way: of the cache or of a request
          call, got,    \* a request, and what its statements have returned
          edits, refreshes, calls

database == <<name, rawRows, registered, crossmatch, pgc, layer1, layer2, modified>>
reader == <<call, got, calls>>
cache == <<snapshot, refreshes>>
vars == <<database, cache, job, reader, edits>>

Owner(n) == {t \in Tables : name[t] = n}
RowsOf(t) == {r \in rawRows : Home[r] = t}
RecordsOf(t) == {r \in registered : Home[r] = t}

Untouched == [c \in Catalogs |-> [structured |-> {}, in_layer2 |-> {}, layer2_pending |-> {}]]
Nothing == [total |-> {}, unprocessed |-> {}, pending |-> {}, resolved |-> {}, submitted |-> {},
            catalogs |-> Untouched]
NoTables == [n \in {} |-> Nothing]
NoJob == [for |-> "none", names |-> {}, left |-> {}, funnel |-> NoTables, rows |-> <<>>]
NoCall == [req |-> None, at |-> "idle", left |-> {}, moves |-> 0]
Blank == [rows |-> <<>>, cats |-> <<>>, table |-> None, columns |-> None, data |-> None,
          progress |-> None]

-------------------------------------------------------------------------------
(* Changes of the database *)

Edit == edits < MaxEdits /\ edits' = edits + 1 /\ UNCHANGED <<cache, job, got, calls>>
Quietly == Edit /\ UNCHANGED call
\* What takes the requested name from a table or gives it to one, and what renames the
\* table of the requested record.
Concerns(t, n) ==
    \/ call.req.kind \in {"records", "table"} /\ call.req.name \in {name[t], n}
    \/ call.req.kind = "crossmatch" /\ Home[call.req.record] = t
\* Such moves since the request came; two are as many as it takes.
Moved(t, n) ==
    call' = IF call.req = None \/ call.moves = 2 \/ ~Concerns(t, n) THEN call
            ELSE [call EXCEPT !.moves = @ + 1]
Touch(ps) == modified' = [c \in Shown |-> modified[c] \cup (ps \ {None})]

\* Mutant: nothing keeps two tables from one name.
AnyName(n) == TRUE

Free(n) == Owner(n) = {}

\* ALTER TABLE and the UPDATE of the registry are one transaction.
Rename(t, n) ==
    /\ Edit
    /\ name[t] # None /\ Free(n)
    /\ name' = [name EXCEPT ![t] = n]
    /\ Moved(t, n)
    /\ UNCHANGED <<rawRows, registered, crossmatch, pgc, layer1, layer2, modified>>

CreateTable(t, n) ==
    /\ Edit
    /\ name[t] = None /\ Free(n)
    /\ name' = [name EXCEPT ![t] = n]
    /\ Moved(t, n)
    /\ UNCHANGED <<rawRows, registered, crossmatch, pgc, layer1, layer2, modified>>

\* The two workers of add_data, in any order.
InsertRawData(r) ==
    /\ Quietly
    /\ name[Home[r]] # None /\ r \notin rawRows
    /\ rawRows' = rawRows \cup {r}
    /\ UNCHANGED <<name, registered, crossmatch, pgc, layer1, layer2, modified>>

RegisterRecords(r) ==
    /\ Quietly
    /\ name[Home[r]] # None /\ r \notin registered
    /\ registered' = registered \cup {r}
    /\ UNCHANGED <<name, rawRows, crossmatch, pgc, layer1, layer2, modified>>

\* The three parts of a request, each from records to candidates, and the triage
\* statuses given with them.
Parts == {"new", "existing", "collided"}
PayloadIds(p) == UNION {DOMAIN p[part] : part \in Parts}

ValidPayload(p) ==
    /\ PayloadIds(p) # {}
    /\ \A r \in DOMAIN p.new : p.new[r] = {}
    /\ \A r \in DOMAIN p.existing : Cardinality(p.existing[r]) = 1
    /\ \A r \in DOMAIN p.collided : p.collided[r] # {}

\* Mutant: the status of a record for its triage status.
StatusAsTriage == [new |-> "resolved", existing |-> "resolved", collided |-> "collided"]

DefaultTriage == [new |-> "resolved", existing |-> "resolved", collided |-> "pending"]

\* Rows of the later parts replace rows of the earlier.
PartOf(p, r) ==
    IF r \in DOMAIN p.collided THEN "collided" ELSE IF r \in DOMAIN p.existing THEN "existing" ELSE "new"

CrossmatchRow(p, r) ==
    [triage |-> IF p.triage = None THEN DefaultTriage[PartOf(p, r)] ELSE p.triage,
     candidates |-> p[PartOf(p, r)][r]]

SetCrossmatchResults(p) ==
    /\ Quietly
    /\ ValidPayload(p) /\ PayloadIds(p) \subseteq registered
    /\ crossmatch' = [r \in Records |->
           IF r \in PayloadIds(p) THEN CrossmatchRow(p, r) ELSE crossmatch[r]]
    /\ UNCHANGED <<name, rawRows, registered, pgc, layer1, layer2, modified>>

\* One record of a request: its candidate, or a number that is minted for it.  The triage
\* status was asked for before the rows were locked and may have become pending since.
AssignRecordPgcs(r, p) ==
    /\ Quietly
    /\ r \in registered /\ pgc[r] = None
    /\ crossmatch[r] # None
    /\ crossmatch[r].candidates \in {{}, {p}}
    /\ crossmatch[r].candidates = {} => \A s \in Records : pgc[s] # p
    /\ pgc' = [pgc EXCEPT ![r] = p]
    /\ Touch({p})
    /\ UNCHANGED <<name, rawRows, registered, crossmatch, layer1, layer2>>

MergePgcs(source, target) ==
    /\ Quietly
    /\ source # target
    /\ pgc' = [r \in Records |-> IF pgc[r] = source THEN target ELSE pgc[r]]
    /\ Touch({source, target})
    /\ UNCHANGED <<name, rawRows, registered, crossmatch, layer1, layer2>>

SaveStructuredData(c, r) ==
    /\ Quietly
    /\ r \in registered
    /\ layer1' = [layer1 EXCEPT ![c] = @ \cup {r}]
    /\ Touch({pgc[r]})
    /\ UNCHANGED <<name, rawRows, registered, crossmatch, pgc, layer2>>

\* A complete run of the import of a catalog, and of the cleanup.
Import(c) ==
    /\ Quietly
    /\ layer2' = [layer2 EXCEPT ![c] = {p \in Pgcs : \E r \in layer1[c] : pgc[r] = p}]
    /\ modified' = [modified EXCEPT ![c] = {}]
    /\ UNCHANGED <<name, rawRows, registered, crossmatch, pgc, layer1>>

Change ==
    \/ \E t \in Tables, n \in Names : CreateTable(t, n)
    \/ \E t \in Tables, n \in Names : Rename(t, n)
    \/ \E r \in Records : InsertRawData(r)
    \/ \E r \in Records : RegisterRecords(r)
    \/ \E p \in Payloads : SetCrossmatchResults(p)
    \/ \E r \in Records, p \in Pgcs : AssignRecordPgcs(r, p)
    \/ \E source, target \in Pgcs : MergePgcs(source, target)
    \/ \E c \in Catalogs, r \in Records : SaveStructuredData(c, r)
    \/ \E c \in Shown : Import(c)

-------------------------------------------------------------------------------
(* get_table_progress: one statement for the funnel, one for each catalog *)

Asked(j) == IF j.for = "request" THEN j.names ELSE Names
Counted(j) == {t \in Tables : name[t] \in Asked(j)}

Start(for, names) ==
    job' = [for |-> for, names |-> names, left |-> Catalogs \cup {"funnel"},
            funnel |-> NoTables, rows |-> [c \in Catalogs |-> NoTables]]

\* Mutant: the records are joined with their crossmatch results.
CountMatched(t) == LET rs == {r \in RecordsOf(t) : crossmatch[r] # None} IN
    [total |-> RecordsOf(t),
     unprocessed |-> {},
     pending |-> {r \in rs : crossmatch[r].triage = "pending"},
     resolved |-> {r \in rs : crossmatch[r].triage = "resolved" /\ pgc[r] = None},
     submitted |-> {r \in rs : pgc[r] # None},
     catalogs |-> Untouched]

\* LEFT JOIN: a record without a crossmatch result is unprocessed.
Funnel(t) == LET rs == RecordsOf(t)
                 Is(r, s) == crossmatch[r] # None /\ crossmatch[r].triage = s IN
    [total |-> rs,
     unprocessed |-> {r \in rs : crossmatch[r] = None},
     pending |-> {r \in rs : Is(r, "pending")},
     resolved |-> {r \in rs : Is(r, "resolved") /\ pgc[r] = None},
     submitted |-> {r \in rs : pgc[r] # None},
     catalogs |-> Untouched]

\* A catalog whose object has no table in layer 2 counts the structured records only.
CatalogProgress(c, t) == LET rs == RecordsOf(t) \cap layer1[c] IN
    IF c \notin Shown
    THEN [structured |-> rs, in_layer2 |-> {}, layer2_pending |-> {}]
    ELSE [structured |-> rs,
          in_layer2 |-> {r \in rs : pgc[r] \in layer2[c]},
          layer2_pending |-> {r \in rs : pgc[r] # None
                                  /\ (pgc[r] \notin layer2[c] \/ pgc[r] \in modified[c])}]

\* GROUP BY table_name: a table without rows is no group.
Grouped(value) ==
    [n \in {name[t] : t \in DOMAIN value} |-> value[CHOOSE t \in DOMAIN value : name[t] = n]]

\* The constructor of the cache refreshes once before the first request.
Whole(t) == [Funnel(t) EXCEPT !.catalogs = [c \in Catalogs |-> CatalogProgress(c, t)]]

Init ==
    /\ name = FirstName
    /\ rawRows = FirstRecords /\ registered = FirstRecords
    /\ crossmatch = FirstCrossmatch
    /\ pgc = FirstPgc
    /\ layer1 = FirstLayer1
    /\ layer2 = [c \in Shown |-> {}]
    /\ modified = [c \in Shown |-> Pgcs]
    /\ snapshot = Grouped([t \in {u \in Tables : RecordsOf(u) # {}} |-> Whole(t)])
    /\ job = NoJob
    /\ call = NoCall /\ got = Blank
    /\ edits = 0 /\ refreshes = 0 /\ calls = 0

ReadFunnel ==
    /\ "funnel" \in job.left
    /\ job' = [job EXCEPT !.left = @ \ {"funnel"},
                          !.funnel = Grouped([t \in {u \in Counted(job) : RecordsOf(u) # {}} |-> Funnel(t)])]
    /\ UNCHANGED <<database, cache, reader, edits>>

ReadCatalog(c) ==
    /\ c \in job.left
    /\ job' = [job EXCEPT !.left = @ \ {c},
                          !.rows[c] = Grouped(
                              [t \in {u \in Counted(job) : RecordsOf(u) \cap layer1[c] # {}} |->
                                  CatalogProgress(c, t)])]
    /\ UNCHANGED <<database, cache, reader, edits>>

\* The rows are joined by the name of the table, which a rename may have changed between.
Merged == LET names == DOMAIN job.funnel \cup UNION {DOMAIN job.rows[c] : c \in Catalogs}
              Base(n) == IF n \in DOMAIN job.funnel THEN job.funnel[n] ELSE Nothing IN
    [n \in names |-> [Base(n) EXCEPT !.catalogs =
        [c \in Catalogs |-> IF n \in DOMAIN job.rows[c] THEN job.rows[c][n] ELSE Untouched[c]]]]

Done(for) == job.for = for /\ job.left = {}

\* The background cache: one refresh after another.
StartRefresh ==
    /\ job.for = "none" /\ refreshes < MaxRefreshes
    /\ refreshes' = refreshes + 1
    /\ Start("cache", {})
    /\ UNCHANGED <<database, snapshot, reader, edits>>

Publish ==
    /\ Done("cache")
    /\ snapshot' = Merged
    /\ job' = NoJob
    /\ UNCHANGED <<database, refreshes, reader, edits>>

\* Mutant: a refresh that fails leaves an empty snapshot.
Emptied == NoTables

\* A statement fails or the refresh is late: the last snapshot stays.
KeptSnapshot == snapshot

RefreshFails ==
    /\ job.for = "cache"
    /\ snapshot' = KeptSnapshot
    /\ job' = NoJob
    /\ UNCHANGED <<database, refreshes, reader, edits>>

-------------------------------------------------------------------------------
(* Requests *)

Only == UNCHANGED <<database, cache, job, edits, calls>>
At(kind, at) == call.req # None /\ call.req.kind = kind /\ call.at = at
Go(at) == call' = [call EXCEPT !.at = at]
Left(x) == call' = [call EXCEPT !.left = @ \ {x}]
Fail == Go("failed") /\ got' = Blank
Found(n) == Owner(n) # {}

Send(req) ==
    /\ call.at = "idle" /\ calls < MaxCalls
    /\ calls' = calls + 1
    /\ call' = [req |-> req, at |-> "read", moves |-> 0,
                left |-> IF req.kind = "records" THEN {"records", "info", "columns"} ELSE {}]
    /\ got' = Blank
    /\ UNCHANGED <<database, cache, job, edits>>

Return ==
    /\ call.at \in {"answered", "failed", "lost"}
    /\ call' = NoCall /\ got' = Blank
    /\ Only

\* A statement fails, or the pool has no connection for it: the request ends in an error,
\* save one for the raw row of get_record_crossmatch.  The cache is no statement.
StatementFails ==
    /\ call.req # None
    /\ call.at \notin {"progress", "resolve", "raw", "unequal", "answered", "failed", "lost"}
    /\ call.req.kind = "records" => call.left # {}
    /\ call.at = "counting" => job.left # {}
    /\ call' = [call EXCEPT !.at = "lost", !.left = {}]
    /\ got' = Blank
    /\ job' = IF job.for = "request" THEN NoJob ELSE job
    /\ UNCHANGED <<database, cache, edits, calls>>

-------------------------------------------------------------------------------
(* get_records *)

Selected(req, r) ==
    /\ r \in rawRows \cap registered
    /\ req.upload = "uploaded" => pgc[r] # None
    /\ req.upload = "pending" => pgc[r] = None
    /\ req.pgc # None => pgc[r] = req.pgc
    /\ req.triage = "unprocessed" => crossmatch[r] = None
    /\ req.triage \in Triage => crossmatch[r] # None /\ crossmatch[r].triage = req.triage

Row(r) == [id |-> r, pgc |-> pgc[r],
           triage |-> IF crossmatch[r] = None THEN "unprocessed" ELSE crossmatch[r].triage,
           candidates |-> IF crossmatch[r] = None THEN {} ELSE crossmatch[r].candidates]

Page(s, req) == SubSeq(s, req.page * req.size + 1, Min({Len(s), (req.page + 1) * req.size}))

FetchRecords ==
    /\ At("records", "read") /\ "records" \in call.left
    /\ \E t \in Owner(call.req.name) :
           LET found == {r \in RowsOf(t) : Selected(call.req, r)} IN
           \E ids \in [1..Cardinality(found) -> found] :
               /\ \A i, j \in DOMAIN ids : i < j => ids[i] < ids[j]
               /\ got' = [got EXCEPT !.table = t,
                                     !.rows = Page([i \in DOMAIN ids |-> Row(ids[i])], call.req)]
    /\ Left("records")
    /\ Only

\* get_schema: the comment of the table and those of its columns.
SchemaInfo ==
    /\ At("records", "read") /\ "info" \in call.left
    /\ Found(call.req.name)
    /\ Left("info")
    /\ UNCHANGED got
    /\ Only

SchemaColumns ==
    /\ At("records", "read") /\ "columns" \in call.left
    /\ got' = [got EXCEPT !.columns = IF Found(call.req.name)
                                      THEN CHOOSE t \in Owner(call.req.name) : TRUE ELSE None]
    /\ Left("columns")
    /\ Only

\* There is no relation, or no comment, of that name: the group reports the error.
PartFails ==
    /\ At("records", "read") /\ call.left \cap {"records", "info"} # {}
    /\ ~Found(call.req.name)
    /\ Fail
    /\ Only

ReadCatalogs ==
    /\ At("records", "read") /\ call.left = {}
    /\ call' = [call EXCEPT !.at = "catalogs", !.left = Shown]
    /\ got' = [got EXCEPT !.cats = [c \in Shown |-> <<>>]]
    /\ Only

\* Mutant: the rows the catalog has, as the statement returns them.
InStored(c) == SelectSeq([i \in DOMAIN got.rows |-> got.rows[i].id], LAMBDA r : r \in layer1[c])

\* One value, or none, for each record, in the order of the records.
ById(c) == [i \in DOMAIN got.rows |-> IF got.rows[i].id \in layer1[c] THEN got.rows[i].id ELSE None]

GetCatalogRecords(c) ==
    /\ At("records", "catalogs") /\ c \in call.left
    /\ got' = [got EXCEPT !.cats[c] = ById(c)]
    /\ Left(c)
    /\ Only

\* zip with strict=True
ZipRecords ==
    /\ At("records", "catalogs") /\ call.left = {}
    /\ Go(IF \A c \in Shown : Len(got.cats[c]) = Len(got.rows) THEN "answered" ELSE "unequal")
    /\ UNCHANGED got
    /\ Only

-------------------------------------------------------------------------------
(* get_table: the registry, the columns, the table's comment, the registry once *)
(* more, and the progress, counted anew for a table the cache does not have     *)

ReadRegistry ==
    /\ At("table", "read") /\ Found(call.req.name)
    /\ Go("columns")
    /\ UNCHANGED got
    /\ Only

ReadColumns ==
    /\ At("table", "columns")
    /\ got' = [got EXCEPT !.columns = IF Found(call.req.name)
                                      THEN CHOOSE t \in Owner(call.req.name) : TRUE ELSE None]
    /\ Go("info")
    /\ Only

ReadTableMetadata ==
    /\ At("table", "info") /\ Found(call.req.name)
    /\ Go("again")
    /\ UNCHANGED got
    /\ Only

ReadRegistryAgain ==
    /\ At("table", "again")
    /\ \E t \in Owner(call.req.name) : got' = [got EXCEPT !.table = t]
    /\ Go("progress")
    /\ Only

TableNotFound ==
    /\ call.at \in {"read", "info", "again"} /\ At("table", call.at)
    /\ ~Found(call.req.name)
    /\ Fail
    /\ Only

CachedProgress ==
    /\ At("table", "progress") /\ call.req.name \in DOMAIN snapshot
    /\ got' = [got EXCEPT !.progress = snapshot[call.req.name]]
    /\ Go("answered")
    /\ Only

CountProgress ==
    /\ At("table", "progress") /\ call.req.name \notin DOMAIN snapshot
    /\ job.for = "none"
    /\ Start("request", {call.req.name})
    /\ Go("counting")
    /\ UNCHANGED <<database, cache, got, edits, calls>>

FreshProgress ==
    /\ At("table", "counting") /\ Done("request")
    /\ got' = [got EXCEPT !.progress =
                  IF call.req.name \in DOMAIN Merged THEN Merged[call.req.name] ELSE Nothing]
    /\ job' = NoJob
    /\ Go("answered")
    /\ UNCHANGED <<database, cache, edits, calls>>

-------------------------------------------------------------------------------
(* get_table_list: the tables, then what the cache has under their names *)

SearchTables ==
    /\ At("list", "read")
    /\ got' = [got EXCEPT !.rows = {name[t] : t \in Tables} \ {None}]
    /\ Go("progress")
    /\ Only

ListProgress ==
    /\ At("list", "progress")
    /\ got' = [got EXCEPT !.progress =
                  [n \in got.rows |-> IF n \in DOMAIN snapshot THEN snapshot[n] ELSE Nothing]]
    /\ Go("answered")
    /\ Only

-------------------------------------------------------------------------------
(* get_record_crossmatch *)

Processed(r) == r \in registered /\ crossmatch[r] # None

GetProcessedRecord == LET r == call.req.record IN
    /\ At("crossmatch", "read")
    /\ IF Processed(r)
       THEN Go("layer1") /\ got' = [got EXCEPT !.rows = <<Row(r)>>]
       ELSE Fail
    /\ Only

\* Mutant: the catalogs are joined to the first one.
LeftJoined(r, first) == IF r \in layer1[first] THEN {c \in Shown : r \in layer1[c]} ELSE {}

\* FULL OUTER JOIN of the catalogs
QueryRecords(r, first) == {c \in Shown : r \in layer1[c]}

\* A record that no catalog has is no row of the join: RuntimeError.
ConvertRecord == LET cats == QueryRecords(call.req.record, CHOOSE c \in Shown : TRUE) IN
    /\ At("crossmatch", "layer1")
    /\ IF cats = {} THEN Fail ELSE Go("resolve") /\ got' = [got EXCEPT !.cats = cats]
    /\ Only

ResolveTableName ==
    /\ At("crossmatch", "resolve")
    /\ got' = [got EXCEPT !.table = name[Home[call.req.record]]]
    /\ Go("raw")
    /\ Only

Candidates == IF got.rows[1].candidates = {} THEN "answered" ELSE "layer2"

\* By the name found, which may be another table's now.
FetchRawData ==
    /\ At("crossmatch", "raw")
    /\ \E t \in Owner(got.table) :
           got' = [got EXCEPT !.data = RowsOf(t) \cap {call.req.record}]
    /\ Go(Candidates)
    /\ Only

\* There is no relation of the name found, or a statement fails: the exception is swallowed,
\* and the answer names no table and has no row.
RawDataFails ==
    /\ call.at \in {"resolve", "raw"} /\ At("crossmatch", call.at)
    /\ got' = [got EXCEPT !.table = None, !.data = {}]
    /\ Go(Candidates)
    /\ Only

\* query_catalogs_pgc: the rows of any catalog, as many as there are candidates.
CandidateObjects(ps) == {p \in ps : \E c \in Shown : p \in layer2[c]}

QueryCandidates ==
    /\ At("crossmatch", "layer2")
    /\ got' = [got EXCEPT !.progress = CandidateObjects(got.rows[1].candidates)]
    /\ Go("answered")
    /\ Only

-------------------------------------------------------------------------------
(* tap_tables: the tables that have a comment, then the columns of all tables *)

ListTables ==
    /\ At("tap", "read")
    /\ got' = [got EXCEPT !.rows = {name[t] : t \in Tables} \ {None}]
    /\ Go("columns")
    /\ Only

ListColumns ==
    /\ At("tap", "columns")
    /\ got' = [got EXCEPT !.columns = [n \in got.rows |-> Owner(n)]]
    /\ Go("answered")
    /\ Only

Count == ReadFunnel \/ (\E c \in Catalogs : ReadCatalog(c)) \/ StartRefresh \/ Publish \/ RefreshFails
GetRecords == FetchRecords \/ SchemaInfo \/ SchemaColumns \/ PartFails \/ ReadCatalogs
              \/ (\E c \in Shown : GetCatalogRecords(c)) \/ ZipRecords
GetTable == ReadRegistry \/ ReadColumns \/ ReadTableMetadata \/ ReadRegistryAgain \/ TableNotFound
            \/ CachedProgress \/ CountProgress \/ FreshProgress
GetTableList == SearchTables \/ ListProgress
GetRecordCrossmatch == GetProcessedRecord \/ ConvertRecord \/ ResolveTableName \/ FetchRawData
                       \/ RawDataFails \/ QueryCandidates
TapTables == ListTables \/ ListColumns

Next ==
    \/ Change
    \/ Count
    \/ (\E req \in Requests : Send(req)) \/ Return \/ StatementFails
    \/ GetRecords
    \/ GetTable
    \/ GetTableList
    \/ GetRecordCrossmatch
    \/ TapTables

Spec == Init /\ [][Next]_vars

-------------------------------------------------------------------------------
(* Properties *)

CatalogCounts == [structured : SUBSET Records, in_layer2 : SUBSET Records,
                  layer2_pending : SUBSET Records]
Counts == [total : SUBSET Records, unprocessed : SUBSET Records, pending : SUBSET Records,
           resolved : SUBSET Records, submitted : SUBSET Records,
           catalogs : [Catalogs -> CatalogCounts]]

DataTyped ==
    /\ name \in [Tables -> Names \cup {None}]
    /\ rawRows \subseteq Records /\ registered \subseteq Records
    /\ crossmatch \in [Records -> Results \cup {None}]
    /\ pgc \in [Records -> Pgcs \cup {None}]
    /\ layer1 \in [Catalogs -> SUBSET Records]
    /\ layer2 \in [Shown -> SUBSET Pgcs] /\ modified \in [Shown -> SUBSET Pgcs]

SnapshotTyped == DOMAIN snapshot \subseteq Names /\ \A n \in DOMAIN snapshot : snapshot[n] \in Counts

CallTyped == (call.at = "idle" <=> call.req = None) /\ call.moves \in 0..2

\* The database keeps its types, and the cache holds counts under names of tables.
TypeOK == DataTyped /\ SnapshotTyped /\ CallTyped

\* The catalog values of a row of get_records are those of its own record, though
\* each catalog is read by a statement of its own, and zip never runs short.
RowsAligned == call.req # None /\ call.req.kind = "records" =>
    /\ call.at # "unequal"
    /\ call.at = "answered" =>
           \A c \in Shown : \A i \in DOMAIN got.rows : got.cats[c][i] \in {got.rows[i].id, None}

Accounts(p) ==
    /\ p.total = UNION {p.unprocessed, p.pending, p.resolved, p.submitted}
    /\ {} = p.unprocessed \cap (p.pending \cup p.submitted)
    /\ {} = (p.unprocessed \cup p.pending \cup p.submitted) \cap p.resolved
    /\ \A c \in Catalogs : p.catalogs[c].in_layer2 \cup p.catalogs[c].layer2_pending
                              \subseteq p.catalogs[c].structured

\* The stages of the funnel of get_table_progress account for every record of the
\* table; only a record whose result turned pending after its number, or between the
\* precondition of the assignment and its locks, is in two: submitted and pending.
ProgressAccounts ==
    /\ \A n \in DOMAIN snapshot : Accounts(snapshot[n])
    /\ call.req # None /\ call.req.kind = "table" /\ call.at = "answered" => Accounts(got.progress)

\* A record the table statistics have counted stays counted, under one name or
\* another: a refresh that fails keeps the last snapshot.
CountedStayCounted ==
    [][\A n \in DOMAIN snapshot :
           snapshot[n].total \subseteq UNION {snapshot'[m].total : m \in DOMAIN snapshot'}]_vars

\* The columns and the identifier in an answer of get_table are of one table, and so
\* are the schema and the rows in an answer of get_records, which may lack the
\* columns: for another mixture the requested name itself must change hands twice
\* between the statements of the request, whatever other tables are created or renamed.
OneTablePerAnswer ==
    call.at = "answered" /\ call.moves < 2 =>
        /\ call.req.kind = "table" => got.columns = got.table
        /\ call.req.kind = "records" => got.columns \in {got.table, None}

\* get_record_crossmatch raises an error of its own on a record with a result only when no
\* catalog has it; and an answer that names a table has the record's raw row, unless that
\* table was renamed meanwhile: a swallowed failure is told by the missing name.
CrossmatchAnswered ==
    [][LET r == call.req.record IN
       /\ At("crossmatch", "layer1") /\ call'.at = "failed" => \A c \in Shown : r \notin layer1[c]
       /\ At("crossmatch", "raw") /\ call.moves = 0 /\ call'.at # "raw" =>
              got'.table = None \/ got'.data = {r} \cap rawRows]_vars

-------------------------------------------------------------------------------
(* The inductive invariant behind these properties *)

NamesApart == \A t, u \in Tables : name[t] = name[u] /\ name[t] # None => t = u
RecordsNamed == \A r \in registered \cup rawRows : name[Home[r]] # None
NumbersFollow == \A r \in Records : pgc[r] # None => crossmatch[r] # None
DataFits == DataTyped /\ NamesApart /\ RecordsNamed /\ NumbersFollow

CatalogAccounts(v) == v \in CatalogCounts /\ v.in_layer2 \cup v.layer2_pending \subseteq v.structured
Sound(v) == v \in Counts /\ Accounts(v)
CountedIn(f) == UNION {f[n].total : n \in DOMAIN f}

\* A counting under way holds sound counts of records the table has, and one of the cache
\* has those the snapshot counts once its first statement is through.
JobFits == job = NoJob \/
    /\ job = [for |-> job.for, names |-> job.names, left |-> job.left,
              funnel |-> job.funnel, rows |-> job.rows]
    /\ job.for \in {"cache", "request"} /\ job.names \subseteq Names
    /\ job.rows = [c \in Catalogs |-> job.rows[c]]
    /\ \A n \in DOMAIN job.funnel : Sound(job.funnel[n]) /\ job.funnel[n].total \subseteq registered
    /\ \A c \in Catalogs : \A n \in DOMAIN job.rows[c] : CatalogAccounts(job.rows[c][n])
    /\ DOMAIN job.funnel \subseteq Names /\ \A c \in Catalogs : DOMAIN job.rows[c] \subseteq Names
    /\ job.for = "cache" /\ "funnel" \notin job.left =>
           CountedIn(snapshot) \subseteq CountedIn(job.funnel)

CountsFit ==
    /\ DOMAIN snapshot \subseteq Names
    /\ \A n \in DOMAIN snapshot : Sound(snapshot[n]) /\ snapshot[n].total \subseteq registered
    /\ JobFits

\* What a request has read fits its rows, whose number stays, and is of its record.
AskedFor(kind) == call.req # None /\ call.req.kind = kind
OfRow(c) == /\ got.cats[c] = [i \in DOMAIN got.rows |-> got.cats[c][i]]
            /\ \A i \in DOMAIN got.rows : got.cats[c][i] \in {got.rows[i].id, None}
RowsFit == AskedFor("records") =>
    /\ call.at # "unequal"
    /\ DOMAIN got.rows = 1..Len(got.rows) /\ Len(got.rows) \in Nat
    /\ call.at \in {"catalogs", "answered"} => got.cats = [c \in Shown |-> got.cats[c]]
    /\ call.at = "catalogs" => \A c \in Shown \ call.left : OfRow(c)
    /\ call.at = "answered" => \A c \in Shown : OfRow(c)

\* A table that was found under the requested name has it, or nobody has since a first move.
Still(t) == t \in Owner(call.req.name) \/ (call.moves = 1 /\ ~Found(call.req.name))
TableFits == call.moves < 2 /\ AskedFor("table") =>
    /\ call.at = "columns" /\ call.moves = 0 => Found(call.req.name)
    /\ call.at \in {"info", "again"} => Still(got.columns)
    /\ call.at \in {"progress", "counting", "answered"} => got.columns = got.table
SchemaFits == call.moves < 2 /\ AskedFor("records") =>
    /\ call.at = "read" /\ "records" \notin call.left /\ "columns" \in call.left => Still(got.table)
    /\ call.at = "read" /\ "records" \in call.left /\ "columns" \notin call.left =>
           got.columns = None \/ Still(got.columns)
    /\ call.at = "read" /\ call.left \cap {"records", "columns"} = {} =>
           got.columns \in {got.table, None}
    /\ call.at \in {"catalogs", "answered"} => got.columns \in {got.table, None}
ProgressFits == AskedFor("table") /\ call.at = "answered" => Accounts(got.progress)
RecordFits == AskedFor("crossmatch") =>
    /\ call.at \in {"layer1", "resolve", "raw"} => call.req.record \in registered
    /\ call.at = "raw" /\ call.moves = 0 => got.table = name[Home[call.req.record]]

CallFits ==
    /\ call = [req |-> call.req, at |-> call.at, left |-> call.left, moves |-> call.moves]
    /\ got = [rows |-> got.rows, cats |-> got.cats, table |-> got.table, columns |-> got.columns,
              data |-> got.data, progress |-> got.progress]
    /\ CallTyped /\ call.req \in Requests \cup {None}
    /\ RowsFit /\ TableFits /\ SchemaFits /\ ProgressFits /\ RecordFits

IInv == DataFits /\ CountsFit /\ CallFits
===============================================================================
