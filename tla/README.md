# A TLA+ model of the HyperLEDA database application

HyperLEDA collects astronomical catalogues into one database of galaxies. The
application in `app/` is an admin API that takes tables in and decides which of
their rows are the same object, a set of scheduled tasks that aggregate what is
known about each object, and a data API that serves the result. All of it works
on one PostgreSQL database; none of it shares memory across processes.

This directory holds TLA+ modules of the parts where several writers meet, the
TLC configurations that check them and proofs, checked by TLAPS, of what matters
most about them. `PROJECT.json` relates every definition to the lines it models.

## The system

| Part | State | Operations | Meets |
|---|---|---|---|
| Crossmatch and PGC assignment (`adminapi/domain/crossmatch.py`, `pgc.py`, `layer0/records.py`) | `layer0.records.pgc`, `layer0.crossmatch`, `common.pgc` and its sequence | store crossmatch results, assign numbers to records, merge objects | itself; the import tasks through `common.pgc.modification_time` |
| Layer 1 writer (`layer1_write.py`, `layer1.py`) | `<catalog>.data`, one or more rows per record | save structured data, touch the objects of the records | assignments and merges of the same records; the import tasks |
| Layer 2 import (`tasks/layer2_*.py`, `layer2/repository.py`) | `layer2.<catalog>`, one row per object; `layer2.last_update` | read changed objects in batches, aggregate, save, remove orphans, set the last update | all writers of layers 0 and 1; other runs of itself |
| Orphan cleanup (`tasks/layer2_orphan_cleanup.py`) | the same | scan all catalogs, delete | the import tasks |
| Table upload (`adminapi/domain/table_upload.py`, `layer0/tables.py`) | raw tables, `layer0.tables`, `layer0.records` | create, patch, rename a table, add rows | itself; workers on other connections |
| Storage (`lib/storage/postgres`) | a pool of connections, a connection per thread | run a statement, open a transaction | everything |
| ErrorGroup (`lib/concurrency/errorgroup.py`) | threads and the first error | run, wait, result | table upload, schema and progress queries |
| Table statistics cache (`adminapi/cache`) | the last snapshot, a thread, a stop event | refresh, get, close | table lists |
| Authentication (`lib/auth`, `adminapi/domain/auth.py`) | users, tokens | register, login, logout, authenticate | the database trigger that limits tokens |
| Action audit (`middlewares/action.py`, `lib/audit`) | the action log | record a request | every audited route |
| Commands and tasks (`lib/commands`, `tasks/flows.py`) | resources opened by `prepare` | prepare, run, cleanup | cache, storage |
| Record and table listings (`table_upload.py`, `crossmatch.py`, `layer0/records.py`, `tables.py`) | none | records, tables with their progress, the crossmatch result of a record | all writers of layers 0 to 2; the statistics cache |
| Data API (`dataapi/`, `layer2/filters.py`) | one schema object that all requests share | validate and translate a query, read the catalogs in parallel, respond | layer 2 |

What makes these parts correct, and what is hard about them, is the list of
hazards in `PROJECT.json`: the READ COMMITTED transactions of the handlers see
each other between statements; row locks are taken in no fixed order;
`modification_time` is the time a transaction began and not the time it
committed; the import tasks share neither locks nor transactions with anybody and
may die at any statement; an answer of several statements sees the database at
several moments; and the threads of a process share one pool of connections.

## Modules

| Module | Models | Used by |
|---|---|---|
| `RecordAssignment` | crossmatch results, assignment and merge, statement by statement | `MCRecordAssignment`, `RecordAssignmentProofs` |
| `PgcLedger` | what readers of committed data may rely on: numbers change in atomic batches | refined by `RecordAssignment` |
| `Layer2Import` | the import tasks, the orphan cleanup task and the commits they race | `MCLayer2Import`, `Layer2ImportProofs` |
| `TableUpload` | creating, patching, renaming and filling tables | `MCTableUpload`, `TableUploadProofs` |
| `DataApiQuery` | `/v1/query/simple`: validation, filters and joins, pages, the parallel reads | `MCDataApiQuery`, `DataApiQueryProofs` |
| `FilterTrees` | the methods of the filters as recursions over their parts | `MCDataApiQuery` |
| `RecordBrowser` | the listings of the admin API, the progress counters and their cache | `MCRecordBrowser`, `RecordBrowserProofs` |
| `AdminRequests` | a request between authentication and audit; accounts and tokens | `MCAdminRequests`, `AdminRequestsProofs` |
| `AdminProcess` | a process of a web command: the pool, its threads, the refresher | `MCAdminProcess`, `AdminProcessProofs` |
| `RecordAssignmentProofs`, `Layer2ImportProofs`, `TableUploadProofs`, `AdminRequestsProofs`, `AdminProcessProofs`, `RecordBrowserProofs`, `DataApiQueryProofs` | theorems about the module of the name | |

The modules meet in the database. What one of them takes apart, another has as one
step: `RecordAssignment` is the commits of an edit in `Layer2Import` and a change of
data in `AdminRequests`; `TableUpload` and `Layer2Import` are such steps of
`RecordBrowser`; and the reads of `RecordBrowser` are the plain statements of
`AdminProcess`.

### RecordAssignment

Each member of `Requests` is one call of a handler, with an input from `Menu`
that passes the validators of the request models. A call is served in one
transaction (`with_tx`), and a step of the module is one SQL statement of it, or
the lock of one row where a statement may wait row by row.

| Code | Module |
|---|---|
| `set_crossmatch_results`: an upsert per row | `ReceiveCrossmatch`, `UpsertRow`, `CommitCrossmatch` |
| `assign_record_pgcs`: the precondition query, read without locks | `AcceptAssign`, `RejectAssign` |
| `FOR UPDATE OF c, r` | `LockForUpdate`, a row at a time and in any order |
| `existing_rows`, `new_rows`, `_mint_pgc_ids`, the UPDATE | `UpdateRecords`; `FailUpdate` when the foreign key fails |
| `merge_pgcs`: existence check, UPDATE, its rows | `ReceiveMerge`, `ScanMerge`, `MoveRow` |
| `touch_pgcs`, COMMIT | `TouchRow`, `Commit` |
| deadlock detector, lost connection | `DeadlockAbort`, `ConnectionLost` |

An UPDATE at READ COMMITTED names its rows by the snapshot of the statement and
tests each row again once it has the lock; `ScanMerge` and `MoveRow` are these two
moments. Uncommitted writes (`writes`, `minted`) are seen by nobody else and are
dropped by `End`. A sequence is not rolled back, so `FailUpdate` advances
`pgcSeq`. `clock` counts transactions: `NOW()` is the start of the transaction.
Crossmatch rows are a triage status and a list of candidates; whether a record is
new, existing or collided is read off the number of candidates, as the code does.

### PgcLedger

Two kinds of step on `layer0.records.pgc` and `common.pgc`: a batch of records
without a number receives numbers, each either registered before or registered
now for exactly one record; or records that have a number move to one registered
target. `RecordAssignment` implements it with the registry as the domain of
`modTime`.

### Layer2Import

A run of an import task reads the last update of its catalog, pages through the
objects modified after it, saves each batch in one transaction, looks for
orphans, deletes them and sets the last update. Every one of these is a step,
and `Crash` may come between any two. The writers are transactions that begin
(fixing `NOW()`) and commit; `SaveRow` and `ScanMerge` are the reads a save and a
merge act on later. An aggregate is represented by the set of rows it is computed
from, without the compilations that `exclude_compilations_with_primary` drops:
the row of layer 2 is stale exactly when these sets differ.

`missed` is a history variable: the objects whose last change the import will not
notice, noted at the step that makes them so. `LastUpdateAccounts` says that there
are no others. It is the property the incremental import rests on, and its
exceptions are a precise list of the ways to lose an update:

1. a commit whose modification time is not after the last update, because the
   transaction began before the run set it, or because nothing was touched;
2. a commit after a run has read the object and before the run ends;
3. objects left out by the `since` or `cleanup_orphans` parameters;
4. rows the orphan cleanup task deletes from catalogs where they are no orphans.

### TableUpload

A table is two things that share a name: a row of `layer0.tables` and a relation
of schema `rawdata`. A row of its data is two things that share an id: a row of
that relation and a row of `layer0.records`. The handlers find each side by the
name, at moments of their own. The module names relations by the id of the table
they were created with, so that `registered[t] = relation[t]` says that the two
sides of table `t` agree.

| Code | Module |
|---|---|
| `create_table`: bibliography, the look at the registry before the transaction | `ReceiveCreate`, `CheckTable` |
| INSERT INTO `layer0.tables`, CREATE TABLE | `InsertTable` / `InsertFails`, `CreateRelation` / `CreateFails` |
| `patch_table`: the two checks before the transaction | `FetchMetadata`, `IsNameTaken` |
| `update_table_status` | `FindForUpdate`, `SetStatus` |
| `rename_raw_table` | `LookUpTable`, `LockRelation`, `RenameRelation`, `RegisterName` and their failures |
| end of `with_tx` | `Commit`, `Fail` |
| `add_data`: worker `insert_raw_data` | `InsertRawData`, `InsertRawFails` |
| worker `register_records` | `FindRegistry`, `RegisterRecords`, `FindRegistryFails` |
| `ErrorGroup.wait` | `Waited`, `FirstError`, `EndAdd` |

`create_table` and `patch_table` write at `Commit` what their statements have
prepared, because nobody sees it before; what others do see is the keys they hold
(`locks`). Of PostgreSQL the module takes: a unique key and a name in the catalog
are held by the transaction that writes them until it ends, and a second writer
waits and then fails; `ALTER TABLE` finds the relation when the statement starts
and looks the name up again when it has its lock, so it alters the relation that
carries the name *then*; `executemany` outside a transaction sends its rows as one
pipeline, which commits as a whole, so an upsert of a worker is one step; an
insert into `layer0.records` waits for a change of the key it refers to. The
worker threads have no thread-local transaction, so they commit on their own
connections whatever the transaction of `add_data` does, which therefore has no
variables here.

`NamesAgree` and `RecordIsLocated` are conditional, and their conditions are the
content: each names the call that is to blame. Two names of a table differ only
if a finished rename found one table in the registry and altered the relation of
another, and then only for these two tables. A record without its raw row belongs
to an upload that is unfinished, failed or found two tables; a raw row without any
record to one that is unfinished or failed. An upload that
was answered has both, so a client that repeats a failed upload gets what was missing.

### DataApiQuery

A client sends the parameters of a query and walks through its pages. A list of
numbers is answered by one worker per catalog (`QueryCatalog`, on its own
connection, at its own moment) and put together by `Collect`; anything else by one
statement (`Search`). The response names the units of velocities in a schema object
that all requests of the process share (`velocityUnits`), and is serialized (`Send`)
after it has been built. `Save` and `RemovePgc` are the import tasks, one row and one
catalog at a time. A page of numbers is a slice of Python (`Slice`, `Bound`), which
takes any page size and counts from the end with one below zero: the walk then lacks
the last numbers, which `WalkComplete` says exactly. A search with such a size is an
error of its LIMIT (`SearchError`).

The filters are the pure part. `Holds`, `Mentions` and `Drives` are what one filter's
`get_query`, `tables_in_query` and `driving_table` make of the answers of its parts:
whether a joined row meets the condition, which tables it mentions, which table it is
strict on. Their recursions over a tree are in `FilterTrees`, apart, since the prover
does not take recursive operators: `DataApiQuery` has the operators `Matches`,
`TablesOf`, `DrivingTable` and `Height` as constants and knows of them the equations
`FiltersUnfold` and `MatchesUnfold`. Every configuration gives them the recursions for
values, so that TLC evaluates the equations on all the trees it uses.

A row of a join has a value or NULL (`None`) for each table: NULL for a table the
object is not in and for one the statement does not join, which no filter then accepts.
`Matching` is the statement with its LEFT JOINs onto the driving table, and
`DrivingJoinEquivalent` compares what it finds with a FULL JOIN of all tables, for
every leaf, pair and nested pair of filters. `Keyed` is the primary key the tables of
layer 2 have and the views have not. `held`, `stable` and `quiet` are history variables
of the properties.

### RecordBrowser

| Code | Module |
|---|---|
| `get_table_progress`: the funnel, one statement a catalog, the merge by table name | `ReadFunnel`, `ReadCatalog`, `Merged` |
| `BackgroundCache` | `StartRefresh`, `Publish`, `RefreshFails`, `KeptSnapshot` |
| `get_records`: the workers, the catalogs, `zip(strict=True)` | `FetchRecords`, `SchemaInfo`, `SchemaColumns`, `PartFails`, `ReadCatalogs`, `GetCatalogRecords`, `ZipRecords` |
| `get_table` | `ReadRegistry`, `ReadColumns`, `ReadTableMetadata`, `ReadRegistryAgain`, `CachedProgress` or `CountProgress` and `FreshProgress` |
| `get_table_list` | `SearchTables`, `ListProgress` |
| `get_record_crossmatch` | `GetProcessedRecord`, `ConvertRecord`, `ResolveTableName`, `FetchRawData` or `RawDataFails`, `QueryCandidates` |
| any statement or connection that fails | `StatementFails` |
| `list_tables_with_columns` | `ListTables`, `ListColumns` |
| the writers, a commit each | `Change` |

A number the code counts is here the set of the records it counts, so that
`ProgressAccounts` can say which records are in two stages of the funnel: those whose
crossmatch result turned pending after their number or while it was given, and no
others. `call.moves` counts the moves that concern the request (`Concerns`): of the
requested name, from a table or to one, and of the table of the requested record. One
in the middle of an answer shows as an error or a missing part, and only two as a
mixture of two tables (`OneTablePerAnswer`); moves of other names do not matter.

Any statement may fail, and the request with it, but for the read of the raw row in
`get_record_crossmatch`: that exception is swallowed and the answer is given without the
row. `CrossmatchAnswered` says that the client can tell, since the answer then names no
table. Two simplifications do not reach the properties: a refresh and the counting of a
request take turns (`job`), though the code runs them side by side on statements of
their own; and an assignment does not ask for the triage status at all, which the code
reads before it has its locks and which may have changed when it commits.

### AdminRequests

A request goes through the middlewares in their order: `Authenticate` looks the token
up, a handler runs, `Answer` is the response an exception becomes, `RecordAction` or
`RecordFails` the audit on another connection. `register`, `login` and `logout` are
taken apart (`EnsureAvailable`, `RegisterInsert`, `RegisterCommit`; `LoginCheck`,
`LoginInsert` with the trigger of migration V043, `LoginCommit`); the handler of any
other change commits something and then succeeds or fails. `Routes` is the table of
routes with what the server asks of each. Roles are not modelled beyond `Forbid`: an
identified user may be refused by a secured route for the role it has or is read with.
The name of a user and of its database role are one, though `CREATE ROLE` would cut a
name of more than 63 bytes. The clock moves by `Tick` and by the time a
login takes; `Crash` ends all requests of the process.

### AdminProcess

`stage` is where `lib.commands.run` is. The pool establishes connections in threads
of its own, as long as it is open (`Establish`), and each knows the database type of
roles only if that was registered before. A thread asks for a connection to format a
statement for the log and gives it back (`Format`), asks again to run it (`Acquire`),
and an upload then waits with its connection for two workers that ask for two each.
`loop` is `BackgroundCache.run`: a refresh that is late is waited for all the same,
since leaving the `with` block of its executor waits for it. `Cleanup` sets the stop
event and closes the pool without joining the thread. A TAP query runs read only on the
connection it gets, in the admin API on the pool that all writers share
(`ReadOnlyReturned`). The thread of the event loop, which takes a connection for a
moment to authenticate or to record an action, is one more handler here, and the two
pools of the data API are one.

## Runs

| Run | Instance | Shows |
|---|---|---|
| `assignment_pairs` | 2 calls, all inputs, 2 records, every earlier crossmatch row, fairness | what a number may become and why, the touch of both objects, no orphan object, the refinement of `PgcLedger`, every received call ends |
| `import_edits` | 1 process, 2 runs, 2 edits of any kind, batches of one object | `LastUpdateAccounts` with crashes and parameters |
| `import_tasks` | 2 processes and the cleanup task, 2 catalogs, 1 edit, fairness | `LastUpdateAccounts` side by side; tasks end |
| `table_upload` | 3 calls of any kind around a whole table, beside two an earlier rename has split, fairness | names and rows agree but for the named exceptions; every call ends |
| `data_api_pages` | 2 clients, 8 queries, 3 objects, one change | answers within the history, complete walks, the driving join, the shared schema |
| `record_browser` | 3 records, 3 tables, 2 changes, 1 refresh, 1 request of any kind, of which any statement may fail | rows aligned, a funnel that adds up, one table per answer, nothing counted is lost |
| `admin_requests` | 3 requests of any kind, one user, a foreign role, a crash | audit, tokens, accounts |
| `admin_process` | 2 handlers with 2 workers each, 3 connections, both commands, fairness | no convoy at the pool, connections apart, an orderly refresher |
| `import_misses_late_commit` | 2 runs, 1 edit | an update lost for good |
| `sweep_removes_live_row` | the cleanup task after 2 edits | a live row deleted by the cleanup task |
| `rename_moves_two` | 3 calls: two renames of a name and its creation | a rename that gives its name to the registry row of one table and the relation of another |
| `combined_search_fails` | 1 client, 1 search of two conditions | a search by name around a centre that is answered with an error |

The last four are disagreements between the code and what its documents say, each
quoted under `findings`. Weaker ones have no run of their own. Some show as the
exceptions of a property that holds:

- an assignment may leave out records that turned collided, or that another call
  took, after its precondition was read (`AllAssignedUnlessCollided`);
- a modification time may turn back, a datatype may change without a touch, and the
  import may delete a row that came back to life between its scan and its delete
  (`LastUpdateAccounts`);
- two concurrent logins may leave more tokens active than the limit until a login
  that runs alone (`SolitaryLoginPrunes`);
- a change may be answered with an error although it committed, or stay without a
  record when the process dies (`AuditAccounts`);
- a record with a crossmatch result and no structured data is a server error
  (`CrossmatchAnswered`).

Others follow from the models but contradict no document: two opposite merges at the
same time exchange the records of their objects and leave records in a source; a
connection the admin API's pool opens before the type of roles is registered reads
roles as plain strings and its requests are refused; an interrupted process does not reach its cleanup; the pages
of a search by name have no order; with a page size of -k the pages of a list of numbers
lack the last k of them (`WalkComplete` has this exception); an identical upload under
a name that was freed by a rename takes the records over from the renamed table
(`TableUpload` has it; in `Layer2Import` the table of a record is fixed).

**Bounds.** Two records are enough for a batch that is half one thing and half
another, two numbers for a merge and its opposite. Calls, edits and runs are served
once each, so their number bounds the behaviours; the theorems lift that bound where
there are any. The two-catalog instances give the cleanup task an object that is an
orphan in one of them only. In `TableUpload` three calls are what a name needs to
change hands twice during one of them, three names what a rename needs to meet
another's target, and three ids are left for creations; the two tables that start split
(`SplitBefore`, as `rename_moves_two` reaches them) are where `CREATE TABLE` can fail,
which from whole tables takes a fourth call; an upload holds one row, since rows of an
upload share their fate. Batches hold one object so that a run takes
several. In `DataApiQuery` pages hold one or two of three objects, so that every walk
has several, and once a size below zero; distances stop one step beyond the radius, the first that is outside; one
change falls between any two reads. In `RecordBrowser` the two changes (`MaxEdits`)
make a rename and a creation, or an assignment and a new crossmatch result, during one
request (`MaxCalls`) and one refresh (`MaxRefreshes`); an assignment takes one record,
an upload one row. `AdminRequests` needs three requests for two concurrent logins and
what they displace, with a limit of two tokens (`TokenLimit`) and a clock that ends at
three (`MaxClock`); one crash (`MaxCrashes`) is one for each request. `AdminProcess`
has no bound on its behaviours: threads begin again, and the pool has one connection
more than handlers, the least the proof needs. All calls (edits, runs) being used up
is the end of a behaviour, hence `CHECK_DEADLOCK FALSE`; a real wait for ever shows in
the liveness properties.

**Fairness.** `RecordAssignment` assumes weak fairness of each open transaction: its
thread runs, PostgreSQL grants a free lock and its deadlock detector wakes up. Nothing
is assumed of clients. `TableUpload` assumes the same of each call. `Layer2Import`
assumes that a task that was started takes its next step unless it dies. `AdminProcess`
assumes that the refresher's threads run and that the database answers them. No run
assumes that a task is started, that a curator commits or that a server ends.

## Proofs

`RecordAssignmentProofs` proves for every set of records, calls and inputs
`Spec => []IInv` and from it the type invariant, the foreign key, the exclusive
minting, `NoOrphanObject`, the four action properties and the refinement of
`PgcLedger`. The assumptions are the named ones of `RecordAssignment`: finitely many
records, NULL is no value, inputs pass the validators, the sequence starts above the
registered numbers.

None of the properties is inductive alone. That an assignment commits what the
crossmatch rows ask for depends on the locks taken three steps earlier: so `IInv` says
which rows a transaction at each stage holds (`LocksHeld`), that no two hold the same
(`LocksExclude`), and that what a transaction has written agrees with the committed
tables of the rows it holds (`AssignmentIsCurrent`, `MergeIsCurrent`,
`MintedIsDrawn`). Another transaction's commit writes only rows that transaction
holds, so it disturbs none of it; `OnlyCommitWrites` and `CommitOfRecord` are the
lemmas that carry this to the action properties. An object stays without a record only
if a merge took the last one: `NoOrphanObject` is kept because a number once given
changes by the commit of a merge only, and because that merge has then ended.

`Layer2ImportProofs` proves `Spec => []IInv` for any jobs, runs, edits and catalogs,
hence `TypeOK` and `LastUpdateAccounts`, which the runs check with two processes at
most. The argument follows an object through a run. `HeldIsCurrent`: what a task
carries between two statements, a batch or a list of orphans, agrees with the present
rows, or the object is noted as late. `SeenIsAccounted`: an object the run has passed
that changed since the last update is aggregated, about to be saved or removed, or
noted; the end of the run turns this into `LastUpdateAccounts`, which also needs that
the run began no later than the last update it replaces (`RunTimes`). A commit disturbs
none of it, since it notes what it changes (`EditNotes`), nor does another task, since
it leaves fresh rows or noted ones behind (`OthersKeep`). That paging skips no object is
`BatchTakesFirst`, for any size of a batch. The assumptions are the named ones of
`Layer2Import`: the numbers of objects are positive and finitely many, a batch takes at
least one, plans list catalogs, earlier tables have their types.

`TableUploadProofs` proves `Spec => []IInv` for every set of names, tables, inputs and
calls, hence `TypeOK`, `NamesAgree` and `RecordIsLocated`. Neither agreement is
inductive alone. `StageFits` ties a stage to the kind of call that can reach it,
`Found` says that what a later statement uses was found by an earlier one (a creation
at its commit has one table and its own relation), and `WorkersCommitted` keeps what
the workers wrote: rows are never deleted and records never unregistered. `Persists`,
`SharedFrame` and `UploadSteps` are the lemmas behind the steps: what a finished call
has found no longer changes, names are given by `Commit` only, and each worker's write
is one action. `OnlyRenamesMoveNames` needs a second invariant, `MovesInv`: a name that
no split and no ended rename concerns is that of both sides of one table
(`NamesFollow`), and what a call has found by it is there (`CallsFollow`). A creation
keeps this since its id is nobody else's and its name is locked in the registry
(`IdsAreFresh`, `LocksApart`); a rename replaces moved names by moved ones
(`NameSteps`), even when the table it looked up was renamed behind its back. The
assumptions are the named ones of `TableUpload`: NULL is no name and no id, ids are
numbers and later ones unused, inputs pass the validators, names of earlier tables
differ. No assumption bounds the calls or the names.

`AdminRequestsProofs` proves `Spec => []IInv` for every set of requests, users, tokens
and limits, hence `TypeOK`, `AuditAccounts`, `HandledWithToken`,
`RegisteredWithRole` and `SolitaryLoginPrunes`. That a handler ran for a valid token depends on the moment the
request was sent: `TokenFits` keeps that a token which waits with its request exists
and only loses its validity (it expires, is revoked or displaced, and nothing brings
it back). That no two users share a name needs what the unique keys exclude:
`KeysFit` says that registrations which have inserted differ from the users and from
each other. `LogFits` ties the log and the changes to the stages in which they are
written. `SolitaryLoginPrunes` needs a second invariant, `LoginInv`. The trigger keeps
the tokens that fewer than `TokenLimit` others outlive, which is no more than that many
only if no two expire at the same time (`TriggerKeepsFew`: how many others outlive a
token is then a different number for each). `ExpiriesFit` says so of all tokens and of
the logins that are still to insert theirs, because a login takes its expiry from a
clock that advances with it (the LIMIT of the code would cut equal expiries at the same
number). Between the trigger and the commit, `AloneFits` keeps that
a login marked as alone is its user's only one that inserts, so that nobody else can
add an active token: a second login that inserts takes the mark away. The assumptions
are the named ones of `AdminRequests`; this proof alone uses that tokens are finitely
many (`TokensAreFinite`) and that the limit is a number (`LimitIsNatural`).

`DataApiQueryProofs` proves `Spec => []IInv` for any numbers of objects, clients,
queries, filters and page sizes, any contents of the tables and any number of changes,
hence all that the run `data_api_pages` checks: `TypeOK`, `AnswerWithinHistory`,
`WalkComplete`, `SchemaCoversVelocities` and `DrivingJoinEquivalent`.

- The driving join is a fact about filters (`DrivingTableIsStrict`): a row that meets a
  filter has a value in its driving table. The prover has no induction over trees, so
  the argument takes a filter of least `Height` for which this fails and finds a smaller
  one among its parts. What the LEFT JOINs leave out is thus what the FULL JOIN finds
  and the filter rejects.
- `WalkComplete` rests on the enumeration of a finite set in a strict total order
  (`Enumeration`: as many elements come before the one at place i as i - 1), used for the
  sorted numbers, the first places of repeated catalogs and the rows by distance. Around
  a centre, an object of the search has one row (`Keyed`), so that the walk lists each
  once. `SeenSoFar` says that the pages seen are the beginning of the walk; `PagesFollow`
  and `PagesEnd` are the step to the next page and the meaning of an empty one.
- `ReadSoFar` follows the workers: what was there since the page was asked and belongs
  to a catalog that was read has been read. `HistoryFits` is what a change of the tables
  keeps of the histories, and `UnitsReady` ties an answer that waits to be serialized to
  the shared schema, which only grows.

The assumptions are the named ones of `DataApiQuery`: finitely many objects with
numbers, page sizes that are integers, NULL is no value, the equations of the
filters. That there are operators which satisfy the equations for every set of finite
trees is the recursion of `FilterTrees`, which only TLC evaluates.

`AdminProcessProofs` proves `Spec => []IInv` for any number of threads and any larger
pool, hence `TypeOK`, `ConnectionsApart`, `ReadOnlyReturned`, `OneRefreshAtATime`,
`RolesAreRead` and `NoConvoy`. `HeldFits` is the step the others rest on: a thread
that works holds one connection, any other none. `NoConvoy` then is counting: the
threads that wait with a connection are handlers, there are fewer handlers than
connections (the assumption `PoolIsLarger`, 40 and 50 in the code), so some connection
is free or with a thread that runs.

`RecordBrowserProofs` proves `Spec => []IInv` for any tables, catalogs, requests and
number of changes, hence all that the run `record_browser` checks: `TypeOK`,
`RowsAligned`, `ProgressAccounts`, `OneTablePerAnswer`, `CountedStayCounted` and
`CrossmatchAnswered`. `DataFits` is what the writers keep (no two tables of a name, a
number only after a crossmatch result), `JobFits` follows a counting from one statement
to the next: each of its groups is sound for the moment it was read, and the first
statement of a refresh has every record the snapshot counts, for records are never
unregistered. `CallFits` follows a request. `Still` is the key to `OneTablePerAnswer`: a
table that was found under the requested name has it, or nobody has since a first move,
so another table can answer to it only after a second; a move of other names leaves both
alternatives as they are (`NamesKeepCall`). The assumptions are the named
ones of `RecordBrowser`: records are finitely many numbers, each of one table; the first
database has no two tables of a name and no number without a crossmatch result; requests
and crossmatch results are of the types the API's models accept.

So every safety invariant and action property of the passing runs is proved for all
values of the constants. Model-checked only: the liveness properties, which need
ENABLED and fairness, and the equations of the filters just mentioned. The runs that
end in a violation are single behaviours and need no proof.

## Not modelled

The numeric content of catalogs (means, conversions of units and coordinates), the
text of SQL, HTTP and logging, the conversion of TAP answers to VOTable, configuration
and the wiring of the commands. Of the table upload: the columns, units and
descriptions that a patch may set (the datatype is set as the status is; descriptions
are comments on the relation, found by the name in one more statement), the lookup of
a bibcode at the ADS service and the invention of codes for unpublished sources. Of
the requests: passwords, the limit of the rate beyond its failure, and the truncation
of what is recorded. Of the listings: the search string, the statuses and the pages of
the list of tables, and a table that a rename has split (`TableUpload` has it). The
photometry, spectroscopy and kinematics catalogs are written as any other and have no
module. `upsert_pgc` and `register_pgcs` are used by tests only. A failing clock (the
workers' clocks against the database's) is left out: `Layer2Import` has one clock,
which makes the lost updates it finds independent of skew.

## What could follow

1. Pure algorithms with reference definitions: the majority vote and the exclusion of
   compilations, the codes of unpublished sources.
