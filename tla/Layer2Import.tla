----------------------------- MODULE Layer2Import -----------------------------
(***************************************************************************)
(* The layer 2 import tasks against the writers of layers 0 and 1.  A run  *)
(* aggregates, batch by batch, the objects whose modification time is      *)
(* after the last update of the catalog, removes the orphaned rows and     *)
(* moves the last update to the present.  It shares no lock and no         *)
(* transaction with the curators who assign, merge and save in the         *)
(* meantime, and it may die between any two of its statements.             *)
(*                                                                         *)
(* The edits are those of RecordAssignment and save_structured_data, each  *)
(* as the begin of its transaction, which fixes NOW(), and its commit.     *)
(* NOW() and the task's own clock are one clock.  A dry run writes nothing *)
(* and is left out.                                                        *)
(***************************************************************************)
EXTENDS Naturals, Sequences, FiniteSets

CONSTANTS Records,        \* layer0.records.id
          Pgcs,           \* common.pgc.id; a number without records is inert
          Catalogs,       \* the catalogs the tasks know
          Weighted,       \* those whose aggregation leaves compilations out
          Tables,         \* layer0.tables
          TableOf,        \* layer0.records.table_id, which an upload of the same row may move
          Values,         \* what a row of layer 1 may hold
          None,
          Edits,          \* curators' transactions, each used once
          Jobs,           \* processes that run import tasks
          Plans,          \* catalog lists a task may be started with
          Since,          \* since parameters, None for the last update
          Cleanup,        \* cleanup_orphans parameters
          MaxRuns,        \* bound: starts of a task by one process
          BatchSize,      \* objects fetched in a single query
          SweepOrder,     \* the catalogs of the orphan cleanup task, or <<>>
          InitialPgc, InitialLayer1   \* tables left by earlier sessions

VARIABLES recordPgc,      \* layer0.records.pgc
          layer1,         \* <catalog>.data by record
          datatype,       \* layer0.tables.datatype
          modTime,        \* common.pgc.modification_time
          clock,
          edit,           \* state of each curator's transaction
          layer2,         \* layer2.<catalog>: the rows a row was computed from
          lastUpdate,     \* layer2.last_update.dt
          job,            \* state of each import process
          runs,           \* starts so far
          sweep,          \* state of the orphan cleanup task
          missed          \* history: objects whose last change went unnoticed

sources == <<recordPgc, layer1, datatype, modTime>>
vars == <<recordPgc, layer1, datatype, modTime, clock, edit,
          layer2, lastUpdate, job, runs, sweep, missed>>

ASSUME PgcsPositive == Pgcs \subseteq Nat \ {0} /\ IsFiniteSet(Pgcs)
ASSUME BatchPositive == BatchSize \in Nat \ {0}
ASSUME RunsBounded == MaxRuns \in Nat
ASSUME NoneIsApart == None \notin Pgcs \cup Values \cup Nat
ASSUME SinceAreTimes == Since \subseteq Nat \cup {None}
ASSUME PlansListCatalogs == Plans \subseteq Seq(Catalogs) \ {<<>>}
ASSUME WeightedAreCatalogs == Weighted \subseteq Catalogs
ASSUME EveryRecordHasTable == TableOf \in [Records -> Tables]
ASSUME CleanupIsFlag == Cleanup \subseteq BOOLEAN
ASSUME SweepListsCatalogs == SweepOrder \in Seq(Catalogs)
ASSUME InitialTables ==
    /\ InitialPgc \subseteq [Records -> Pgcs \cup {None}]
    /\ InitialLayer1 \subseteq [Catalogs -> [Records -> Values \cup {None}]]

DataTypes == {"regular", "compilation"}

-------------------------------------------------------------------------------
\* The rows of layer 1 that belong to an object, and those its aggregation uses:
\* a compilation counts only when there is nothing else.
RowsOf(c, p) == {r \in Records : recordPgc[r] = p /\ layer1[c][r] # None}
Primary(S) == {r \in S : datatype[TableOf[r]] # "compilation"}
Used(c, p) ==
    IF c \in Weighted /\ Primary(RowsOf(c, p)) # {} THEN Primary(RowsOf(c, p))
    ELSE RowsOf(c, p)

\* A mean or a majority vote is a function of the rows it is taken over; an object
\* without rows has no aggregate.
Aggregate(c, p) == {<<r, layer1[c][r]>> : r \in Used(c, p)}

Orphaned(c) == {p \in Pgcs : layer2[c][p] # {} /\ RowsOf(c, p) = {}}

NoBatch == [p \in {} |-> {}]
IdleJob == [stage |-> "idle", plan |-> <<>>, since |-> None, cleanup |-> TRUE,
            dt |-> 0, offset |-> 0, batch |-> NoBatch, orphans |-> {}, late |-> {}]
IdleSweep == [stage |-> "idle", todo |-> <<>>, found |-> [c \in Catalogs |-> {}],
              late |-> {}]

\* What a run has read of its catalog so far.
Seen(j) == IF job[j].stage \in {"read", "save"} THEN {p \in Pgcs : p <= job[j].offset}
           ELSE IF job[j].stage \in {"orphans", "remove", "finish"} THEN Pgcs
           ELSE {}

Catalog(j) == job[j].plan[1]

Init ==
    /\ recordPgc \in InitialPgc
    /\ layer1 \in InitialLayer1
    /\ datatype \in [Tables -> DataTypes]
    /\ modTime = [p \in Pgcs |-> 1]
    /\ clock = 2
    /\ edit = [e \in Edits |-> [stage |-> "idle"]]
    /\ \/ /\ layer2 = [c \in Catalogs |-> [p \in Pgcs |-> {}]]
          /\ lastUpdate = [c \in Catalogs |-> 0]
       \/ /\ layer2 = [c \in Catalogs |-> [p \in Pgcs |-> Aggregate(c, p)]]
          /\ lastUpdate = [c \in Catalogs |-> 1]
    /\ job = [j \in Jobs |-> IdleJob]
    /\ runs = 0
    /\ sweep = IdleSweep
    /\ missed = [c \in Catalogs |-> {}]

-------------------------------------------------------------------------------
\* Curators' transactions. Committing one touches some objects with the time the
\* transaction began, which may turn their modification time back. Objects whose
\* changes no later run will read, because the modification time is not after
\* the last update or because a run has read them already, are noted.
Commit(e, touched, changed) ==
    LET noted == touched \cup changed IN
    /\ edit' = [edit EXCEPT ![e] = [stage |-> "done"]]
    /\ modTime' = [p \in Pgcs |-> IF p \in touched THEN edit[e].started ELSE modTime[p]]
    /\ missed' = [c \in Catalogs |->
                     missed[c] \cup {p \in noted : modTime'[p] <= lastUpdate[c]}]
    /\ job' = [j \in Jobs |-> [job[j] EXCEPT !.late = @ \cup (noted \cap Seen(j))]]
    /\ sweep' = [sweep EXCEPT !.late =
                    IF sweep.stage = "idle" THEN {} ELSE @ \cup noted]
    /\ UNCHANGED <<clock, layer2, lastUpdate, runs>>

BeginEdit(e) ==
    /\ edit[e].stage = "idle"
    /\ edit' = [edit EXCEPT ![e] = [stage |-> "open", started |-> clock]]
    /\ clock' = clock + 1
    /\ UNCHANGED <<sources, layer2, lastUpdate, job, runs, sweep, missed>>

\* save_structured_data has written rows of record r that FOR UPDATE waits for:
\* the foreign key of a new row holds the record.
Inserting(r) ==
    \E e \in Edits : /\ edit[e].stage = "saved" /\ edit[e].record = r
                     /\ layer1[edit[e].catalog][r] = None

\* assign_record_pgcs.
CommitAssign(e) ==
    /\ edit[e].stage = "open"
    /\ \E S \in SUBSET Records \ {{}} : \E given \in [S -> Pgcs] :
          /\ \A r \in S : recordPgc[r] = None /\ ~Inserting(r)
          /\ recordPgc' = [r \in Records |-> IF r \in S THEN given[r] ELSE recordPgc[r]]
          /\ Commit(e, {given[r] : r \in S}, {given[r] : r \in S})
    /\ UNCHANGED <<layer1, datatype>>

\* merge_pgcs: the UPDATE's snapshot names the records
ScanMerge(e) ==
    /\ edit[e].stage = "open"
    /\ \E target \in Pgcs : \E from \in SUBSET (Pgcs \ {target}) \ {{}} :
          edit' = [edit EXCEPT ![e] =
             [stage |-> "merging", started |-> edit[e].started,
              target |-> target, from |-> from,
              rows |-> {r \in Records : recordPgc[r] \in from}]]
    /\ UNCHANGED <<sources, clock, layer2, lastUpdate, job, runs, sweep, missed>>

\* and those that are still in a source when they are locked move.
CommitMerge(e) ==
    /\ edit[e].stage = "merging"
    /\ LET moved == {r \in edit[e].rows : recordPgc[r] \in edit[e].from} IN
          /\ recordPgc' = [r \in Records |->
                              IF r \in moved THEN edit[e].target ELSE recordPgc[r]]
          /\ Commit(e, {edit[e].target} \cup edit[e].from, {})
    /\ UNCHANGED <<layer1, datatype>>

\* save_structured_data upserts a row of layer 1 and reads the object of its record
SaveRow(e) ==
    /\ edit[e].stage = "open"
    /\ \E c \in Catalogs, r \in Records, v \in Values :
          /\ \A o \in Edits : edit[o].stage = "saved" =>
                edit[o].catalog # c \/ edit[o].record # r
          /\ edit' = [edit EXCEPT ![e] =
                [stage |-> "saved", started |-> edit[e].started,
                 catalog |-> c, record |-> r, value |-> v,
                 touches |-> {recordPgc[r]} \ {None}]]
    /\ UNCHANGED <<sources, clock, layer2, lastUpdate, job, runs, sweep, missed>>

\* before it commits.
CommitSave(e) ==
    /\ edit[e].stage = "saved"
    /\ layer1' = [layer1 EXCEPT ![edit[e].catalog][edit[e].record] = edit[e].value]
    /\ Commit(e, edit[e].touches, {recordPgc[edit[e].record]} \ {None})
    /\ UNCHANGED <<recordPgc, datatype>>

\* PATCH /v1/table with a datatype touches no object.
CommitDatatype(e) ==
    /\ edit[e].stage = "open"
    /\ \E t \in Tables, d \in DataTypes :
          /\ datatype' = [datatype EXCEPT ![t] = d]
          /\ Commit(e, {}, {recordPgc[r] : r \in {s \in Records : TableOf[s] = t}} \ {None})
    /\ UNCHANGED <<recordPgc, layer1>>

RollbackEdit(e) ==
    /\ edit[e].stage \in {"open", "merging", "saved"}
    /\ edit' = [edit EXCEPT ![e] = [stage |-> "done"]]
    /\ UNCHANGED <<sources, clock, layer2, lastUpdate, job, runs, sweep, missed>>

-------------------------------------------------------------------------------
\* Layer2ImportTask.run, or the run of one catalog's task: one catalog after the
\* other, each from its last update or from the parameter.
StartTask(j) ==
    /\ job[j].stage = "idle" /\ runs < MaxRuns
    /\ \E plan \in Plans, since \in Since, cleanup \in Cleanup :
          job' = [job EXCEPT ![j] = [IdleJob EXCEPT
                    !.stage = "next", !.plan = plan, !.since = since, !.cleanup = cleanup]]
    /\ runs' = runs + 1
    /\ UNCHANGED <<sources, clock, edit, layer2, lastUpdate, sweep, missed>>

\* Mutants: no row for the catalog; the query does not ask for the catalog.
LastUpdateMissing(c) == None
LatestUpdate(c) == CHOOSE t \in {lastUpdate[d] : d \in Catalogs} :
                      \A d \in Catalogs : lastUpdate[d] <= t
LastUpdateTime(c) == lastUpdate[c]

StartCatalog(j) ==
    /\ job[j].stage = "next"
    /\ job' = [job EXCEPT
          ![j].stage = "read", ![j].offset = 0, ![j].late = {},
          ![j].dt = IF job[j].since # None THEN job[j].since ELSE LastUpdateTime(Catalog(j))]
    /\ UNCHANGED <<sources, clock, edit, layer2, lastUpdate, runs, sweep, missed>>

\* _query_new_pgc_records: the next objects after the offset.
NewObjects(j) ==
    {p \in Pgcs : /\ p > job[j].offset /\ modTime[p] > job[j].dt
                  /\ RowsOf(Catalog(j), p) # {}}
FirstObjects(S) == {p \in S : Cardinality({q \in S : q <= p}) <= BatchSize}
\* Mutants: the offset is not changed, or jumps over an object.
OffsetStays(j, B) == job[j].offset
OffsetSkips(j, B) == 1 + CHOOSE p \in B : \A q \in B : q <= p
OffsetAfter(j, B) == CHOOSE p \in B : \A q \in B : q <= p

ReadBatch(j) ==
    /\ job[j].stage = "read" /\ NewObjects(j) # {}
    /\ LET B == FirstObjects(NewObjects(j)) IN
       job' = [job EXCEPT
          ![j].stage = "save",
          ![j].batch = [p \in B |-> Aggregate(Catalog(j), p)],
          ![j].offset = OffsetAfter(j, B),
          ![j].late = @ \ B]
    /\ UNCHANGED <<sources, clock, edit, layer2, lastUpdate, runs, sweep, missed>>

\* Layer2Repository.save, one transaction per batch.
SaveBatch(j) ==
    /\ job[j].stage = "save"
    /\ LET c == Catalog(j)
           batch == job[j].batch IN
          /\ layer2' = [layer2 EXCEPT ![c] = [p \in Pgcs |->
                           IF p \in DOMAIN batch THEN batch[p] ELSE layer2[c][p]]]
          /\ missed' = [missed EXCEPT ![c] =
                           (@ \ DOMAIN batch) \cup (DOMAIN batch \cap job[j].late)]
    /\ job' = [job EXCEPT ![j].stage = "read", ![j].batch = NoBatch]
    /\ UNCHANGED <<sources, clock, edit, lastUpdate, runs, sweep>>

ReadNothing(j) ==
    /\ job[j].stage = "read" /\ NewObjects(j) = {}
    /\ job' = [job EXCEPT ![j].stage = IF job[j].cleanup THEN "orphans" ELSE "finish"]
    /\ UNCHANGED <<sources, clock, edit, layer2, lastUpdate, runs, sweep, missed>>

\* finalize_catalog: look for orphans, delete their rows, set the last update.
FindOrphans(j) ==
    /\ job[j].stage = "orphans"
    /\ job' = [job EXCEPT ![j].stage = "remove",
                          ![j].orphans = Orphaned(Catalog(j)),
                          ![j].late = @ \ Orphaned(Catalog(j))]
    /\ UNCHANGED <<sources, clock, edit, layer2, lastUpdate, runs, sweep, missed>>

Without(c, S) == [p \in Pgcs |-> IF p \in S THEN {} ELSE layer2[c][p]]

RemoveOrphans(j) ==
    /\ job[j].stage = "remove"
    /\ LET c == Catalog(j)
           gone == job[j].orphans IN
          /\ layer2' = [layer2 EXCEPT ![c] = Without(c, gone)]
          /\ missed' = [missed EXCEPT ![c] = (@ \ gone) \cup (gone \cap job[j].late)]
    /\ job' = [job EXCEPT ![j].stage = "finish", ![j].orphans = {}]
    /\ UNCHANGED <<sources, clock, edit, lastUpdate, runs, sweep>>

\* Objects the parameters of the run left out.
SkippedBySince(j) ==
    {p \in Pgcs : /\ job[j].since # None
                  /\ modTime[p] > lastUpdate[Catalog(j)] /\ modTime[p] <= job[j].since}
LeftOrphaned(j) == IF job[j].cleanup THEN {} ELSE Orphaned(Catalog(j))

FinishCatalog(j) ==
    /\ job[j].stage = "finish"
    /\ LET c == Catalog(j) IN
          /\ lastUpdate' = [lastUpdate EXCEPT ![c] = clock]
          /\ missed' = [missed EXCEPT ![c] =
                           @ \cup job[j].late \cup SkippedBySince(j) \cup LeftOrphaned(j)]
    /\ clock' = clock + 1
    /\ job' = [job EXCEPT ![j] =
          IF Len(job[j].plan) = 1 THEN IdleJob
          ELSE [IdleJob EXCEPT !.stage = "next", !.plan = Tail(job[j].plan),
                               !.since = job[j].since, !.cleanup = job[j].cleanup]]
    /\ UNCHANGED <<sources, edit, layer2, runs, sweep>>

\* The process dies, or a query fails: the task ends where it is.
Crash(j) ==
    /\ job[j].stage # "idle"
    /\ job' = [job EXCEPT ![j] = IdleJob]
    /\ UNCHANGED <<sources, clock, edit, layer2, lastUpdate, runs, sweep, missed>>

-------------------------------------------------------------------------------
\* Layer2OrphanCleanupTask.run with write: scan every catalog, then delete what was
\* found in any of them from each of them.
StartSweep ==
    /\ sweep.stage = "idle" /\ SweepOrder # <<>> /\ runs < MaxRuns
    /\ sweep' = [IdleSweep EXCEPT !.stage = "scan", !.todo = SweepOrder]
    /\ runs' = runs + 1
    /\ UNCHANGED <<sources, clock, edit, layer2, lastUpdate, job, missed>>

ScanCatalog ==
    /\ sweep.stage = "scan"
    /\ LET c == sweep.todo[1] IN
       sweep' = [sweep EXCEPT
          !.found[c] = Orphaned(c),
          !.stage = IF Len(sweep.todo) = 1 THEN "delete" ELSE "scan",
          !.todo = IF Len(sweep.todo) = 1 THEN SweepOrder ELSE Tail(sweep.todo)]
    /\ UNCHANGED <<sources, clock, edit, layer2, lastUpdate, job, runs, missed>>

Found == UNION {sweep.found[c] : c \in Catalogs}

DeleteFromCatalog ==
    /\ sweep.stage = "delete"
    /\ LET c == sweep.todo[1]
           sound == sweep.found[c] \ sweep.late IN
          /\ layer2' = [layer2 EXCEPT ![c] = Without(c, Found)]
          /\ missed' = [missed EXCEPT ![c] =
                 (@ \ sound) \cup {p \in Found \ sound : layer2[c][p] # {}}]
    /\ sweep' = IF Len(sweep.todo) = 1 THEN IdleSweep
                ELSE [sweep EXCEPT !.todo = Tail(@)]
    /\ UNCHANGED <<sources, clock, edit, lastUpdate, job, runs>>

CrashSweep ==
    /\ sweep.stage # "idle"
    /\ sweep' = IdleSweep
    /\ UNCHANGED <<sources, clock, edit, layer2, lastUpdate, job, runs, missed>>

-------------------------------------------------------------------------------
EditStep(e) == BeginEdit(e) \/ CommitAssign(e) \/ ScanMerge(e) \/ CommitMerge(e)
                 \/ SaveRow(e) \/ CommitSave(e) \/ CommitDatatype(e) \/ RollbackEdit(e)
RunStep(j) == StartCatalog(j) \/ ReadBatch(j) \/ SaveBatch(j) \/ ReadNothing(j)
                \/ FindOrphans(j) \/ RemoveOrphans(j) \/ FinishCatalog(j)
SweepStep == ScanCatalog \/ DeleteFromCatalog

Next == \/ \E e \in Edits : EditStep(e)
        \/ \E j \in Jobs : StartTask(j) \/ RunStep(j) \/ Crash(j)
        \/ StartSweep \/ SweepStep \/ CrashSweep

Spec == Init /\ [][Next]_vars

\* A task that was started goes on until it ends or dies. Nobody has to start
\* one, and edits need not come or end.
FairSpec == Spec /\ (\A j \in Jobs : WF_vars(RunStep(j))) /\ WF_vars(SweepStep)

-------------------------------------------------------------------------------
Aggregates == SUBSET (Records \X Values)

\* The tables and the bookkeeping of the tasks have their types.
TypeOK ==
    /\ recordPgc \in [Records -> Pgcs \cup {None}]
    /\ layer1 \in [Catalogs -> [Records -> Values \cup {None}]]
    /\ datatype \in [Tables -> DataTypes]
    /\ modTime \in [Pgcs -> Nat]
    /\ clock \in Nat /\ runs \in 0 .. MaxRuns
    /\ layer2 \in [Catalogs -> [Pgcs -> Aggregates]]
    /\ lastUpdate \in [Catalogs -> Nat]
    /\ missed \in [Catalogs -> SUBSET Pgcs]
    /\ \A j \in Jobs : /\ job[j].offset \in Nat /\ job[j].dt \in Nat
                       /\ job[j].plan \in Seq(Catalogs)
                       /\ job[j].orphans \cup job[j].late \subseteq Pgcs

\* A row of layer 2 is the aggregate of the present rows of its object.
Fresh(c, p) == layer2[c][p] = Aggregate(c, p)

\* The last update accounts for every change: an object that was not modified after
\* the last update of a catalog has the aggregate of its present rows there, or no row if
\* it has none, also while tasks work on the catalog, die anywhere, are run again or run
\* side by side. The exceptions are exactly the noted ones: a change committed under a
\* modification time that is not after the last update, or behind the back of a run that
\* had read the object; an object left out by the parameters of a run; one the orphan
\* cleanup task deletes from a catalog where it is no orphan.
LastUpdateAccounts ==
    \A c \in Catalogs : \A p \in Pgcs \ missed[c] :
        modTime[p] <= lastUpdate[c] => Fresh(c, p)

-------------------------------------------------------------------------------
\* The inductive invariant. An edit, a job and the orphan cleanup task carry what their
\* stages need.
EditStates ==
    [stage : {"idle", "done"}]
      \cup [stage : {"open"}, started : Nat]
      \cup [stage : {"merging"}, started : Nat, target : Pgcs, from : SUBSET Pgcs,
            rows : SUBSET Records]
      \cup [stage : {"saved"}, started : Nat, catalog : Catalogs, record : Records,
            value : Values, touches : SUBSET Pgcs]
Batches == UNION {[B -> Aggregates] : B \in SUBSET Pgcs}
JobStates ==
    [stage : {"idle", "next", "read", "save", "orphans", "remove", "finish"},
     plan : Seq(Catalogs), since : Nat \cup {None}, cleanup : BOOLEAN, dt : Nat,
     offset : Nat, batch : Batches, orphans : SUBSET Pgcs, late : SUBSET Pgcs]
SweepStates ==
    [stage : {"idle", "scan", "delete"}, todo : Seq(Catalogs),
     found : [Catalogs -> SUBSET Pgcs], late : SUBSET Pgcs]

StatesFit ==
    /\ edit \in [Edits -> EditStates]
    /\ job \in [Jobs -> JobStates] /\ \A j \in Jobs : job[j].stage # "idle" => job[j].plan # <<>>
    /\ sweep \in SweepStates
    /\ sweep.stage # "idle" => sweep.todo # <<>> /\ SweepOrder # <<>>

Reading(j) == job[j].stage \notin {"idle", "next"}

\* A run starts from the last update, which is in the past, or from its parameter.
StartsRight(j) ==
    Reading(j) => IF job[j].since = None THEN job[j].dt <= lastUpdate[Catalog(j)]
                  ELSE job[j].dt = job[j].since
RunTimes == /\ \A c \in Catalogs : lastUpdate[c] < clock
            /\ \A j \in Jobs : StartsRight(j)

\* What a task holds of its catalog is current, but for what it has noted as late.
HeldByJob(j) ==
    /\ job[j].stage = "save" => \A p \in DOMAIN job[j].batch :
          p <= job[j].offset /\ (p \in job[j].late \/ job[j].batch[p] = Aggregate(Catalog(j), p))
    /\ job[j].stage = "remove" => \A p \in job[j].orphans \ job[j].late :
          RowsOf(Catalog(j), p) = {}
HeldBySweep ==
    sweep.stage # "idle" =>
        \A c \in Catalogs : \A p \in sweep.found[c] \ sweep.late : RowsOf(c, p) = {}
HeldIsCurrent == (\A j \in Jobs : HeldByJob(j)) /\ HeldBySweep

\* What the objects a run has seen still need: to be saved, or to be removed.
Pending(j, p) ==
    \/ job[j].stage = "save" /\ p \in DOMAIN job[j].batch
    \/ job[j].stage = "remove" /\ p \in job[j].orphans
    \/ /\ job[j].stage \in {"read", "save", "orphans"} \/ ~job[j].cleanup
       /\ RowsOf(Catalog(j), p) = {}
AccountsForSeen(j) ==
    Reading(j) => \A p \in Seen(j) \ (job[j].late \cup missed[Catalog(j)]) :
                     modTime[p] > job[j].dt => Fresh(Catalog(j), p) \/ Pending(j, p)
SeenIsAccounted == \A j \in Jobs : AccountsForSeen(j)

IInv == TypeOK /\ StatesFit /\ RunTimes /\ HeldIsCurrent /\ SeenIsAccounted
          /\ LastUpdateAccounts

\* A task that was started ends: every batch moves the offset on.
TasksEnd == /\ \A j \in Jobs : job[j].stage # "idle" ~> job[j].stage = "idle"
            /\ sweep.stage # "idle" ~> sweep.stage = "idle"

-------------------------------------------------------------------------------
Finishes(j) == job[j].stage = "finish" /\ lastUpdate' # lastUpdate

\* Documented for the since parameter, and not what the code does: a run from the
\* last update aggregates every object updated since. (Changes that a run meets
\* after it has read the object are left to the next run.)
UpdatedIsAggregated ==
    [][\A j \in Jobs : Finishes(j) /\ job[j].since = None =>
          \A p \in Pgcs \ job[j].late :
             layer2[Catalog(j)][p] = Aggregate(Catalog(j), p)]_vars

\* Documented for the orphan cleanup task, and not what the code does: only objects
\* left without layer 1 records are removed, even if nothing changes meanwhile.
SweepRemovesOrphans ==
    [][sweep.stage = "delete" /\ sweep.late = {} =>
          \A c \in Catalogs, p \in Pgcs :
             layer2[c][p] # {} /\ layer2'[c][p] = {} => RowsOf(c, p) = {}]_vars
===============================================================================
