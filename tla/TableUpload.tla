------------------------------ MODULE TableUpload ------------------------------
(***************************************************************************)
(* Creating, patching and filling the tables of layer 0.  A table is a row *)
(* of layer0.tables and a relation of schema rawdata, which carry the same *)
(* name; a row of its data is a row of the relation and a row of           *)
(* layer0.records, which carry the same id.  The handlers look both sides  *)
(* up by the name, at different moments, while other handlers rename.      *)
(*                                                                         *)
(* A step is one SQL statement.  create_table and patch_table run theirs   *)
(* in a transaction.  add_data opens one too, but its two workers use      *)
(* connections of their own and commit on their own.                       *)
(***************************************************************************)
EXTENDS Naturals

CONSTANTS Names,          \* table names
          Rows,           \* contents of a row
          Statuses,       \* layer0.tables.status
          Default,        \* its default
          Sources,        \* codes of common.bib
          Bibcodes,       \* those with the form of a bibcode
          TableIds,       \* bound: values layer0.tables.id may take
          FirstTable,     \* where their sequence starts
          None,
          Calls,          \* handler calls, each used once
          Menu,           \* the inputs a handler call may carry
          InitialNames,   \* the names of tables created earlier, by id,
          InitialRelations \* and those of their relations

VARIABLES registered,     \* layer0.tables.table_name by id
          relation,       \* name of the relation that was created with an id
          rawRows,        \* ids of the rows of that relation
          recordTable,    \* layer0.records.table_id
          status,         \* layer0.tables.status
          sources,        \* common.bib.code
          nextTable,      \* the sequence of layer0.tables.id
          request, stage,
          table,          \* the id a call found, or drew, in layer0.tables
          target,         \* the relation it found in schema rawdata
          patched,        \* the id its UPDATE of the status found
          raw, reg,       \* the two workers of add_data
          locks           \* keys and rows its transaction holds

database == <<registered, relation, rawRows, recordTable, status, sources, nextTable>>
vars == <<registered, relation, rawRows, recordTable, status, sources, nextTable,
          request, stage, table, target, patched, raw, reg, locks>>

Finished == {"done", "failed"}
Stages == {"idle", "check", "insert", "relation", "fetch", "taken", "find", "set",
           "lookup", "alter", "rename", "register", "workers", "commit"} \cup Finished

CreateRequest(a) == a.op = "create" /\ a.name \in Names /\ a.source \in Sources
\* A patch may set the status, rename the table, or both. The datatype is
\* set as the status is; the descriptions of the relation are left out.
PatchRequest(a) ==
    /\ a.op = "patch" /\ a.name \in Names
    /\ a.new \in Names \cup {None} /\ a.status \in Statuses \cup {None}
\* Whether the keys of the data are columns of the table decides the insert.
AddRequest(a) ==
    /\ a.op = "add" /\ a.name \in Names
    /\ a.rows # {} /\ a.rows \subseteq Rows /\ a.fits \in BOOLEAN

ASSUME MenuIsValid == \A a \in Menu : CreateRequest(a) \/ PatchRequest(a) \/ AddRequest(a)
ASSUME NoneIsApart == /\ None \notin Names /\ None \notin Statuses
                      /\ None \notin TableIds /\ None \notin Menu
ASSUME IdsAreNumbers == TableIds \subseteq Nat /\ FirstTable \in Nat
ASSUME KindsOfCode == Bibcodes \subseteq Sources
ASSUME DefaultIsStatus == Default \in Statuses
ASSUME InitialNamesDiffer ==
    /\ InitialNames \in [TableIds -> Names \cup {None}]
    /\ InitialRelations \in [TableIds -> Names \cup {None}]
    /\ \A t, u \in TableIds : InitialNames[t] = InitialNames[u] => t = u \/ InitialNames[t] = None

ASSUME LaterIdsAreUnused ==
    \A t \in TableIds : t >= FirstTable => InitialNames[t] = None /\ InitialRelations[t] = None

-------------------------------------------------------------------------------
\* The id of a record is the hash of the name of its table, as of the upload, and
\* of its contents: identical rows of a request are one.
RecordIds == Names \X Rows
\* Mutant: the hash forgets the table.
IdsOfContents(a) == a.rows
Ids(a) == {a.name} \X a.rows

\* A rename to the present name is no rename.
Renames(a) == a.op = "patch" /\ a.new # None /\ a.new # a.name

\* _get_table_id and FETCH_RAWDATA_REGISTRY find at most one row.
Registered(n) == {t \in TableIds : registered[t] = n}
Relations(n)  == {t \in TableIds : relation[t] = n}
Lookup(n) == IF Registered(n) = {} THEN None ELSE CHOOSE t \in Registered(n) : TRUE

Free(keys, c) == \A o \in Calls \ {c} : keys \cap locks[o] = {}

Init ==
    /\ registered = InitialNames
    /\ relation = InitialRelations
    /\ rawRows = [t \in TableIds |-> {}]
    /\ recordTable = [x \in RecordIds |-> None]
    /\ status = [t \in TableIds |-> Default]
    /\ sources = {}
    /\ nextTable = FirstTable
    /\ request = [c \in Calls |-> None]
    /\ stage = [c \in Calls |-> "idle"]
    /\ table = [c \in Calls |-> None]
    /\ target = [c \in Calls |-> None]
    /\ patched = [c \in Calls |-> None]
    /\ raw = [c \in Calls |-> "todo"]
    /\ reg = [c \in Calls |-> "todo"]
    /\ locks = [c \in Calls |-> {}]

-------------------------------------------------------------------------------
\* Mutant: the transaction's connection is kept open.
EndKeepsLocks(c, outcome) ==
    stage' = [stage EXCEPT ![c] = outcome] /\ UNCHANGED locks
End(c, outcome) ==
    /\ stage' = [stage EXCEPT ![c] = outcome]
    /\ locks' = [locks EXCEPT ![c] = {}]

Go(c, next) == stage' = [stage EXCEPT ![c] = next]

\* The current statement has its locks and the next one begins.
Take(c, keys, next) ==
    /\ Free(keys, c)
    /\ locks' = [locks EXCEPT ![c] = @ \cup keys]
    /\ Go(c, next)

\* An exception leaves with_tx: the transaction is rolled back.
Fail(c) ==
    /\ End(c, "failed")
    /\ UNCHANGED <<database, request, table, target, patched, raw, reg>>

Receive(c, a, first) ==
    /\ stage[c] = "idle"
    /\ request' = [request EXCEPT ![c] = a]
    /\ Go(c, first)
    /\ UNCHANGED <<table, target, patched, raw, reg, locks>>

-------------------------------------------------------------------------------
\* POST /v1/table. A bibcode is stored before anything else is looked at; another
\* code must be known.
ReceiveCreate(c) ==
    \E a \in Menu :
        /\ CreateRequest(a)
        /\ LET known == a.source \in Bibcodes \cup sources IN
              Receive(c, a, IF known THEN "check" ELSE "failed")
        /\ sources' = sources \cup ({a.source} \cap Bibcodes)
    /\ UNCHANGED <<registered, relation, rawRows, recordTable, status, nextTable>>

\* The first look at the registry, outside the transaction.
CheckTable(c) ==
    /\ stage[c] = "check"
    /\ table' = [table EXCEPT ![c] = Lookup(request[c].name)]
    /\ Go(c, IF table'[c] = None THEN "insert" ELSE "done")
    /\ UNCHANGED <<database, request, target, patched, raw, reg, locks>>

\* INSERT INTO layer0.tables waits for transactions that write the same name.
InsertTable(c) ==
    /\ stage[c] = "insert"
    /\ nextTable \in TableIds
    /\ Registered(request[c].name) = {}
    /\ Take(c, {<<"registry", request[c].name>>}, "relation")
    /\ table' = [table EXCEPT ![c] = nextTable]
    /\ nextTable' = nextTable + 1
    /\ UNCHANGED <<registered, relation, rawRows, recordTable, status, sources,
                   request, target, patched, raw, reg>>

\* The UNIQUE constraint of layer0.tables.table_name.
InsertFails(c) ==
    /\ stage[c] = "insert"
    /\ Free({<<"registry", request[c].name>>}, c)
    /\ Registered(request[c].name) # {}
    /\ nextTable' = nextTable + 1
    /\ End(c, "failed")
    /\ UNCHANGED <<registered, relation, rawRows, recordTable, status, sources,
                   request, table, target, patched, raw, reg>>

\* CREATE TABLE fails on a relation it sees and waits for one it does not.
CreateRelation(c) ==
    /\ stage[c] = "relation"
    /\ Relations(request[c].name) = {}
    /\ Take(c, {<<"relation", request[c].name>>}, "commit")
    /\ target' = [target EXCEPT ![c] = table[c]]
    /\ UNCHANGED <<database, request, table, patched, raw, reg>>

CreateFails(c) ==
    /\ stage[c] = "relation"
    /\ Relations(request[c].name) # {}
    /\ Fail(c)

-------------------------------------------------------------------------------
\* PATCH /v1/table.
ReceivePatch(c) ==
    /\ \E a \in Menu : PatchRequest(a) /\ Receive(c, a, "fetch")
    /\ UNCHANGED database

\* What follows a statement of patch_table depends on the fields that are given.
AfterChecks(c) == IF request[c].status # None THEN "find"
                  ELSE IF Renames(request[c]) THEN "lookup" ELSE "commit"
AfterStatus(c) == IF Renames(request[c]) THEN "lookup" ELSE "commit"

\* Two checks before the transaction: the table must exist, on both sides (the
\* queries are taken as one moment; a name lost between them fails the call),
FetchMetadata(c) ==
    /\ stage[c] = "fetch"
    /\ Go(c, IF {} \in {Registered(request[c].name), Relations(request[c].name)} THEN "failed"
             ELSE IF Renames(request[c]) THEN "taken" ELSE AfterChecks(c))
    /\ UNCHANGED <<database, request, table, target, patched, raw, reg, locks>>

\* and its new name must not.
IsNameTaken(c) ==
    /\ stage[c] = "taken"
    /\ Go(c, IF Registered(request[c].new) # {} THEN "failed" ELSE AfterChecks(c))
    /\ UNCHANGED <<database, request, table, target, patched, raw, reg, locks>>

\* update_table_status looks the id up by the name; when there is none the UPDATE
\* changes no row and succeeds.
FindForUpdate(c) ==
    /\ stage[c] = "find"
    /\ patched' = [patched EXCEPT ![c] = Lookup(request[c].name)]
    /\ Go(c, IF patched'[c] = None THEN AfterStatus(c) ELSE "set")
    /\ UNCHANGED <<database, request, table, target, raw, reg, locks>>

SetStatus(c) ==
    /\ stage[c] = "set"
    /\ Take(c, {<<"row", patched[c]>>}, AfterStatus(c))
    /\ UNCHANGED <<database, request, table, target, patched, raw, reg>>

\* rename_raw_table: look the id up once more,
LookUpTable(c) ==
    /\ stage[c] = "lookup"
    /\ Registered(request[c].name) # {}
    /\ table' = [table EXCEPT ![c] = Lookup(request[c].name)]
    /\ Go(c, "alter")
    /\ UNCHANGED <<database, request, target, patched, raw, reg, locks>>

LookUpFails(c) ==
    /\ stage[c] = "lookup"
    /\ Registered(request[c].name) = {}
    /\ Fail(c)

\* ALTER TABLE ... RENAME TO: lock the relation that has the name by now,
LockRelation(c) ==
    /\ stage[c] = "alter"
    /\ \E t \in Relations(request[c].name) :
          /\ Take(c, {<<"table", t>>}, "rename")
          /\ target' = [target EXCEPT ![c] = t]
    /\ UNCHANGED <<database, request, table, patched, raw, reg>>

LockFails(c) ==
    /\ stage[c] = "alter"
    /\ Relations(request[c].name) = {}
    /\ Fail(c)

\* give it a name no other relation has,
RenameRelation(c) ==
    /\ stage[c] = "rename"
    /\ Relations(request[c].new) = {}
    /\ Take(c, {<<"relation", request[c].new>>}, "register")
    /\ UNCHANGED <<database, request, table, target, patched, raw, reg>>

RenameFails(c) ==
    /\ stage[c] = "rename"
    /\ Relations(request[c].new) # {}
    /\ Fail(c)

\* and UPDATE the row of the id. The old name is free when the transaction ends.
RegisterName(c) ==
    /\ stage[c] = "register"
    /\ IF Registered(request[c].new) \subseteq {table[c]}
       THEN Take(c, {<<"row", table[c]>>, <<"key", table[c]>>, <<"registry", request[c].new>>,
                     <<"registry", registered[table[c]]>>}, "commit")
       ELSE /\ Free({<<"row", table[c]>>, <<"registry", request[c].new>>}, c)
            /\ End(c, "failed")
    /\ UNCHANGED <<database, request, table, target, patched, raw, reg>>

-------------------------------------------------------------------------------
\* The names a transaction gives at its commit.
NewName(c) == IF request[c].op = "create" THEN request[c].name ELSE request[c].new
Named(c) == request[c].op = "create" \/ Renames(request[c])
\* Mutant: the UPDATE of the registry is dropped.
RelationOnly(c) == registered
NewRegistry(c)  == IF Named(c) THEN [registered EXCEPT ![table[c]] = NewName(c)] ELSE registered
NewRelations(c) == IF Named(c) THEN [relation EXCEPT ![target[c]] = NewName(c)] ELSE relation

\* COMMIT of create_table and of patch_table.
Commit(c) ==
    /\ stage[c] = "commit"
    /\ registered' = NewRegistry(c)
    /\ relation' = NewRelations(c)
    /\ status' = IF patched[c] = None THEN status
                 ELSE [status EXCEPT ![patched[c]] = request[c].status]
    /\ End(c, "done")
    /\ UNCHANGED <<rawRows, recordTable, sources, nextTable, request, table, target, patched, raw, reg>>

-------------------------------------------------------------------------------
\* POST /v1/table/data: two workers of an ErrorGroup start side by side.
ReceiveAdd(c) ==
    /\ \E a \in Menu : AddRequest(a) /\ Receive(c, a, "workers")
    /\ UNCHANGED database

\* insert_raw_data: INSERT INTO rawdata.<name> ... ON CONFLICT DO NOTHING waits
\* for a rename of the relation and commits on its own.
InsertRawData(c) ==
    /\ stage[c] = "workers" /\ raw[c] = "todo"
    /\ request[c].fits
    /\ \E t \in Relations(request[c].name) :
          /\ Free({<<"table", t>>}, c)
          /\ rawRows' = [rawRows EXCEPT ![t] = @ \cup Ids(request[c])]
          /\ target' = [target EXCEPT ![c] = t]
    /\ raw' = [raw EXCEPT ![c] = "done"]
    /\ UNCHANGED <<registered, relation, recordTable, status, sources, nextTable,
                   request, stage, table, patched, reg, locks>>

InsertRawFails(c) ==
    /\ stage[c] = "workers" /\ raw[c] = "todo"
    /\ ~request[c].fits \/ Relations(request[c].name) = {}
    /\ raw' = [raw EXCEPT ![c] = "failed"]
    /\ UNCHANGED <<database, request, stage, table, target, patched, reg, locks>>

\* register_records: find the id of the table by its name,
FindRegistry(c) ==
    /\ stage[c] = "workers" /\ reg[c] = "todo"
    /\ Registered(request[c].name) # {}
    /\ table' = [table EXCEPT ![c] = Lookup(request[c].name)]
    /\ reg' = [reg EXCEPT ![c] = "found"]
    /\ UNCHANGED <<database, request, stage, target, patched, raw, locks>>

FindRegistryFails(c) ==
    /\ stage[c] = "workers" /\ reg[c] = "todo"
    /\ Registered(request[c].name) = {}
    /\ reg' = [reg EXCEPT ![c] = "failed"]
    /\ UNCHANGED <<database, request, stage, table, target, patched, raw, locks>>

\* and upsert the records, also those another table had. The foreign key waits for
\* a transaction that changes the unique name of the table.
RegisterRecords(c) ==
    /\ stage[c] = "workers" /\ reg[c] = "found"
    /\ Free({<<"key", table[c]>>}, c)
    /\ recordTable' = [x \in RecordIds |->
                          IF x \in Ids(request[c]) THEN table[c] ELSE recordTable[x]]
    /\ reg' = [reg EXCEPT ![c] = "done"]
    /\ UNCHANGED <<registered, relation, rawRows, status, sources, nextTable,
                   request, stage, table, target, patched, raw, locks>>

\* Mutants: the wait ends with the first worker, or with the error of one.
WaitedForOne(c) == raw[c] \in Finished \/ reg[c] \in Finished
LastError(c) == IF reg[c] = "failed" THEN "failed" ELSE "done"
\* ErrorGroup.wait: both workers have ended, and the first error is raised.
Waited(c) == raw[c] \in Finished /\ reg[c] \in Finished
FirstError(c) == IF "failed" \in {raw[c], reg[c]} THEN "failed" ELSE "done"

EndAdd(c) ==
    /\ stage[c] = "workers" /\ Waited(c)
    /\ End(c, FirstError(c))
    /\ UNCHANGED <<database, request, table, target, patched, raw, reg>>

-------------------------------------------------------------------------------
\* What the statement a transaction is at waits for.
Wanted(c) ==
    CASE stage[c] = "insert"   -> {<<"registry", request[c].name>>}
      [] stage[c] = "relation" -> {<<"relation", request[c].name>>}
      [] stage[c] = "set"      -> {<<"row", patched[c]>>}
      [] stage[c] = "alter"    -> {<<"table", t>> : t \in Relations(request[c].name)}
      [] stage[c] = "rename"   -> {<<"relation", request[c].new>>}
      [] stage[c] = "register" -> {<<"row", table[c]>>, <<"registry", request[c].new>>}
      [] OTHER -> {}
WaitsFor(c, o) == c # o /\ Wanted(c) \cap locks[o] # {}

\* PostgreSQL's deadlock detector ends one of the transactions in a cycle.
Deadlocked(c) ==
    \E S \in SUBSET Calls :
        c \in S /\ \A m \in S : /\ \E o \in S : WaitsFor(m, o)
                                /\ \E o \in S : WaitsFor(o, m)
DeadlockAbort(c) == Deadlocked(c) /\ Fail(c)

\* The connection or the process is lost: what workers have committed stays.
ConnectionLost(c) == stage[c] \notin Finished \cup {"idle"} /\ Fail(c)

Receives(c) == ReceiveCreate(c) \/ ReceivePatch(c) \/ ReceiveAdd(c)
Serve(c) ==
    \/ CheckTable(c) \/ InsertTable(c) \/ InsertFails(c)
    \/ CreateRelation(c) \/ CreateFails(c)
    \/ FetchMetadata(c) \/ IsNameTaken(c) \/ FindForUpdate(c) \/ SetStatus(c)
    \/ LookUpTable(c) \/ LookUpFails(c) \/ LockRelation(c) \/ LockFails(c)
    \/ RenameRelation(c) \/ RenameFails(c) \/ RegisterName(c)
    \/ Commit(c)
    \/ InsertRawData(c) \/ InsertRawFails(c)
    \/ FindRegistry(c) \/ FindRegistryFails(c) \/ RegisterRecords(c) \/ EndAdd(c)
    \/ DeadlockAbort(c)

Next == \E c \in Calls : Receives(c) \/ Serve(c) \/ ConnectionLost(c)

Spec == Init /\ [][Next]_vars

\* Threads run, free locks are granted and the deadlock detector wakes up. Clients
\* need not call.
FairSpec == Spec /\ \A c \in Calls : WF_vars(Serve(c))

-------------------------------------------------------------------------------
Keys == ({"registry", "relation"} \X Names) \cup ({"row", "key", "table"} \X TableIds)

\* The tables and the handlers' bookkeeping have their types.
TypeOK ==
    /\ registered \in [TableIds -> Names \cup {None}]
    /\ relation \in [TableIds -> Names \cup {None}]
    /\ rawRows \in [TableIds -> SUBSET RecordIds]
    /\ recordTable \in [RecordIds -> TableIds \cup {None}]
    /\ status \in [TableIds -> Statuses]
    /\ sources \subseteq Sources
    /\ nextTable \in Nat
    /\ request \in [Calls -> Menu \cup {None}]
    /\ stage \in [Calls -> Stages]
    /\ table \in [Calls -> TableIds \cup {None}]
    /\ target \in [Calls -> TableIds \cup {None}]
    /\ patched \in [Calls -> TableIds \cup {None}]
    /\ raw \in [Calls -> {"todo"} \cup Finished]
    /\ reg \in [Calls -> {"todo", "found"} \cup Finished]
    /\ locks \in [Calls -> SUBSET Keys]

\* An operation that found one table under the name in the registry and another in
\* schema rawdata.
Split(c) == table[c] # target[c]
RenamedSplit(c) == stage[c] = "done" /\ Renames(request[c]) /\ Split(c)
Uploads(c, x) == request[c] # None /\ request[c].op = "add" /\ x \in Ids(request[c])

\* The tables an earlier rename has left with two names.
SplitBefore == {t \in TableIds : InitialNames[t] # InitialRelations[t]}

\* A table has one name: its row of layer0.tables and its relation agree whatever
\* creations and renames run side by side, fail or are cut off. The only exception
\* is a rename whose ALTER TABLE met another relation than the table it had looked
\* up, and it concerns these two tables only.
NamesAgree ==
    \A t \in TableIds : registered[t] # relation[t] =>
        \/ t \in SplitBefore
        \/ \E c \in Calls : RenamedSplit(c) /\ t \in {table[c], target[c]}

\* A record is located in the table it names, and a row of a raw table has a
\* record. Where this fails an upload of the row is under way or has failed half
\* done, or its two workers found different tables under the name.  An upload that was
\* answered has both, also one that repeats what failed half done.
RecordIsLocated ==
    \A x \in RecordIds :
        /\ \A t \in TableIds : recordTable[x] = t /\ x \notin rawRows[t] =>
              \E c \in Calls : /\ Uploads(c, x) /\ reg[c] = "done" /\ table[c] = t
                              /\ (stage[c] # "done" \/ Split(c))
        /\ recordTable[x] = None /\ (\E t \in TableIds : x \in rawRows[t]) =>
              \E c \in Calls : Uploads(c, x) /\ raw[c] = "done" /\ stage[c] # "done"
        /\ \A c \in Calls : Uploads(c, x) /\ stage[c] = "done" =>
              x \in rawRows[target[c]] /\ recordTable[x] # None

\* The names the code looks up twice move only by renames: an upload whose workers
\* find different tables, or a patch that is answered although its UPDATE found no
\* table, has met a rename of the name, or the name of a table split before. Creating
\* tables, failures and crashes do not cause either.
Unnoticed(c) ==
    /\ stage[c] = "done"
    /\ \/ request[c].op = "add" /\ Split(c)
       \/ request[c].op = "patch" /\ request[c].status # None /\ patched[c] = None
OnlyRenamesMoveNames ==
    \A c \in Calls : Unnoticed(c) =>
        \/ \E t \in SplitBefore : request[c].name \in {InitialNames[t], InitialRelations[t]}
        \/ \E o \in Calls : /\ stage[o] = "done" /\ Renames(request[o])
                           /\ request[c].name \in {request[o].name, request[o].new}

-------------------------------------------------------------------------------
\* The inductive invariant. A stage is reached by one kind of request only, and
\* what a call has found is found.
StageFits ==
    \A c \in Calls :
        /\ stage[c] # "idle" => request[c] # None
        /\ stage[c] \in {"check", "insert", "relation"} => CreateRequest(request[c])
        /\ stage[c] \in {"fetch", "taken", "find", "set", "lookup", "alter", "rename", "register"}
              => PatchRequest(request[c])
        /\ stage[c] = "set" => request[c].status # None /\ patched[c] # None
        /\ patched[c] # None =>
              PatchRequest(request[c]) /\ request[c].status # None /\ stage[c] # "idle"
        /\ stage[c] \in {"taken", "lookup", "alter", "rename", "register"} => Renames(request[c])
        /\ stage[c] = "find" => request[c].status # None
        /\ stage[c] = "workers" => AddRequest(request[c])
        /\ raw[c] # "todo" \/ reg[c] # "todo" =>
              AddRequest(request[c]) /\ stage[c] \in {"workers"} \cup Finished

Found ==
    \A c \in Calls :
        /\ stage[c] = "relation" => table[c] # None
        /\ stage[c] \in {"alter", "rename", "register"} =>
              table[c] # None /\ registered[table[c]] # None
        /\ stage[c] \in {"rename", "register"} => target[c] # None
        /\ stage[c] = "commit" => CreateRequest(request[c]) \/ PatchRequest(request[c])
        /\ stage[c] = "commit" /\ Named(c) => table[c] # None /\ target[c] # None
        /\ stage[c] = "commit" /\ request[c].op = "create" => ~Split(c)
        /\ reg[c] \in {"found", "done"} => table[c] # None

\* What the workers have committed is there: raw rows are never deleted and records
\* never unregistered.
WorkersCommitted ==
    \A c \in Calls :
        /\ raw[c] = "done" => target[c] # None /\ Ids(request[c]) \subseteq rawRows[target[c]]
        /\ reg[c] = "done" => \A x \in Ids(request[c]) : recordTable[x] # None
        /\ stage[c] = "done" /\ AddRequest(request[c]) => raw[c] = "done" /\ reg[c] = "done"

IInv == TypeOK /\ StageFits /\ Found /\ WorkersCommitted /\ NamesAgree /\ RecordIsLocated

\* The names an earlier split or a rename that has ended concerns.
Moved ==
    {n \in Names : \/ \E t \in SplitBefore : n \in {InitialNames[t], InitialRelations[t]}
                   \/ \E o \in Calls : /\ stage[o] = "done" /\ Renames(request[o])
                                      /\ n \in {request[o].name, request[o].new}}

\* A creation has drawn an id of its own, and holds its name in the registry.
Creating(c) == stage[c] \in {"relation", "commit"} /\ request[c].op = "create"
LocksApart == \A c, o \in Calls : c # o => locks[c] \cap locks[o] = {}
IdsAreFresh ==
    /\ \A t \in TableIds : t >= nextTable => registered[t] = None /\ relation[t] = None
    /\ \A c \in Calls : Creating(c) =>
          /\ registered[table[c]] = None /\ relation[table[c]] = None /\ table[c] < nextTable
          /\ <<"registry", request[c].name>> \in locks[c]
          /\ \A o \in Calls \ {c} : Creating(o) => table[o] # table[c]

\* Any other name is that of both sides of one table, or of none as long as it is created.
NamesFollow ==
    \A n \in Names \ Moved :
        /\ \A t \in TableIds : registered[t] = n <=> relation[t] = n
        /\ \A t, u \in TableIds : registered[t] = n /\ registered[u] = n => t = u
        /\ \A c \in Calls : Creating(c) /\ request[c].name = n => Registered(n) = {}

\* What a rename will move has its name or a moved one; what others found has its name.
RenameFollows(c) ==
    Renames(request[c]) =>
        /\ stage[c] \in {"alter", "rename", "register", "commit"} =>
              registered[table[c]] \in {request[c].name} \cup Moved
        /\ stage[c] \in {"rename", "register", "commit"} =>
              relation[target[c]] \in {request[c].name} \cup Moved
FoundFollows(c) ==
    request[c].name \notin Moved =>
        /\ raw[c] = "done" => relation[target[c]] = request[c].name
        /\ reg[c] \in {"found", "done"} => registered[table[c]] = request[c].name
        /\ stage[c] \in {"taken", "find"} => Registered(request[c].name) # {}
        /\ /\ request[c].op = "patch" /\ request[c].status # None
           /\ stage[c] \in {"lookup", "alter", "rename", "register", "commit", "done"}
           => patched[c] # None
CallsFollow == \A c \in Calls : request[c] # None => RenameFollows(c) /\ FoundFollows(c)

MovesInv == LocksApart /\ IdsAreFresh /\ NamesFollow /\ CallsFollow

UnderWay == {c \in Calls : stage[c] \notin {"idle"} \cup Finished}

\* Every call that was received is answered, so that a moment comes when none is under
\* way: a creation takes the name in the registry first and a rename the relation's,
\* and the two may wait for each other, but not for ever.
EveryCallEnds == UnderWay # {} ~> UnderWay = {}

-------------------------------------------------------------------------------
\* Documented for the rename of PATCH /v1/table, and not what the code does: it
\* updates the row of layer0.tables and the relation of the table.
RenameUpdatesBoth ==
    [][\A c \in Calls : stage[c] = "commit" /\ stage'[c] = "done" /\ Renames(request[c]) =>
          \A t \in TableIds : registered'[t] # registered[t] <=> relation'[t] # relation[t]]_vars
===============================================================================
