--------------------------- MODULE TableUploadProofs ---------------------------
(***************************************************************************)
(* Proofs about TableUpload for every set of names, tables, calls and      *)
(* inputs: types, the agreement of the two names of a table and of the two *)
(* sides of a row, and the inductive invariant they follow from.           *)
(***************************************************************************)
EXTENDS TableUpload, TLAPS

\* A name that is registered is looked up, and one that is not is not.
LEMMA LookupFinds ==
    ASSUME NEW n
    PROVE  /\ Lookup(n) \in TableIds \cup {None}
           /\ Registered(n) # {} => Lookup(n) \in TableIds
           /\ Lookup(n) # None => registered[Lookup(n)] = n
  <1>1. CASE Registered(n) = {}
    BY <1>1 DEF Lookup
  <1>2. CASE Registered(n) # {}
    <2>1. Lookup(n) \in Registered(n)
      BY <1>2 DEF Lookup
    <2> QED
      BY <2>1, <1>2 DEF Registered
  <1> QED
    BY <1>1, <1>2

\* The keys that statements lock are keys.
LEMMA KeyTypes ==
    /\ \A n \in Names : {<<"registry", n>>} \in SUBSET Keys /\ {<<"relation", n>>} \in SUBSET Keys
    /\ \A t \in TableIds : {<<"row", t>>} \in SUBSET Keys /\ {<<"table", t>>} \in SUBSET Keys
    /\ \A t \in TableIds, n \in Names : {<<"row", t>>, <<"key", t>>, <<"registry", n>>} \in SUBSET Keys
    /\ \A t \in TableIds, n, o \in Names :
          {<<"row", t>>, <<"key", t>>, <<"registry", n>>, <<"registry", o>>} \in SUBSET Keys
  BY DEF Keys

LEMMA TakeTypes ==
    ASSUME TypeOK, NEW c \in Calls, NEW keys \in SUBSET Keys, NEW next \in Stages,
           Take(c, keys, next)
    PROVE  /\ stage' \in [Calls -> Stages]
           /\ locks' \in [Calls -> SUBSET Keys]
  BY DEF Take, Go, TypeOK

LEMMA FailTypes ==
    ASSUME TypeOK, NEW c \in Calls, Fail(c)
    PROVE  TypeOK'
  BY DEF Fail, End, database, TypeOK, Stages, Finished

\* Type correctness is inductive once a stage fits its request.
LEMMA TypeStep == TypeOK /\ StageFits /\ Found /\ [Next]_vars => TypeOK'
  <1> SUFFICES ASSUME TypeOK, StageFits, Found, [Next]_vars PROVE TypeOK'
    OBVIOUS
  <1> USE NoneIsApart
  <1>0. CASE UNCHANGED vars
    BY <1>0 DEF TypeOK, vars
  <1>1. ASSUME NEW c \in Calls, ReceiveCreate(c) PROVE TypeOK'
    BY <1>1, KindsOfCode DEF ReceiveCreate, Receive, Go, TypeOK, Stages, Finished, CreateRequest
  <1>2. ASSUME NEW c \in Calls, CheckTable(c) PROVE TypeOK'
    BY <1>2, LookupFinds DEF CheckTable, Go, TypeOK, database, Stages, Finished
  <1>3. ASSUME NEW c \in Calls, InsertTable(c) PROVE TypeOK'
    <2>1. {<<"registry", request[c].name>>} \in SUBSET Keys
      BY <1>3, KeyTypes DEF InsertTable, StageFits, CreateRequest
    <2>2. stage' \in [Calls -> Stages] /\ locks' \in [Calls -> SUBSET Keys]
      BY <1>3, <2>1, TakeTypes DEF InsertTable, Stages
    <2>3. nextTable \in TableIds /\ nextTable' = nextTable + 1
      BY <1>3 DEF InsertTable
    <2>4. nextTable' \in Nat
      BY <2>3 DEF TypeOK
    <2>5. table' \in [Calls -> TableIds \cup {None}]
      BY <1>3, <2>3 DEF InsertTable, TypeOK
    <2> QED
      BY <1>3, <2>2, <2>4, <2>5 DEF InsertTable, TypeOK
  <1>4. ASSUME NEW c \in Calls, InsertFails(c) PROVE TypeOK'
    BY <1>4 DEF InsertFails, End, TypeOK, Stages, Finished
  <1>5. ASSUME NEW c \in Calls, CreateRelation(c) PROVE TypeOK'
    <2>1. {<<"relation", request[c].name>>} \in SUBSET Keys
      BY <1>5, KeyTypes DEF CreateRelation, StageFits, CreateRequest
    <2>2. stage' \in [Calls -> Stages] /\ locks' \in [Calls -> SUBSET Keys]
      BY <1>5, <2>1, TakeTypes DEF CreateRelation, Stages
    <2> QED
      BY <1>5, <2>2 DEF CreateRelation, TypeOK, database
  <1>6. ASSUME NEW c \in Calls, CreateFails(c) PROVE TypeOK'
    BY <1>6, FailTypes DEF CreateFails
  <1>7. ASSUME NEW c \in Calls, ReceivePatch(c) PROVE TypeOK'
    BY <1>7 DEF ReceivePatch, Receive, Go, TypeOK, Stages, database
  <1>8. ASSUME NEW c \in Calls, FetchMetadata(c) PROVE TypeOK'
    BY <1>8 DEF FetchMetadata, AfterChecks, Go, TypeOK, Stages, Finished, database
  <1>9. ASSUME NEW c \in Calls, IsNameTaken(c) PROVE TypeOK'
    BY <1>9 DEF IsNameTaken, AfterChecks, Go, TypeOK, Stages, Finished, database
  <1>10. ASSUME NEW c \in Calls, FindForUpdate(c) PROVE TypeOK'
    BY <1>10, LookupFinds DEF FindForUpdate, AfterStatus, Go, TypeOK, Stages, database
  <1>11. ASSUME NEW c \in Calls, SetStatus(c) PROVE TypeOK'
    <2>1. {<<"row", patched[c]>>} \in SUBSET Keys
      BY <1>11, KeyTypes DEF SetStatus, StageFits, TypeOK
    <2>2. stage' \in [Calls -> Stages] /\ locks' \in [Calls -> SUBSET Keys]
      BY <1>11, <2>1, TakeTypes DEF SetStatus, AfterStatus, Stages
    <2> QED
      BY <1>11, <2>2 DEF SetStatus, TypeOK, database
  <1>12. ASSUME NEW c \in Calls, LookUpTable(c) PROVE TypeOK'
    BY <1>12, LookupFinds DEF LookUpTable, Go, TypeOK, Stages, database
  <1>13. ASSUME NEW c \in Calls, LookUpFails(c) PROVE TypeOK'
    BY <1>13, FailTypes DEF LookUpFails
  <1>14. ASSUME NEW c \in Calls, LockRelation(c) PROVE TypeOK'
    <2>1. PICK t \in Relations(request[c].name) :
             Take(c, {<<"table", t>>}, "rename") /\ target' = [target EXCEPT ![c] = t]
      BY <1>14 DEF LockRelation
    <2>2. t \in TableIds /\ {<<"table", t>>} \in SUBSET Keys
      BY KeyTypes DEF Relations
    <2>3. stage' \in [Calls -> Stages] /\ locks' \in [Calls -> SUBSET Keys]
      BY <2>1, <2>2, TakeTypes DEF Stages
    <2> QED
      BY <1>14, <2>1, <2>2, <2>3 DEF LockRelation, TypeOK, database
  <1>15. ASSUME NEW c \in Calls, LockFails(c) PROVE TypeOK'
    BY <1>15, FailTypes DEF LockFails
  <1>16. ASSUME NEW c \in Calls, RenameRelation(c) PROVE TypeOK'
    <2>1. {<<"relation", request[c].new>>} \in SUBSET Keys
      BY <1>16, KeyTypes DEF RenameRelation, StageFits, PatchRequest, Renames
    <2>2. stage' \in [Calls -> Stages] /\ locks' \in [Calls -> SUBSET Keys]
      BY <1>16, <2>1, TakeTypes DEF RenameRelation, Stages
    <2> QED
      BY <1>16, <2>2 DEF RenameRelation, TypeOK, database
  <1>17. ASSUME NEW c \in Calls, RenameFails(c) PROVE TypeOK'
    BY <1>17, FailTypes DEF RenameFails
  <1>18. ASSUME NEW c \in Calls, RegisterName(c) PROVE TypeOK'
    <2>1. table[c] \in TableIds /\ request[c].new \in Names
      BY <1>18 DEF RegisterName, StageFits, Found, PatchRequest, Renames, TypeOK
    <2> DEFINE keys == {<<"row", table[c]>>, <<"key", table[c]>>, <<"registry", request[c].new>>,
                        <<"registry", registered[table[c]]>>}
    <2>2. CASE Take(c, keys, "commit")
      <3>0. registered[table[c]] \in Names
        BY <1>18, <2>1 DEF RegisterName, Found, TypeOK
      <3>1. keys \in SUBSET Keys
        BY <2>1, <3>0, KeyTypes
      <3>2. stage' \in [Calls -> Stages] /\ locks' \in [Calls -> SUBSET Keys]
        BY <2>2, <3>1, TakeTypes DEF Stages
      <3> QED
        BY <1>18, <3>2 DEF RegisterName, TypeOK, database
    <2>3. CASE End(c, "failed")
      BY <1>18, <2>3 DEF RegisterName, End, TypeOK, database, Stages, Finished
    <2> QED
      BY <1>18, <2>2, <2>3 DEF RegisterName
  <1>19. ASSUME NEW c \in Calls, Commit(c) PROVE TypeOK'
    <2>1. Named(c) => NewName(c) \in Names
      BY <1>19 DEF Commit, Found, Named, NewName, Renames, CreateRequest, PatchRequest
    <2>2. registered' \in [TableIds -> Names \cup {None}] /\ relation' \in [TableIds -> Names \cup {None}]
      BY <1>19, <2>1 DEF Commit, NewRegistry, NewRelations, TypeOK
    <2>3. status' \in [TableIds -> Statuses]
      <3>1. patched[c] # None => request[c].status \in Statuses
        BY DEF StageFits, PatchRequest
      <3> QED
        BY <1>19, <3>1 DEF Commit, TypeOK
    <2> QED
      BY <1>19, <2>2, <2>3 DEF Commit, End, TypeOK, Stages, Finished
  <1>20. ASSUME NEW c \in Calls, ReceiveAdd(c) PROVE TypeOK'
    BY <1>20 DEF ReceiveAdd, Receive, Go, TypeOK, Stages, database
  <1>21. ASSUME NEW c \in Calls, InsertRawData(c) PROVE TypeOK'
    <2>1. Ids(request[c]) \in SUBSET RecordIds
      BY <1>21 DEF InsertRawData, StageFits, AddRequest, Ids, RecordIds
    <2> QED
      BY <1>21, <2>1 DEF InsertRawData, Relations, TypeOK, Finished
  <1>22. ASSUME NEW c \in Calls, InsertRawFails(c) PROVE TypeOK'
    BY <1>22 DEF InsertRawFails, TypeOK, Finished, database
  <1>23. ASSUME NEW c \in Calls, FindRegistry(c) PROVE TypeOK'
    BY <1>23, LookupFinds DEF FindRegistry, TypeOK, database
  <1>24. ASSUME NEW c \in Calls, FindRegistryFails(c) PROVE TypeOK'
    BY <1>24 DEF FindRegistryFails, TypeOK, Finished, database
  <1>25. ASSUME NEW c \in Calls, RegisterRecords(c) PROVE TypeOK'
    BY <1>25 DEF RegisterRecords, Found, TypeOK, Finished
  <1>26. ASSUME NEW c \in Calls, EndAdd(c) PROVE TypeOK'
    BY <1>26 DEF EndAdd, End, FirstError, TypeOK, Stages, Finished, database
  <1>27. ASSUME NEW c \in Calls, DeadlockAbort(c) \/ ConnectionLost(c) PROVE TypeOK'
    BY <1>27, FailTypes DEF DeadlockAbort, ConnectionLost
  <1> QED
    BY <1>0, <1>1, <1>2, <1>3, <1>4, <1>5, <1>6, <1>7, <1>8, <1>9, <1>10, <1>11, <1>12, <1>13,
       <1>14, <1>15, <1>16, <1>17, <1>18, <1>19, <1>20, <1>21, <1>22, <1>23, <1>24, <1>25,
       <1>26, <1>27
       DEF Next, Receives, Serve

-------------------------------------------------------------------------------
\* The statements of a transaction that end it with an error.
LEMMA FailsAreFailures ==
    ASSUME NEW c \in Calls,
           CreateFails(c) \/ LookUpFails(c) \/ LockFails(c) \/ RenameFails(c)
           \/ DeadlockAbort(c) \/ ConnectionLost(c)
    PROVE  stage[c] \notin Finished \cup {"idle"} /\ Fail(c)
  BY DEF CreateFails, LookUpFails, LockFails, RenameFails, DeadlockAbort, Deadlocked,
     WaitsFor, Wanted, ConnectionLost, Finished

\* What a call has received, a worker has committed and an answered call has found
\* stays.
Persists(d) ==
    /\ stage[d] # "idle" => stage'[d] # "idle" /\ request'[d] = request[d]
    /\ stage[d] \in Finished => /\ stage'[d] = stage[d] /\ table'[d] = table[d]
                               /\ target'[d] = target[d] /\ raw'[d] = raw[d]
                               /\ reg'[d] = reg[d]
    /\ raw[d] = "done" => raw'[d] = "done" /\ target'[d] = target[d]
    /\ reg[d] = "done" => reg'[d] = "done" /\ table'[d] = table[d]

LEMMA CallPersists ==
    ASSUME TypeOK, StageFits, NEW d \in Calls, [Next]_vars
    PROVE  Persists(d)
  <1>1. CASE UNCHANGED vars
    BY <1>1 DEF vars, Persists
  <1>2. ASSUME NEW c \in Calls, Receives(c) PROVE Persists(d)
    BY <1>2 DEF Receives, ReceiveCreate, ReceivePatch, ReceiveAdd, Receive, Go, Persists, TypeOK,
       Finished, StageFits
  <1>3. ASSUME NEW c \in Calls,
               CheckTable(c) \/ FetchMetadata(c) \/ IsNameTaken(c) \/ FindForUpdate(c) \/ LookUpTable(c)
        PROVE  Persists(d)
    BY <1>3 DEF CheckTable, FetchMetadata, IsNameTaken, FindForUpdate, LookUpTable,
       Go, Persists, TypeOK, Finished, StageFits, AfterChecks, AfterStatus
  <1>4. ASSUME NEW c \in Calls,
               InsertTable(c) \/ CreateRelation(c) \/ SetStatus(c) \/ LockRelation(c) \/ RenameRelation(c)
        PROVE  Persists(d)
    BY <1>4 DEF InsertTable, CreateRelation, SetStatus, LockRelation, RenameRelation,
       Take, Go, Persists, TypeOK, Finished, StageFits, AfterChecks, AfterStatus
  <1>5. ASSUME NEW c \in Calls, RegisterName(c) \/ Commit(c) \/ InsertFails(c) PROVE Persists(d)
    BY <1>5 DEF RegisterName, Commit, InsertFails, Take, Go, End, Persists, TypeOK, Finished, StageFits
  <1>6. ASSUME NEW c \in Calls, stage[c] \notin Finished \cup {"idle"}, Fail(c) PROVE Persists(d)
    BY <1>6 DEF Fail, End, Persists, TypeOK, Finished
  <1>7. ASSUME NEW c \in Calls,
               InsertRawData(c) \/ InsertRawFails(c) \/ FindRegistry(c) \/ FindRegistryFails(c)
               \/ RegisterRecords(c)
        PROVE  Persists(d)
    BY <1>7 DEF InsertRawData, InsertRawFails, FindRegistry, FindRegistryFails, RegisterRecords,
       Persists, TypeOK, Finished
  <1>8. ASSUME NEW c \in Calls, EndAdd(c) PROVE Persists(d)
    BY <1>8 DEF EndAdd, End, FirstError, Persists, TypeOK, Finished
  <1> QED
    BY <1>1, <1>2, <1>3, <1>4, <1>5, <1>6, <1>7, <1>8, FailsAreFailures DEF Next, Serve

\* A stage is reached by one kind of request only.
LEMMA StageStep == TypeOK /\ StageFits /\ [Next]_vars => StageFits'
  <1> SUFFICES ASSUME TypeOK, StageFits, [Next]_vars PROVE StageFits'
    OBVIOUS
  <1> USE NoneIsApart
  <1>1. CASE UNCHANGED vars
    BY <1>1 DEF vars, StageFits
  <1>2. ASSUME NEW c \in Calls, Receives(c) PROVE StageFits'
    BY <1>2 DEF Receives, ReceiveCreate, ReceivePatch, ReceiveAdd, Receive, Go, TypeOK,
       Finished, StageFits, CreateRequest, PatchRequest, AddRequest
  <1>3. ASSUME NEW c \in Calls,
               CheckTable(c) \/ FetchMetadata(c) \/ IsNameTaken(c) \/ FindForUpdate(c) \/ LookUpTable(c)
        PROVE  StageFits'
    BY <1>3 DEF CheckTable, FetchMetadata, IsNameTaken, FindForUpdate, LookUpTable,
       Go, TypeOK, Finished, StageFits, AfterChecks, AfterStatus
  <1>4. ASSUME NEW c \in Calls, InsertTable(c) \/ CreateRelation(c) \/ RenameRelation(c)
        PROVE  StageFits'
    BY <1>4 DEF InsertTable, CreateRelation, RenameRelation, Take, Go, TypeOK, Finished, StageFits
  <1>9. ASSUME NEW c \in Calls, SetStatus(c) PROVE StageFits'
    BY <1>9 DEF SetStatus, Take, Go, TypeOK, Finished, StageFits, AfterStatus
  <1>10. ASSUME NEW c \in Calls, LockRelation(c) PROVE StageFits'
    BY <1>10 DEF LockRelation, Take, Go, TypeOK, Finished, StageFits
  <1>5. ASSUME NEW c \in Calls, RegisterName(c) \/ Commit(c) \/ InsertFails(c) PROVE StageFits'
    BY <1>5 DEF RegisterName, Commit, InsertFails, Take, Go, End, TypeOK, Finished, StageFits
  <1>6. ASSUME NEW c \in Calls, stage[c] \notin Finished \cup {"idle"}, Fail(c) PROVE StageFits'
    BY <1>6 DEF Fail, End, TypeOK, Finished, StageFits
  <1>7. ASSUME NEW c \in Calls,
               InsertRawData(c) \/ InsertRawFails(c) \/ FindRegistry(c) \/ FindRegistryFails(c)
               \/ RegisterRecords(c)
        PROVE  StageFits'
    BY <1>7 DEF InsertRawData, InsertRawFails, FindRegistry, FindRegistryFails, RegisterRecords,
       TypeOK, Finished, StageFits
  <1>8. ASSUME NEW c \in Calls, EndAdd(c) PROVE StageFits'
    BY <1>8 DEF EndAdd, End, FirstError, TypeOK, Finished, StageFits
  <1> QED
    BY <1>1, <1>2, <1>3, <1>4, <1>5, <1>6, <1>7, <1>8, <1>9, <1>10, FailsAreFailures DEF Next, Serve

\* Names are given at commits; raw rows and records are written by the workers and
\* only there.
LEMMA SharedFrame ==
    ASSUME NEW c \in Calls, Receives(c) \/ Serve(c) \/ ConnectionLost(c)
    PROVE  /\ Commit(c) \/ UNCHANGED <<registered, relation>>
           /\ InsertRawData(c) \/ UNCHANGED rawRows
           /\ RegisterRecords(c) \/ UNCHANGED recordTable
  BY FailsAreFailures DEF Serve, Receives, ReceiveCreate, ReceivePatch, ReceiveAdd,
     CheckTable, FetchMetadata, IsNameTaken, FindForUpdate, LookUpTable, InsertTable,
     CreateRelation, SetStatus, LockRelation, RenameRelation, RegisterName, InsertFails, Commit,
     InsertRawData, InsertRawFails, FindRegistry, FindRegistryFails, RegisterRecords, EndAdd,
     Fail, database

\* The names of tables are never taken away.
LEMMA NamesStay ==
    ASSUME TypeOK, StageFits, Found, [Next]_vars,
           NEW t \in TableIds, registered[t] # None
    PROVE  registered'[t] # None
  <1> USE NoneIsApart
  <1>1. ASSUME NEW c \in Calls, Commit(c) PROVE registered'[t] # None
    BY <1>1 DEF Commit, NewRegistry, NewName, Named, Renames, Found, CreateRequest, PatchRequest, TypeOK
  <1> QED
    BY <1>1, SharedFrame DEF Next, vars

\* Raw rows are never deleted and records never unregistered.
LEMMA RowsStay ==
    ASSUME TypeOK, Found, [Next]_vars
    PROVE  /\ \A t \in TableIds : rawRows[t] \subseteq rawRows'[t]
           /\ \A x \in RecordIds : recordTable[x] # None => recordTable'[x] # None
  <1>1. ASSUME NEW c \in Calls, InsertRawData(c)
        PROVE  \A t \in TableIds : rawRows[t] \subseteq rawRows'[t]
    BY <1>1 DEF InsertRawData, TypeOK
  <1>2. ASSUME NEW c \in Calls, RegisterRecords(c)
        PROVE  \A x \in RecordIds : recordTable[x] # None => recordTable'[x] # None
    BY <1>2 DEF RegisterRecords, Found, TypeOK
  <1> QED
    BY <1>1, <1>2, SharedFrame DEF Next, vars

\* What a call has looked up is there.
LEMMA FoundStep == TypeOK /\ StageFits /\ Found /\ [Next]_vars => Found'
  <1> SUFFICES ASSUME TypeOK, StageFits, Found, [Next]_vars PROVE Found'
    OBVIOUS
  <1> USE NoneIsApart
  <1> DEFINE F(c) ==
        /\ stage[c] = "relation" => table[c] # None
        /\ stage[c] \in {"alter", "rename", "register"} =>
              table[c] # None /\ registered[table[c]] # None
        /\ stage[c] \in {"rename", "register"} => target[c] # None
        /\ stage[c] = "commit" => CreateRequest(request[c]) \/ PatchRequest(request[c])
        /\ stage[c] = "commit" /\ Named(c) => table[c] # None /\ target[c] # None
        /\ stage[c] = "commit" /\ request[c].op = "create" => ~Split(c)
        /\ reg[c] \in {"found", "done"} => table[c] # None
  <1>1. \A t \in TableIds : registered[t] # None => registered'[t] # None
    BY NamesStay
  \* A call that takes no part keeps what it has found.
  <1>2. ASSUME NEW d \in Calls,
               stage'[d] = stage[d], request'[d] = request[d], table'[d] = table[d],
               target'[d] = target[d], reg'[d] = reg[d]
        PROVE  F(d)'
    <2>1. F(d)
      BY DEF Found
    <2>2. table[d] # None => table[d] \in TableIds
      BY DEF TypeOK
    <2> QED
      BY <1>1, <1>2, <2>1, <2>2 DEF Named, Split
  <1>3. CASE UNCHANGED vars
    BY <1>2, <1>3 DEF vars, Found
  <1>4. ASSUME NEW c \in Calls, Receives(c) PROVE Found'
    <2>1. \A d \in Calls \ {c} : F(d)'
      BY <1>2, <1>4 DEF Receives, ReceiveCreate, ReceivePatch, ReceiveAdd, Receive, Go, TypeOK
    <2>2. F(c)'
      BY <1>4 DEF Receives, ReceiveCreate, ReceivePatch, ReceiveAdd, Receive, Go, TypeOK, Finished, StageFits
    <2> QED
      BY <2>1, <2>2 DEF Found
  <1>5. ASSUME NEW c \in Calls, CheckTable(c) \/ FetchMetadata(c) \/ IsNameTaken(c) PROVE Found'
    <2>1. \A d \in Calls \ {c} : F(d)'
      BY <1>2, <1>5 DEF CheckTable, FetchMetadata, IsNameTaken, Go, TypeOK
    <2>2. F(c)'
      BY <1>5 DEF CheckTable, FetchMetadata, IsNameTaken, Go, TypeOK, Finished, StageFits, AfterChecks,
         Named, CreateRequest, PatchRequest
    <2> QED
      BY <2>1, <2>2 DEF Found
  <1>6. ASSUME NEW c \in Calls, FindForUpdate(c) \/ SetStatus(c) PROVE Found'
    <2>1. \A d \in Calls \ {c} : F(d)'
      BY <1>2, <1>6 DEF FindForUpdate, SetStatus, Take, Go, TypeOK
    <2>2. F(c)'
      BY <1>6 DEF FindForUpdate, SetStatus, Take, Go, TypeOK, Finished, StageFits, AfterStatus,
         Named, CreateRequest, PatchRequest
    <2> QED
      BY <2>1, <2>2 DEF Found
  <1>7. ASSUME NEW c \in Calls, InsertTable(c) \/ CreateRelation(c) PROVE Found'
    <2>1. \A d \in Calls \ {c} : F(d)'
      BY <1>2, <1>7 DEF InsertTable, CreateRelation, Take, Go, TypeOK
    <2>2. F(c)'
      BY <1>7 DEF InsertTable, CreateRelation, Take, Go, TypeOK, StageFits, Found,
         Named, Split, CreateRequest, PatchRequest
    <2> QED
      BY <2>1, <2>2 DEF Found
  <1>8. ASSUME NEW c \in Calls, LookUpTable(c) PROVE Found'
    <2>1. \A d \in Calls \ {c} : F(d)'
      BY <1>2, <1>8 DEF LookUpTable, Go, TypeOK
    <2>2. Lookup(request[c].name) \in TableIds /\ registered[Lookup(request[c].name)] = request[c].name
      BY <1>8, LookupFinds DEF LookUpTable
    <2>3. F(c)'
      BY <1>8, <2>2 DEF LookUpTable, Go, TypeOK, StageFits, PatchRequest, AddRequest, database
    <2> QED
      BY <2>1, <2>3 DEF Found
  <1>9. ASSUME NEW c \in Calls, LockRelation(c) PROVE Found'
    <2>1. PICK t \in TableIds :
             Take(c, {<<"table", t>>}, "rename") /\ target' = [target EXCEPT ![c] = t]
      BY <1>9 DEF LockRelation, Relations
    <2>2. \A d \in Calls \ {c} : F(d)'
      BY <1>2, <1>9, <2>1 DEF LockRelation, Take, Go, TypeOK
    <2>3. F(c)'
      BY <1>9, <2>1 DEF LockRelation, Take, Go, TypeOK, StageFits, Found, AddRequest, PatchRequest, database
    <2> QED
      BY <2>2, <2>3 DEF Found
  <1>10. ASSUME NEW c \in Calls, RenameRelation(c) PROVE Found'
    <2>1. \A d \in Calls \ {c} : F(d)'
      BY <1>2, <1>10 DEF RenameRelation, Take, Go, TypeOK
    <2>2. F(c)'
      BY <1>10 DEF RenameRelation, Take, Go, TypeOK, StageFits, Found, database
    <2> QED
      BY <2>1, <2>2 DEF Found
  <1>11. ASSUME NEW c \in Calls, RegisterName(c) PROVE Found'
    <2>1. \A d \in Calls \ {c} : F(d)'
      BY <1>2, <1>11 DEF RegisterName, Take, End, Go, TypeOK
    <2>2. F(c)'
      BY <1>11 DEF RegisterName, Take, End, Go, TypeOK, StageFits, Found, PatchRequest
    <2> QED
      BY <2>1, <2>2 DEF Found
  <1>12. ASSUME NEW c \in Calls, Commit(c) \/ InsertFails(c) \/ EndAdd(c) \/ Fail(c) PROVE Found'
    <2>1. \A d \in Calls \ {c} : F(d)'
      BY <1>2, <1>12 DEF Commit, InsertFails, EndAdd, Fail, End, TypeOK
    <2>2. F(c)'
      BY <1>12 DEF Commit, InsertFails, EndAdd, Fail, End, FirstError, TypeOK, Found
    <2> QED
      BY <2>1, <2>2 DEF Found
  <1>13. ASSUME NEW c \in Calls,
                InsertRawData(c) \/ InsertRawFails(c) \/ FindRegistry(c) \/ FindRegistryFails(c)
                \/ RegisterRecords(c)
         PROVE  Found'
    <2>1. \A d \in Calls \ {c} : F(d)'
      <3> SUFFICES ASSUME NEW d \in Calls \ {c} PROVE F(d)'
        OBVIOUS
      <3>1. stage'[d] = stage[d] /\ request'[d] = request[d]
        BY <1>13 DEF InsertRawData, InsertRawFails, FindRegistry, FindRegistryFails,
           RegisterRecords
      <3>2. table'[d] = table[d]
        BY <1>13 DEF InsertRawData, InsertRawFails, FindRegistry, FindRegistryFails,
           RegisterRecords, TypeOK
      <3>3. target'[d] = target[d]
        BY <1>13 DEF InsertRawData, InsertRawFails, FindRegistry, FindRegistryFails,
           RegisterRecords, TypeOK
      <3>4. reg'[d] = reg[d]
        BY <1>13 DEF InsertRawData, InsertRawFails, FindRegistry, FindRegistryFails,
           RegisterRecords, TypeOK
      <3> QED
        BY <1>2, <3>1, <3>2, <3>3, <3>4
    <2>2. F(c)'
      BY <1>13, LookupFinds DEF InsertRawData, InsertRawFails, FindRegistry, FindRegistryFails,
         RegisterRecords, TypeOK, Found
    <2> QED
      BY <2>1, <2>2 DEF Found
  <1> QED
    BY <1>3, <1>4, <1>5, <1>6, <1>7, <1>8, <1>9, <1>10, <1>11, <1>12, <1>13, FailsAreFailures
       DEF Next, Serve

\* The steps of an upload.
LEMMA UploadSteps ==
    ASSUME TypeOK, StageFits, Found, [Next]_vars, NEW d \in Calls
    PROVE  /\ raw'[d] = "done" /\ raw[d] # "done" => InsertRawData(d)
           /\ reg'[d] = "done" /\ reg[d] # "done" => RegisterRecords(d)
           /\ stage'[d] = "done" /\ stage[d] # "done" /\ AddRequest(request'[d]) => EndAdd(d)
  <1>1. CASE UNCHANGED vars
    BY <1>1 DEF vars
  <1>2. ASSUME NEW c \in Calls, Receives(c)
        PROVE  raw' = raw /\ reg' = reg /\ (stage'[d] = "done" => stage[d] = "done")
    BY <1>2 DEF Receives, ReceiveCreate, ReceivePatch, ReceiveAdd, Receive, Go, TypeOK
  <1>3. ASSUME NEW c \in Calls,
               InsertTable(c) \/ CreateRelation(c) \/ RenameRelation(c) \/ LockRelation(c)
               \/ LookUpTable(c) \/ RegisterName(c) \/ InsertFails(c) \/ Fail(c)
        PROVE  raw' = raw /\ reg' = reg /\ (stage'[d] = "done" => stage[d] = "done")
    BY <1>3 DEF InsertTable, CreateRelation, RenameRelation, LockRelation, LookUpTable,
       RegisterName, InsertFails, Fail, Take, Go, End, TypeOK
  <1>4. ASSUME NEW c \in Calls, SetStatus(c) \/ FetchMetadata(c) \/ IsNameTaken(c) \/ FindForUpdate(c)
        PROVE  raw' = raw /\ reg' = reg /\ (stage'[d] = "done" => stage[d] = "done")
    BY <1>4 DEF SetStatus, FetchMetadata, IsNameTaken, FindForUpdate, AfterChecks, AfterStatus,
       Take, Go, TypeOK
  <1>5. ASSUME NEW c \in Calls, CheckTable(c) \/ Commit(c)
        PROVE  /\ raw' = raw /\ reg' = reg
               /\ stage'[d] = "done" /\ AddRequest(request'[d]) => stage[d] = "done"
    BY <1>5 DEF CheckTable, Commit, Go, End, TypeOK, StageFits, Found, CreateRequest, PatchRequest,
       AddRequest
  <1>6. ASSUME NEW c \in Calls, InsertRawData(c) \/ InsertRawFails(c)
        PROVE  /\ raw'[d] = "done" /\ raw[d] # "done" => InsertRawData(d)
               /\ reg' = reg /\ stage' = stage
    BY <1>6 DEF InsertRawData, InsertRawFails, TypeOK
  <1>7. ASSUME NEW c \in Calls, FindRegistry(c) \/ FindRegistryFails(c) \/ RegisterRecords(c)
        PROVE  /\ reg'[d] = "done" /\ reg[d] # "done" => RegisterRecords(d)
               /\ raw' = raw /\ stage' = stage
    BY <1>7 DEF FindRegistry, FindRegistryFails, RegisterRecords, TypeOK
  <1>8. ASSUME NEW c \in Calls, EndAdd(c)
        PROVE  /\ raw' = raw /\ reg' = reg
               /\ stage'[d] = "done" /\ stage[d] # "done" => EndAdd(d)
    BY <1>8 DEF EndAdd, End, TypeOK
  <1> QED
    BY <1>1, <1>2, <1>3, <1>4, <1>5, <1>6, <1>7, <1>8, FailsAreFailures DEF Next, Serve

\* What the workers have committed is there.
LEMMA CommittedStep ==
    TypeOK /\ StageFits /\ Found /\ WorkersCommitted /\ [Next]_vars => WorkersCommitted'
  <1> SUFFICES ASSUME TypeOK, StageFits, Found, WorkersCommitted, [Next]_vars,
                      NEW d \in Calls
               PROVE  /\ raw'[d] = "done" => /\ target'[d] # None
                                            /\ Ids(request'[d]) \subseteq rawRows'[target'[d]]
                      /\ reg'[d] = "done" => \A x \in Ids(request'[d]) : recordTable'[x] # None
                      /\ stage'[d] = "done" /\ AddRequest(request'[d]) =>
                            raw'[d] = "done" /\ reg'[d] = "done"
    BY DEF WorkersCommitted
  <1> USE NoneIsApart
  <1>1. Persists(d)
    BY CallPersists
  <1>2. AddRequest(request[d]) => Ids(request[d]) \in SUBSET RecordIds
    BY DEF AddRequest, Ids, RecordIds
  <1>3. ASSUME raw'[d] = "done"
        PROVE  target'[d] # None /\ Ids(request'[d]) \subseteq rawRows'[target'[d]]
    <2>1. CASE raw[d] = "done"
      <3>1. /\ target'[d] = target[d] /\ target[d] \in TableIds
            /\ Ids(request'[d]) = Ids(request[d]) /\ Ids(request[d]) \subseteq rawRows[target[d]]
        BY <1>1, <2>1 DEF Persists, StageFits, Finished, WorkersCommitted, TypeOK, Ids
      <3> QED
        BY <3>1, RowsStay
    <2>2. CASE raw[d] # "done"
      <3>1. InsertRawData(d)
        BY <1>3, <2>2, UploadSteps
      <3> QED
        BY <3>1 DEF InsertRawData, Relations, TypeOK
    <2> QED
      BY <2>1, <2>2
  <1>4. ASSUME reg'[d] = "done" PROVE \A x \in Ids(request'[d]) : recordTable'[x] # None
    <2>1. CASE reg[d] = "done"
      <3>1. /\ Ids(request'[d]) = Ids(request[d]) /\ AddRequest(request[d])
            /\ \A x \in Ids(request[d]) : recordTable[x] # None
        BY <1>1, <2>1 DEF Persists, StageFits, Finished, WorkersCommitted, Ids
      <3> QED
        BY <1>2, <3>1, RowsStay
    <2>2. CASE reg[d] # "done"
      <3>1. RegisterRecords(d)
        BY <1>4, <2>2, UploadSteps
      <3>2. AddRequest(request[d]) /\ table[d] # None /\ Ids(request'[d]) = Ids(request[d])
        BY <3>1 DEF RegisterRecords, StageFits, Found, Ids
      <3> QED
        BY <1>2, <3>1, <3>2 DEF RegisterRecords
    <2> QED
      BY <2>1, <2>2
  <1>5. ASSUME stage'[d] = "done", AddRequest(request'[d])
        PROVE  raw'[d] = "done" /\ reg'[d] = "done"
    <2>1. CASE stage[d] = "done"
      BY <1>1, <1>5, <2>1 DEF Persists, Finished, WorkersCommitted
    <2>2. CASE stage[d] # "done"
      <3>1. EndAdd(d)
        BY <1>5, <2>2, UploadSteps
      <3> QED
        BY <1>5, <3>1 DEF EndAdd, End, FirstError, Waited, Finished, TypeOK
    <2> QED
      BY <2>1, <2>2
  <1> QED
    BY <1>3, <1>4, <1>5

\* The two names of a table differ only where a rename has met two tables.
LEMMA AgreeStep ==
    TypeOK /\ StageFits /\ Found /\ NamesAgree /\ [Next]_vars => NamesAgree'
  <1> SUFFICES ASSUME TypeOK, StageFits, Found, NamesAgree, [Next]_vars,
                      NEW t \in TableIds, registered'[t] # relation'[t], t \notin SplitBefore
               PROVE  \E d \in Calls : RenamedSplit(d)' /\ t \in {table'[d], target'[d]}
    BY DEF NamesAgree
  <1>1. ASSUME NEW d \in Calls, RenamedSplit(d), t \in {table[d], target[d]}
        PROVE  RenamedSplit(d)' /\ t \in {table'[d], target'[d]}
    BY <1>1, CallPersists DEF Persists, RenamedSplit, Split, Finished
  <1>2. CASE registered[t] # relation[t]
    BY <1>1, <1>2 DEF NamesAgree
  <1>3. CASE registered[t] = relation[t]
    <2>1. PICK c \in Calls : Commit(c)
      BY <1>3, SharedFrame DEF Next, vars
    <2>2. Named(c) /\ t \in {table[c], target[c]} /\ Split(c)
      BY <1>3, <2>1 DEF Commit, NewRegistry, NewRelations, Split, TypeOK
    <2>3. Renames(request[c])
      BY <2>1, <2>2 DEF Commit, Found, Named
    <2>4. /\ stage'[c] = "done" /\ request'[c] = request[c]
          /\ table'[c] = table[c] /\ target'[c] = target[c]
      BY <2>1 DEF Commit, End, TypeOK
    <2> QED
      BY <2>2, <2>3, <2>4 DEF RenamedSplit, Split
  <1> QED
    BY <1>2, <1>3

\* Where a record and its row part, an upload of the row explains it.
LEMMA LocatedStep ==
    TypeOK /\ StageFits /\ Found /\ WorkersCommitted /\ RecordIsLocated /\ [Next]_vars
       /\ TypeOK' /\ WorkersCommitted'
       => RecordIsLocated'
  <1> SUFFICES ASSUME TypeOK, StageFits, Found, WorkersCommitted, RecordIsLocated, [Next]_vars,
                      TypeOK', WorkersCommitted', NEW x \in RecordIds
               PROVE  /\ \A t \in TableIds : recordTable'[x] = t /\ x \notin rawRows'[t] =>
                            \E d \in Calls : /\ Uploads(d, x)' /\ reg'[d] = "done" /\ table'[d] = t
                                            /\ (stage'[d] # "done" \/ Split(d)')
                      /\ recordTable'[x] = None /\ (\E t \in TableIds : x \in rawRows'[t]) =>
                            \E d \in Calls : /\ Uploads(d, x)' /\ raw'[d] = "done"
                                            /\ stage'[d] # "done"
                      /\ \A d \in Calls : Uploads(d, x)' /\ stage'[d] = "done" =>
                            x \in rawRows'[target'[d]] /\ recordTable'[x] # None
    BY DEF RecordIsLocated
  <1> USE NoneIsApart
  <1>1. ASSUME NEW d \in Calls, Uploads(d, x), raw[d] = "done" \/ reg[d] = "done"
        PROVE  Uploads(d, x)'
    BY <1>1, CallPersists DEF Uploads, Ids, Persists, StageFits, Finished
  <1>2. ASSUME NEW d \in Calls, Uploads(d, x), raw[d] = "done" \/ reg[d] = "done",
               stage[d] # "done", stage'[d] = "done"
        PROVE  /\ reg[d] = "done" /\ raw[d] = "done"
               /\ table'[d] = table[d] /\ target'[d] = target[d]
               /\ x \in rawRows[target[d]] /\ recordTable[x] # None
    <2>1. AddRequest(request[d]) /\ request'[d] = request[d]
      BY <1>2, CallPersists DEF StageFits, Persists, Finished
    <2>2. EndAdd(d)
      BY <1>2, <2>1, UploadSteps
    <2>3. reg[d] = "done" /\ raw[d] = "done" /\ table' = table /\ target' = target
      BY <1>2, <2>2 DEF EndAdd, End, FirstError, Waited, Finished, TypeOK
    <2> QED
      BY <1>2, <2>3 DEF WorkersCommitted, Uploads
  <1>3. ASSUME NEW t \in TableIds, recordTable'[x] = t, x \notin rawRows'[t]
        PROVE  \E d \in Calls : /\ Uploads(d, x)' /\ reg'[d] = "done" /\ table'[d] = t
                               /\ (stage'[d] # "done" \/ Split(d)')
    <2>0. x \notin rawRows[t]
      BY <1>3, RowsStay
    <2>1. CASE recordTable[x] = t
      <3>1. PICK d \in Calls : /\ Uploads(d, x) /\ reg[d] = "done" /\ table[d] = t
                              /\ (stage[d] # "done" \/ Split(d))
        BY <2>0, <2>1 DEF RecordIsLocated
      <3>2. Uploads(d, x)' /\ reg'[d] = "done" /\ table'[d] = t
        BY <1>1, <3>1, CallPersists DEF Persists
      <3>3. CASE stage[d] = "done"
        BY <3>1, <3>2, <3>3, CallPersists DEF Persists, Split, Finished
      <3>4. CASE stage[d] # "done" /\ stage'[d] = "done"
        BY <1>2, <2>0, <3>1, <3>2, <3>4 DEF Split
      <3> QED
        BY <3>2, <3>3, <3>4
    <2>2. CASE recordTable[x] # t
      <3>1. PICK c \in Calls : RegisterRecords(c)
        BY <1>3, <2>2, SharedFrame DEF Next, vars
      <3>2. x \in Ids(request[c]) /\ table[c] = t
        BY <1>3, <2>2, <3>1 DEF RegisterRecords
      <3>3. /\ AddRequest(request[c]) /\ request[c] # None /\ request'[c] = request[c]
            /\ reg'[c] = "done" /\ table'[c] = t /\ stage'[c] = "workers"
        BY <3>1, <3>2 DEF RegisterRecords, StageFits, TypeOK
      <3> QED
        BY <3>2, <3>3 DEF Uploads, Ids, AddRequest
    <2> QED
      BY <2>1, <2>2
  <1>4. ASSUME recordTable'[x] = None, NEW t \in TableIds, x \in rawRows'[t]
        PROVE  \E d \in Calls : Uploads(d, x)' /\ raw'[d] = "done" /\ stage'[d] # "done"
    <2>0. recordTable[x] = None
      BY <1>4, RowsStay
    <2>1. CASE x \in rawRows[t]
      <3>1. PICK d \in Calls : Uploads(d, x) /\ raw[d] = "done" /\ stage[d] # "done"
        BY <2>0, <2>1 DEF RecordIsLocated
      <3>2. Uploads(d, x)' /\ raw'[d] = "done"
        BY <1>1, <3>1, CallPersists DEF Persists
      <3>3. stage'[d] # "done"
        BY <1>2, <2>0, <3>1
      <3> QED
        BY <3>2, <3>3
    <2>2. CASE x \notin rawRows[t]
      <3>1. PICK c \in Calls : InsertRawData(c)
        BY <1>4, <2>2, SharedFrame DEF Next, vars
      <3>2. x \in Ids(request[c])
        BY <1>4, <2>2, <3>1 DEF InsertRawData, Relations, TypeOK
      <3>3. /\ AddRequest(request[c]) /\ request[c] # None /\ request'[c] = request[c]
            /\ raw'[c] = "done" /\ stage'[c] = "workers"
        BY <3>1 DEF InsertRawData, StageFits, TypeOK
      <3> QED
        BY <3>2, <3>3 DEF Uploads, Ids, AddRequest
    <2> QED
      BY <2>1, <2>2
  <1>5. ASSUME NEW d \in Calls, Uploads(d, x)', stage'[d] = "done"
        PROVE  x \in rawRows'[target'[d]] /\ recordTable'[x] # None
    <2>1. AddRequest(request'[d]) /\ x \in Ids(request'[d])
      BY <1>5, MenuIsValid DEF Uploads, TypeOK, CreateRequest, PatchRequest, Ids
    <2> QED
      BY <1>5, <2>1 DEF WorkersCommitted
  <1> QED
    BY <1>3, <1>4, <1>5

-------------------------------------------------------------------------------
LEMMA IInvInit == Init => IInv
  <1> SUFFICES ASSUME Init PROVE IInv
    OBVIOUS
  <1> USE NoneIsApart DEF Init
  <1>1. TypeOK
    BY InitialNamesDiffer, IdsAreNumbers, DefaultIsStatus DEF TypeOK, Stages
  <1>2. StageFits /\ Found /\ WorkersCommitted
    BY DEF StageFits, Found, WorkersCommitted, Finished
  <1>3. NamesAgree /\ RecordIsLocated
    BY DEF NamesAgree, RecordIsLocated, SplitBefore, Uploads
  <1> QED
    BY <1>1, <1>2, <1>3 DEF IInv

LEMMA IInvStep == IInv /\ [Next]_vars => IInv'
  BY TypeStep, StageStep, FoundStep, CommittedStep, AgreeStep, LocatedStep DEF IInv

\* The inductive invariant holds in every reachable state: a stage fits its
\* request, what a call has found is there, what a worker has committed stays.
THEOREM InductiveInvariant == Spec => []IInv
  BY IInvInit, IInvStep, PTL DEF Spec

\* Types: the ids, names and keys the handlers compute are ids, names and keys.
THEOREM TypesHold == Spec => []TypeOK
  BY InductiveInvariant, PTL DEF IInv

\* The row of layer0.tables and the relation of a table carry one name, unless
\* rename_raw_table altered another relation than it had looked up.
THEOREM NamesAlwaysAgree == Spec => []NamesAgree
  BY InductiveInvariant, PTL DEF IInv

\* A record lies in the table it names and a raw row has a record, unless an
\* upload of the row is unfinished, failed, or found two tables; an upload that was
\* answered has both.
THEOREM RecordsAreLocated == Spec => []RecordIsLocated
  BY InductiveInvariant, PTL DEF IInv

-------------------------------------------------------------------------------
\* A call moves only what is its own.
Own(d) == <<request[d], stage[d], table[d], target[d], patched[d], raw[d], reg[d], locks[d]>>

LEMMA OthersStand ==
    ASSUME TypeOK, NEW c \in Calls, Receives(c) \/ Serve(c) \/ ConnectionLost(c),
           NEW d \in Calls \ {c}
    PROVE  UNCHANGED Own(d)
  <1>1. CASE Receives(c)
    BY <1>1 DEF Receives, ReceiveCreate, ReceivePatch, ReceiveAdd, Receive, Go, Own, TypeOK
  <1>2. CASE CheckTable(c) \/ FetchMetadata(c) \/ IsNameTaken(c) \/ FindForUpdate(c) \/ LookUpTable(c)
    BY <1>2 DEF CheckTable, FetchMetadata, IsNameTaken, FindForUpdate, LookUpTable, Go, Own, TypeOK
  <1>3. CASE InsertTable(c) \/ CreateRelation(c) \/ SetStatus(c) \/ LockRelation(c)
                \/ RenameRelation(c) \/ RegisterName(c)
    BY <1>3 DEF InsertTable, CreateRelation, SetStatus, LockRelation, RenameRelation, RegisterName,
       Take, End, Go, Own, TypeOK
  <1>4. CASE InsertFails(c) \/ Commit(c) \/ EndAdd(c) \/ Fail(c)
    BY <1>4 DEF InsertFails, Commit, EndAdd, Fail, End, Own, TypeOK
  <1>5. CASE InsertRawData(c) \/ InsertRawFails(c) \/ FindRegistry(c) \/ FindRegistryFails(c)
                \/ RegisterRecords(c)
    BY <1>5 DEF InsertRawData, InsertRawFails, FindRegistry, FindRegistryFails, RegisterRecords,
       Own, TypeOK
  <1> QED
    BY <1>1, <1>2, <1>3, <1>4, <1>5, FailsAreFailures DEF Serve

\* Locks are given where no other call has them.
LEMMA LocksStep == TypeOK /\ LocksApart /\ [Next]_vars => LocksApart'
  <1> SUFFICES ASSUME TypeOK, LocksApart, [Next]_vars PROVE LocksApart'
    OBVIOUS
  <1>1. CASE UNCHANGED vars
    BY <1>1 DEF vars, LocksApart
  <1>2. ASSUME NEW c \in Calls, Receives(c) \/ Serve(c) \/ ConnectionLost(c) PROVE LocksApart'
    <2>1. \A d \in Calls \ {c} : locks'[d] = locks[d]
      BY <1>2, OthersStand DEF Own
    <2>2. locks'[c] \subseteq locks[c] \/ \E K : Free(K, c) /\ locks'[c] = locks[c] \cup K
      <3>1. CASE Receives(c)
        BY <3>1 DEF Receives, ReceiveCreate, ReceivePatch, ReceiveAdd, Receive
      <3>2. ASSUME NEW K, NEW next, Take(c, K, next)
            PROVE  Free(K, c) /\ locks'[c] = locks[c] \cup K
        BY <3>2 DEF Take, TypeOK
      <3>5. CASE InsertTable(c) \/ CreateRelation(c)
        BY <3>2, <3>5 DEF InsertTable, CreateRelation
      <3>6. CASE SetStatus(c) \/ RenameRelation(c)
        BY <3>2, <3>6 DEF SetStatus, RenameRelation
      <3>7. CASE LockRelation(c)
        BY <3>2, <3>7 DEF LockRelation
      <3>8. CASE RegisterName(c)
        BY <3>2, <3>8 DEF RegisterName, End, TypeOK
      <3>3. CASE InsertFails(c) \/ Commit(c) \/ EndAdd(c) \/ Fail(c)
        BY <3>3 DEF InsertFails, Commit, EndAdd, Fail, End, TypeOK
      <3>4. CASE UNCHANGED locks
        BY <3>4
      <3> QED
        BY <1>2, <3>1, <3>3, <3>4, <3>5, <3>6, <3>7, <3>8, FailsAreFailures
           DEF Serve, CheckTable, FetchMetadata, IsNameTaken, FindForUpdate, LookUpTable,
               InsertRawData, InsertRawFails, FindRegistry, FindRegistryFails, RegisterRecords
    <2> QED
      BY <2>1, <2>2 DEF LocksApart, Free
  <1> QED
    BY <1>1, <1>2 DEF Next

\* A moved name stays one.
LEMMA MovedGrows ==
    ASSUME TypeOK, StageFits, [Next]_vars
    PROVE  Moved \subseteq Moved'
  <1>1. ASSUME NEW o \in Calls, stage[o] = "done"
        PROVE  stage'[o] = "done" /\ request'[o] = request[o]
    BY <1>1, CallPersists DEF Persists, Finished
  <1> QED
    BY <1>1 DEF Moved

\* What a commit does to the names: a creation gives its name to both sides of its table,
\* a rename replaces moved names by moved ones.
Gives(o) ==
    /\ Commit(o) /\ Creating(o) /\ table[o] \in TableIds
    /\ registered' = [registered EXCEPT ![table[o]] = request[o].name]
    /\ relation' = [relation EXCEPT ![table[o]] = request[o].name]
MovesOnly ==
    \A t \in TableIds :
       /\ registered'[t] = registered[t] \/ {registered[t], registered'[t]} \subseteq Moved'
       /\ relation'[t] = relation[t] \/ {relation[t], relation'[t]} \subseteq Moved'

LEMMA NameSteps ==
    ASSUME IInv, MovesInv, [Next]_vars
    PROVE  MovesOnly \/ \E o \in Calls : Gives(o)
  <1>1. CASE UNCHANGED <<registered, relation>>
    BY <1>1 DEF MovesOnly
  <1>2. ASSUME NEW o \in Calls, Commit(o) PROVE MovesOnly \/ Gives(o)
    <2>1. stage[o] = "commit" /\ request[o] # None
      BY <1>2 DEF Commit, IInv, StageFits
    <2>2. CASE request[o].op = "create"
      BY <1>2, <2>1, <2>2 DEF Commit, Creating, Gives, NewRegistry, NewRelations, NewName, Named, Split,
         IInv, Found, TypeOK
    <2>3. CASE Renames(request[o])
      <3>1. /\ table[o] \in TableIds /\ target[o] \in TableIds
            /\ registered' = [registered EXCEPT ![table[o]] = request[o].new]
            /\ relation' = [relation EXCEPT ![target[o]] = request[o].new]
        BY <1>2, <2>1, <2>3 DEF Commit, NewRegistry, NewRelations, NewName, Named, Renames, IInv, Found, TypeOK
      <3>2. registered[table[o]] \in {request[o].name} \cup Moved /\ relation[target[o]] \in {request[o].name} \cup Moved
        BY <2>1, <2>3 DEF MovesInv, CallsFollow, RenameFollows
      <3>3. stage'[o] = "done" /\ request'[o] = request[o]
        BY <1>2 DEF Commit, End, IInv, TypeOK
      <3>4. request[o].name \in Names /\ request[o].new \in Names
        BY <2>1, <2>3 DEF Renames, IInv, Found, CreateRequest, PatchRequest
      <3>5. request[o].name \in Moved' /\ request[o].new \in Moved'
        BY <2>3, <3>3, <3>4 DEF Moved
      <3>6. Moved \subseteq Moved'
        BY MovedGrows DEF IInv
      <3> QED
        BY <3>1, <3>2, <3>5, <3>6 DEF MovesOnly, IInv, TypeOK
    <2>4. CASE ~Named(o)
      BY <1>2, <2>4 DEF Commit, NewRegistry, NewRelations, MovesOnly
    <2> QED
      BY <2>2, <2>3, <2>4 DEF Named
  <1> QED
    BY <1>1, <1>2, SharedFrame DEF Next, vars

\* So a name that was found is still there, or moved.
LEMMA FoundNameStays ==
    ASSUME IInv, MovesInv, [Next]_vars, NEW t \in TableIds
    PROVE  /\ registered[t] # None =>
                 registered'[t] = registered[t] \/ {registered[t], registered'[t]} \subseteq Moved'
           /\ relation[t] # None =>
                 relation'[t] = relation[t] \/ {relation[t], relation'[t]} \subseteq Moved'
  <1>1. CASE MovesOnly
    BY <1>1 DEF MovesOnly
  <1>2. ASSUME NEW o \in Calls, Gives(o)
        PROVE  /\ registered[t] # None => registered'[t] = registered[t]
               /\ relation[t] # None => relation'[t] = relation[t]
    <2>1. registered[table[o]] = None /\ relation[table[o]] = None
      BY <1>2 DEF Gives, MovesInv, IdsAreFresh
    <2> QED
      BY <1>2, <2>1 DEF Gives, IInv, TypeOK
  <1> QED
    BY <1>1, <1>2, NameSteps

\* A step is a call's own, or leaves what is its own.
LEMMA OwnSteps ==
    ASSUME TypeOK, [Next]_vars, NEW d \in Calls
    PROVE  UNCHANGED Own(d) \/ Receives(d) \/ Serve(d) \/ ConnectionLost(d)
  BY OthersStand DEF Next, vars, Own

\* A creation that has its id has just drawn it, or goes on with it.
LEMMA CreatingStep ==
    ASSUME IInv, [Next]_vars, NEW c \in Calls, Creating(c)'
    PROVE  \/ InsertTable(c)
           \/ /\ Creating(c) /\ request'[c] = request[c] /\ table'[c] = table[c]
              /\ locks[c] \subseteq locks'[c]
  <1>1. CASE UNCHANGED Own(c)
    BY <1>1 DEF Own, Creating
  <1>2. CASE Receives(c)
    BY <1>2 DEF Receives, ReceiveCreate, ReceivePatch, ReceiveAdd, Receive, Go, Creating, IInv, TypeOK
  <1>3. CASE CheckTable(c) \/ FetchMetadata(c) \/ IsNameTaken(c) \/ FindForUpdate(c) \/ LookUpTable(c)
    <2>1. stage[c] \in {"fetch", "taken", "find", "lookup"} => request[c].op = "patch"
      BY DEF IInv, StageFits, PatchRequest
    <2> QED
      BY <1>3, <2>1 DEF CheckTable, FetchMetadata, IsNameTaken, FindForUpdate, LookUpTable, Go,
         AfterChecks, AfterStatus, Creating, IInv, TypeOK
  <1>4. CASE SetStatus(c) \/ LockRelation(c) \/ RenameRelation(c) \/ RegisterName(c)
    <2>1. stage[c] \in {"set", "alter", "rename", "register"} => request[c].op = "patch"
      BY DEF IInv, StageFits, PatchRequest
    <2>2. request' = request
      BY <1>4 DEF SetStatus, LockRelation, RenameRelation, RegisterName
    <2> QED
      BY <1>4, <2>1, <2>2 DEF SetStatus, LockRelation, RenameRelation, RegisterName, Creating
  <1>5. CASE CreateRelation(c)
    BY <1>5 DEF CreateRelation, Take, Go, Creating, IInv, TypeOK, StageFits, CreateRequest
  <1>6. CASE InsertFails(c) \/ Commit(c) \/ EndAdd(c) \/ Fail(c)
    BY <1>6 DEF InsertFails, Commit, EndAdd, FirstError, Fail, End, Creating, IInv, TypeOK
  <1>7. CASE InsertRawData(c) \/ InsertRawFails(c) \/ FindRegistry(c) \/ FindRegistryFails(c)
                \/ RegisterRecords(c)
    BY <1>7 DEF InsertRawData, InsertRawFails, FindRegistry, FindRegistryFails, RegisterRecords,
       Creating
  <1> QED
    BY <1>1, <1>2, <1>3, <1>4, <1>5, <1>6, <1>7, OwnSteps, FailsAreFailures DEF Serve, IInv

\* The sequence draws one id at a time.
LEMMA SequenceStep ==
    ASSUME [Next]_vars
    PROVE  nextTable' \in {nextTable, nextTable + 1}
  <1>1. CASE UNCHANGED vars
    BY <1>1 DEF vars
  <1>2. ASSUME NEW c \in Calls, Receives(c) PROVE nextTable' = nextTable
    BY <1>2 DEF Receives, ReceiveCreate, ReceivePatch, ReceiveAdd, database
  <1>3. ASSUME NEW c \in Calls, Serve(c) PROVE nextTable' \in {nextTable, nextTable + 1}
    <2>1. CASE CheckTable(c) \/ FetchMetadata(c) \/ IsNameTaken(c) \/ FindForUpdate(c)
               \/ SetStatus(c) \/ LookUpTable(c) \/ LockRelation(c) \/ RenameRelation(c)
               \/ RegisterName(c) \/ CreateRelation(c)
      BY <2>1 DEF CheckTable, FetchMetadata, IsNameTaken, FindForUpdate, SetStatus, LookUpTable,
         LockRelation, RenameRelation, RegisterName, CreateRelation, database
    <2>2. CASE InsertTable(c) \/ InsertFails(c) \/ Commit(c)
      BY <2>2 DEF InsertTable, InsertFails, Commit
    <2>3. CASE InsertRawData(c) \/ InsertRawFails(c) \/ FindRegistry(c) \/ FindRegistryFails(c)
               \/ RegisterRecords(c) \/ EndAdd(c) \/ Fail(c)
      BY <2>3 DEF InsertRawData, InsertRawFails, FindRegistry, FindRegistryFails,
         RegisterRecords, EndAdd, Fail, database
    <2> QED
      BY <1>3, <2>1, <2>2, <2>3, FailsAreFailures DEF Serve
  <1>4. ASSUME NEW c \in Calls, ConnectionLost(c) PROVE nextTable' = nextTable
    BY <1>4, FailsAreFailures DEF Fail, database
  <1> QED
    BY <1>1, <1>2, <1>3, <1>4 DEF Next

\* The id a creation has drawn is nobody else's.
LEMMA FreshStep == IInv /\ MovesInv /\ [Next]_vars => IdsAreFresh'
  <1> SUFFICES ASSUME IInv, MovesInv, [Next]_vars PROVE IdsAreFresh'
    OBVIOUS
  <1> USE NoneIsApart
  <1>1. nextTable \in Nat /\ nextTable' \in Nat /\ nextTable <= nextTable'
    BY SequenceStep DEF IInv, TypeOK
  <1>2. \A t \in TableIds : t \in Nat
    BY IdsAreNumbers
  <1>3. ASSUME NEW t \in TableIds, registered[t] = None, relation[t] = None,
               \A o \in Calls : Gives(o) => table[o] # t
        PROVE  registered'[t] = None /\ relation'[t] = None
    <2>1. CASE MovesOnly
      <3>1. None \notin Moved'
        BY DEF Moved
      <3> QED
        BY <1>3, <2>1, <3>1 DEF MovesOnly
    <2>2. ASSUME NEW o \in Calls, Gives(o)
          PROVE  registered'[t] = registered[t] /\ relation'[t] = relation[t]
      BY <1>3, <2>2 DEF Gives, IInv, TypeOK
    <2> QED
      BY <1>3, <2>1, <2>2, NameSteps
  <1>4. ASSUME NEW t \in TableIds, t >= nextTable'
        PROVE  registered'[t] = None /\ relation'[t] = None
    <2>1. t >= nextTable
      BY <1>1, <1>2, <1>4
    <2>2. registered[t] = None /\ relation[t] = None
      BY <2>1 DEF MovesInv, IdsAreFresh
    <2>3. ASSUME NEW o \in Calls, Gives(o) PROVE table[o] # t
      <3>1. table[o] < nextTable /\ table[o] \in TableIds
        BY <2>3 DEF Gives, MovesInv, IdsAreFresh
      <3> QED
        BY <1>1, <1>2, <2>1, <3>1
    <2> QED
      BY <1>3, <2>2, <2>3
  <1>5. ASSUME NEW c \in Calls, Creating(c)', ~InsertTable(c)
        PROVE  /\ registered'[table'[c]] = None /\ relation'[table'[c]] = None
               /\ table'[c] < nextTable' /\ <<"registry", request'[c].name>> \in locks'[c]
               /\ Creating(c) /\ table'[c] = table[c] /\ table[c] \in TableIds /\ table[c] < nextTable
    <2>1. /\ Creating(c) /\ request'[c] = request[c] /\ table'[c] = table[c]
          /\ locks[c] \subseteq locks'[c]
      BY <1>5, CreatingStep
    <2>2. /\ registered[table[c]] = None /\ relation[table[c]] = None /\ table[c] < nextTable
          /\ <<"registry", request[c].name>> \in locks[c]
          /\ \A o \in Calls \ {c} : Creating(o) => table[o] # table[c]
      BY <2>1 DEF MovesInv, IdsAreFresh
    <2>3. table[c] \in TableIds
      BY <2>1 DEF IInv, Found, Creating, Named, TypeOK
    <2>4. \A o \in Calls : Gives(o) => table[o] # table[c]
      <3>1. ~Gives(c)
        BY <1>5 DEF Gives, Commit, End, Creating, IInv, TypeOK
      <3> QED
        BY <2>2, <3>1 DEF Gives
    <2>5. table[c] < nextTable'
      BY <1>1, <1>2, <2>2, <2>3
    <2> QED
      BY <1>3, <2>1, <2>2, <2>3, <2>4, <2>5
  <1>6. ASSUME NEW c \in Calls, InsertTable(c)
        PROVE  /\ registered'[table'[c]] = None /\ relation'[table'[c]] = None
               /\ table'[c] < nextTable' /\ <<"registry", request'[c].name>> \in locks'[c]
               /\ table'[c] = nextTable /\ \A o \in Calls \ {c} : ~InsertTable(o)
    <2>1. /\ nextTable \in TableIds /\ nextTable' = nextTable + 1 /\ table'[c] = nextTable
          /\ UNCHANGED <<registered, relation, request>>
          /\ locks'[c] = locks[c] \cup {<<"registry", request[c].name>>}
      BY <1>6 DEF InsertTable, Take, IInv, TypeOK
    <2>2. registered[nextTable] = None /\ relation[nextTable] = None
      <3>1. nextTable >= nextTable
        BY <1>1
      <3> QED
        BY <2>1, <3>1 DEF MovesInv, IdsAreFresh
    <2>3. table'[c] < nextTable'
      BY <1>1, <2>1
    <2>4. ASSUME NEW o \in Calls \ {c} PROVE ~InsertTable(o)
      <3>1. stage'[o] = stage[o]
        BY <1>6, OthersStand DEF Serve, Own, IInv
      <3> QED
        BY <3>1 DEF InsertTable, Take, Go, IInv, TypeOK
    <2> QED
      BY <2>1, <2>2, <2>3, <2>4
  <1>7. ASSUME NEW c \in Calls, NEW o \in Calls \ {c}, Creating(c)', Creating(o)'
        PROVE  table'[o] # table'[c]
    <2>1. CASE InsertTable(c)
      <3>1. table'[c] = nextTable /\ ~InsertTable(o)
        BY <1>6, <2>1
      <3>2. table'[o] \in Nat /\ table'[o] < nextTable
        BY <1>2, <1>5, <1>7, <3>1
      <3>3. table'[o] # nextTable
        BY <1>1, <3>2
      <3> QED
        BY <3>1, <3>3
    <2>2. CASE InsertTable(o)
      <3>1. table'[o] = nextTable /\ ~InsertTable(c)
        BY <1>6, <2>2
      <3>2. table'[c] \in Nat /\ table'[c] < nextTable
        BY <1>2, <1>5, <1>7, <3>1
      <3>3. table'[c] # nextTable
        BY <1>1, <3>2
      <3> QED
        BY <3>1, <3>3
    <2>3. CASE ~InsertTable(c) /\ ~InsertTable(o)
      BY <1>5, <1>7, <2>3 DEF MovesInv, IdsAreFresh
    <2> QED
      BY <2>1, <2>2, <2>3
  <1>8. \A c \in Calls : Creating(c)' =>
           /\ registered'[table'[c]] = None /\ relation'[table'[c]] = None
           /\ table'[c] < nextTable' /\ <<"registry", request'[c].name>> \in locks'[c]
    BY <1>5, <1>6
  <1> QED
    BY <1>4, <1>7, <1>8 DEF IdsAreFresh

\* A name nobody moved stays that of both sides of one table, or of none.
LEMMA FollowStep == IInv /\ MovesInv /\ [Next]_vars => NamesFollow'
  <1> SUFFICES ASSUME IInv, MovesInv, [Next]_vars, NEW n \in Names \ Moved'
               PROVE  /\ \A t \in TableIds : registered'[t] = n <=> relation'[t] = n
                      /\ \A t, u \in TableIds : registered'[t] = n /\ registered'[u] = n => t = u
                      /\ \A c \in Calls : Creating(c)' /\ request'[c].name = n => Registered(n)' = {}
    BY DEF NamesFollow
  <1>1. n \notin Moved
    BY MovedGrows DEF IInv
  <1>2. /\ \A t \in TableIds : registered[t] = n <=> relation[t] = n
        /\ \A t, u \in TableIds : registered[t] = n /\ registered[u] = n => t = u
        /\ \A c \in Calls : Creating(c) /\ request[c].name = n => Registered(n) = {}
    BY <1>1 DEF MovesInv, NamesFollow
  <1>3. ASSUME \A t \in TableIds : /\ registered'[t] = n <=> registered[t] = n
                                   /\ relation'[t] = n <=> relation[t] = n
        PROVE  /\ \A t \in TableIds : registered'[t] = n <=> relation'[t] = n
               /\ \A t, u \in TableIds : registered'[t] = n /\ registered'[u] = n => t = u
               /\ \A c \in Calls : Creating(c)' /\ request'[c].name = n => Registered(n)' = {}
    <2>1. Registered(n)' = Registered(n)
      BY <1>3 DEF Registered
    <2>2. ASSUME NEW c \in Calls, Creating(c)', request'[c].name = n PROVE Registered(n) = {}
      <3>1. CASE InsertTable(c)
        BY <2>2, <3>1 DEF InsertTable
      <3>2. CASE Creating(c) /\ request'[c] = request[c]
        BY <1>2, <2>2, <3>2
      <3> QED
        BY <2>2, <3>1, <3>2, CreatingStep
    <2> QED
      BY <1>2, <1>3, <2>1, <2>2
  <1>4. CASE MovesOnly
    BY <1>3, <1>4 DEF MovesOnly
  <1>5. ASSUME NEW o \in Calls, Gives(o)
        PROVE  /\ \A t \in TableIds : registered'[t] = n <=> relation'[t] = n
               /\ \A t, u \in TableIds : registered'[t] = n /\ registered'[u] = n => t = u
               /\ \A c \in Calls : Creating(c)' /\ request'[c].name = n => Registered(n)' = {}
    <2>1. registered[table[o]] = None /\ relation[table[o]] = None /\ n # None
      BY <1>5, NoneIsApart DEF Gives, MovesInv, IdsAreFresh
    <2>2. CASE request[o].name # n
      BY <1>3, <1>5, <2>1, <2>2 DEF Gives, IInv, TypeOK
    <2>3. CASE request[o].name = n
      <3>1. Creating(o) /\ Registered(n) = {}
        BY <1>2, <1>5, <2>3 DEF Gives
      <3>2. \A t \in TableIds : registered[t] # n /\ relation[t] # n
        BY <1>2, <3>1 DEF Registered
      <3>3. \A t \in TableIds : /\ registered'[t] = n <=> t = table[o]
                                /\ relation'[t] = n <=> t = table[o]
        BY <1>5, <2>3, <3>2 DEF Gives, IInv, TypeOK
      <3>4. ASSUME NEW c \in Calls, Creating(c)', request'[c].name = n PROVE FALSE
        <4>1. c # o
          BY <1>5, <3>4 DEF Gives, Commit, End, Creating, IInv, TypeOK
        <4>2. UNCHANGED Own(c)
          BY <1>5, <4>1, OthersStand DEF Gives, Serve, IInv
        <4>3. Creating(c) /\ request[c].name = n
          BY <3>4, <4>2 DEF Own, Creating
        <4>4. <<"registry", n>> \in locks[c] /\ <<"registry", n>> \in locks[o]
          BY <2>3, <3>1, <4>3 DEF MovesInv, IdsAreFresh
        <4> QED
          BY <4>1, <4>4 DEF MovesInv, LocksApart
      <3> QED
        BY <3>3, <3>4
    <2> QED
      BY <2>2, <2>3
  <1> QED
    BY <1>4, <1>5, NameSteps

\* A rename goes on with the table it looked up and the relation it locked.
LEMMA RenameSteps ==
    ASSUME IInv, [Next]_vars, NEW c \in Calls, request'[c] # None, Renames(request'[c])
    PROVE  /\ stage'[c] \in {"alter", "rename", "register", "commit"} =>
                 \/ LookUpTable(c)
                 \/ /\ stage[c] \in {"alter", "rename", "register", "commit"}
                    /\ request'[c] = request[c] /\ table'[c] = table[c]
           /\ stage'[c] \in {"rename", "register", "commit"} =>
                 \/ LockRelation(c)
                 \/ /\ stage[c] \in {"rename", "register", "commit"}
                    /\ request'[c] = request[c] /\ target'[c] = target[c]
  <1>1. CASE UNCHANGED Own(c)
    BY <1>1 DEF Own
  <1>2. CASE Receives(c)
    BY <1>2 DEF Receives, ReceiveCreate, ReceivePatch, ReceiveAdd, Receive, Go, IInv, TypeOK
  <1>3. CASE CheckTable(c) \/ FetchMetadata(c) \/ IsNameTaken(c) \/ FindForUpdate(c) \/ LookUpTable(c)
    BY <1>3 DEF CheckTable, FetchMetadata, IsNameTaken, FindForUpdate, LookUpTable, Go, AfterChecks,
       AfterStatus, IInv, TypeOK
  <1>4. CASE SetStatus(c) \/ LockRelation(c) \/ RenameRelation(c)
    BY <1>4 DEF SetStatus, LockRelation, RenameRelation, Take, Go, AfterStatus, IInv, TypeOK
  <1>5. CASE RegisterName(c)
    BY <1>5 DEF RegisterName, Take, Go, End, IInv, TypeOK
  <1>6. CASE InsertTable(c) \/ CreateRelation(c)
    <2>1. request[c].op = "create" /\ request' = request
      BY <1>6 DEF InsertTable, CreateRelation, IInv, StageFits, CreateRequest
    <2> QED
      BY <2>1 DEF Renames
  <1>7. CASE InsertFails(c) \/ Commit(c) \/ EndAdd(c) \/ Fail(c)
    BY <1>7 DEF InsertFails, Commit, EndAdd, FirstError, Fail, End, IInv, TypeOK
  <1>8. CASE InsertRawData(c) \/ InsertRawFails(c) \/ FindRegistry(c) \/ FindRegistryFails(c)
                \/ RegisterRecords(c)
    BY <1>8 DEF InsertRawData, InsertRawFails, FindRegistry, FindRegistryFails, RegisterRecords
  <1> QED
    BY <1>1, <1>2, <1>3, <1>4, <1>5, <1>6, <1>7, <1>8, OwnSteps, FailsAreFailures DEF Serve, IInv

LEMMA RenameFollowsStep ==
    ASSUME IInv, MovesInv, [Next]_vars, NEW c \in Calls, request'[c] # None
    PROVE  RenameFollows(c)'
  <1> SUFFICES ASSUME Renames(request'[c])
               PROVE  /\ stage'[c] \in {"alter", "rename", "register", "commit"} =>
                            registered'[table'[c]] \in {request'[c].name} \cup Moved'
                      /\ stage'[c] \in {"rename", "register", "commit"} =>
                            relation'[target'[c]] \in {request'[c].name} \cup Moved'
    BY DEF RenameFollows
  <1> USE NoneIsApart
  <1>1. Moved \subseteq Moved' /\ Moved \subseteq Names
    BY MovedGrows DEF IInv, Moved
  <1>2. ASSUME LookUpTable(c) PROVE registered'[table'[c]] \in {request'[c].name} \cup Moved'
    BY <1>2, LookupFinds DEF LookUpTable, database, IInv, TypeOK
  <1>3. ASSUME LockRelation(c) PROVE relation'[target'[c]] \in {request'[c].name} \cup Moved'
    BY <1>3 DEF LockRelation, Relations, database, IInv, TypeOK
  <1>4. ASSUME stage[c] \in {"alter", "rename", "register", "commit"}, request'[c] = request[c],
               table'[c] = table[c]
        PROVE  registered'[table'[c]] \in {request'[c].name} \cup Moved'
    <2>1. request[c].name \in Names /\ table[c] \in TableIds
      BY <1>4 DEF IInv, StageFits, Found, PatchRequest, CreateRequest, Named, TypeOK
    <2>2. registered[table[c]] \in {request[c].name} \cup Moved
      BY <1>4 DEF MovesInv, CallsFollow, RenameFollows
    <2> QED
      BY <1>1, <1>4, <2>1, <2>2, FoundNameStays
  <1>5. ASSUME stage[c] \in {"rename", "register", "commit"}, request'[c] = request[c],
               target'[c] = target[c]
        PROVE  relation'[target'[c]] \in {request'[c].name} \cup Moved'
    <2>1. request[c].name \in Names /\ target[c] \in TableIds
      BY <1>5 DEF IInv, StageFits, Found, PatchRequest, CreateRequest, Named, TypeOK
    <2>2. relation[target[c]] \in {request[c].name} \cup Moved
      BY <1>5 DEF MovesInv, CallsFollow, RenameFollows
    <2> QED
      BY <1>1, <1>5, <2>1, <2>2, FoundNameStays
  <1> QED
    BY <1>2, <1>3, <1>4, <1>5, RenameSteps

\* What a call found it keeps: the relation of a worker, the id of the other, the name at
\* the checks of a patch, the id of its UPDATE.
Later == {"lookup", "alter", "rename", "register", "commit", "done"}
LEMMA FindSteps ==
    ASSUME IInv, [Next]_vars, NEW c \in Calls
    PROVE  /\ raw'[c] = "done" =>
                 \/ InsertRawData(c)
                 \/ raw[c] = "done" /\ target'[c] = target[c] /\ request'[c] = request[c]
           /\ reg'[c] \in {"found", "done"} =>
                 \/ FindRegistry(c)
                 \/ reg[c] \in {"found", "done"} /\ table'[c] = table[c] /\ request'[c] = request[c]
           /\ stage'[c] \in {"taken", "find"} =>
                 \/ FetchMetadata(c)
                 \/ stage[c] \in {"taken", "find"} /\ request'[c] = request[c]
           /\ request'[c].op = "patch" /\ request'[c].status # None /\ stage'[c] \in Later =>
                 \/ FindForUpdate(c) \/ SetStatus(c)
                 \/ stage[c] \in Later /\ patched'[c] = patched[c] /\ request'[c] = request[c]
  <1> USE DEF IInv, TypeOK
  <1>0. /\ raw[c] = "done" \/ reg[c] \in {"found", "done"} =>
             AddRequest(request[c]) /\ stage[c] \in {"workers"} \cup Finished
        /\ stage[c] \in {"check", "insert", "relation"} => request[c].op = "create"
        /\ stage[c] = "workers" => request[c].op = "add"
    BY DEF StageFits, CreateRequest, AddRequest
  <1>1. CASE UNCHANGED Own(c)
    BY <1>1 DEF Own
  <1>2. CASE Receives(c)
    BY <1>0, <1>2 DEF Receives, ReceiveCreate, ReceivePatch, ReceiveAdd, Receive, Go, Finished, Later
  <1>3. CASE CheckTable(c) \/ IsNameTaken(c) \/ LookUpTable(c)
    BY <1>0, <1>3 DEF CheckTable, IsNameTaken, LookUpTable, Go, AfterChecks, Finished, Later
  <1>4. CASE FetchMetadata(c) \/ FindForUpdate(c)
    BY <1>0, <1>4 DEF FetchMetadata, FindForUpdate, Go, AfterChecks, AfterStatus, Finished, Later
  <1>5. CASE InsertTable(c) \/ CreateRelation(c)
    BY <1>0, <1>5 DEF InsertTable, CreateRelation, Take, Go, Finished, Later
  <1>6. CASE SetStatus(c)
    BY <1>0, <1>6 DEF SetStatus, Take, Go, AfterStatus, Finished, Later
  <1>7. CASE LockRelation(c) \/ RenameRelation(c) \/ RegisterName(c)
    BY <1>0, <1>7 DEF LockRelation, RenameRelation, RegisterName, Take, Go, End, Finished, Later
  <1>8. CASE InsertFails(c) \/ Commit(c) \/ EndAdd(c)
    BY <1>0, <1>8 DEF InsertFails, Commit, EndAdd, FirstError, End, Finished, Later
  <1>9. CASE Fail(c)
    BY <1>9 DEF Fail, End, Later
  <1>10. CASE InsertRawData(c) \/ InsertRawFails(c)
    BY <1>0, <1>10 DEF InsertRawData, InsertRawFails, Finished, Later
  <1>11. CASE FindRegistry(c) \/ FindRegistryFails(c) \/ RegisterRecords(c)
    BY <1>0, <1>11 DEF FindRegistry, FindRegistryFails, RegisterRecords, Finished, Later
  <1> QED
    BY <1>1, <1>2, <1>3, <1>4, <1>5, <1>6, <1>7, <1>8, <1>9, <1>10, <1>11, OwnSteps,
       FailsAreFailures DEF Serve

LEMMA FoundFollowsStep ==
    ASSUME IInv, MovesInv, [Next]_vars, NEW c \in Calls, request'[c] # None
    PROVE  FoundFollows(c)'
  <1> SUFFICES ASSUME request'[c].name \notin Moved'
               PROVE  /\ raw'[c] = "done" => relation'[target'[c]] = request'[c].name
                      /\ reg'[c] \in {"found", "done"} => registered'[table'[c]] = request'[c].name
                      /\ stage'[c] \in {"taken", "find"} => Registered(request[c].name)' # {}
                      /\ request'[c].op = "patch" /\ request'[c].status # None /\ stage'[c] \in Later
                            => patched'[c] # None
    BY DEF FoundFollows, Later
  <1> USE NoneIsApart
  <1>0. /\ request'[c].name \notin Moved /\ TypeOK /\ StageFits /\ Found /\ WorkersCommitted
        /\ request'[c].name \in Names
    <2>1. TypeOK' /\ TypeOK /\ StageFits /\ Found /\ WorkersCommitted
      BY IInvStep DEF IInv
    <2>2. request'[c] \in Menu
      BY <2>1 DEF TypeOK
    <2> QED
      BY <2>1, <2>2, MovedGrows, MenuIsValid DEF CreateRequest, PatchRequest, AddRequest
  <1>1. ASSUME raw'[c] = "done" PROVE relation'[target'[c]] = request'[c].name
    <2>1. CASE InsertRawData(c)
      BY <1>0, <2>1 DEF InsertRawData, Relations, TypeOK
    <2>2. CASE raw[c] = "done" /\ target'[c] = target[c] /\ request'[c] = request[c]
      <3>1. target[c] \in TableIds /\ request[c] # None
        BY <1>0, <2>2 DEF WorkersCommitted, TypeOK
      <3>2. relation[target[c]] = request[c].name
        BY <1>0, <2>2, <3>1 DEF MovesInv, CallsFollow, FoundFollows
      <3> QED
        BY <1>0, <2>2, <3>1, <3>2, FoundNameStays
    <2> QED
      BY <1>1, <2>1, <2>2, FindSteps
  <1>2. ASSUME reg'[c] \in {"found", "done"} PROVE registered'[table'[c]] = request'[c].name
    <2>1. CASE FindRegistry(c)
      BY <1>0, <2>1, LookupFinds DEF FindRegistry, database, TypeOK
    <2>2. CASE reg[c] \in {"found", "done"} /\ table'[c] = table[c] /\ request'[c] = request[c]
      <3>1. table[c] \in TableIds /\ request[c] # None
        BY <1>0, <2>2 DEF Found, TypeOK
      <3>2. registered[table[c]] = request[c].name
        BY <1>0, <2>2, <3>1 DEF MovesInv, CallsFollow, FoundFollows
      <3> QED
        BY <1>0, <2>2, <3>1, <3>2, FoundNameStays
    <2> QED
      BY <1>2, <2>1, <2>2, FindSteps
  <1>3. ASSUME stage'[c] \in {"taken", "find"} PROVE Registered(request[c].name)' # {}
    <2>1. CASE FetchMetadata(c)
      BY <1>0, <1>3, <2>1 DEF FetchMetadata, Go, database, Registered, TypeOK
    <2>2. CASE stage[c] \in {"taken", "find"} /\ request'[c] = request[c]
      <3>1. Registered(request[c].name) # {}
        BY <1>0, <2>2 DEF MovesInv, CallsFollow, FoundFollows
      <3>2. PICK t \in TableIds : registered[t] = request[c].name
        BY <3>1 DEF Registered
      <3>3. registered'[t] = request'[c].name
        BY <1>0, <2>2, <3>2, FoundNameStays
      <3> QED
        BY <3>3 DEF Registered
    <2> QED
      BY <1>3, <2>1, <2>2, FindSteps
  <1>4. ASSUME request'[c].op = "patch", request'[c].status # None, stage'[c] \in Later
        PROVE  patched'[c] # None
    <2>1. CASE FindForUpdate(c)
      <3>1. Registered(request[c].name) # {}
        BY <1>0, <2>1 DEF FindForUpdate, MovesInv, CallsFollow, FoundFollows
      <3> QED
        BY <1>0, <2>1, <3>1, LookupFinds DEF FindForUpdate, TypeOK
    <2>2. CASE SetStatus(c)
      BY <1>0, <2>2 DEF SetStatus, StageFits, TypeOK
    <2>3. CASE stage[c] \in Later /\ patched'[c] = patched[c] /\ request'[c] = request[c]
      BY <1>0, <1>4, <2>3 DEF MovesInv, CallsFollow, FoundFollows, Later
    <2> QED
      BY <1>4, <2>1, <2>2, <2>3, FindSteps
  <1> QED
    BY <1>1, <1>2, <1>3, <1>4

LEMMA MovesInit == Init => MovesInv
  <1> SUFFICES ASSUME Init PROVE MovesInv
    OBVIOUS
  <1>1. LocksApart /\ CallsFollow
    BY DEF Init, LocksApart, CallsFollow
  <1>2. IdsAreFresh
    BY LaterIdsAreUnused DEF Init, IdsAreFresh, Creating
  <1>3. NamesFollow
    <2> SUFFICES ASSUME NEW n \in Names \ Moved
                 PROVE  /\ \A t \in TableIds : registered[t] = n <=> relation[t] = n
                        /\ \A t, u \in TableIds : registered[t] = n /\ registered[u] = n => t = u
      BY DEF Init, NamesFollow, Creating
    <2>1. \A t \in TableIds : n \in {InitialNames[t], InitialRelations[t]} => t \notin SplitBefore
      BY DEF Moved
    <2>2. \A t \in TableIds : registered[t] = n <=> relation[t] = n
      BY <2>1 DEF Init, SplitBefore
    <2> QED
      BY <2>2, InitialNamesDiffer, NoneIsApart DEF Init
  <1> QED
    BY <1>1, <1>2, <1>3 DEF MovesInv

LEMMA MovesStep == IInv /\ MovesInv /\ [Next]_vars => MovesInv'
  <1> SUFFICES ASSUME IInv, MovesInv, [Next]_vars PROVE MovesInv'
    OBVIOUS
  <1>1. LocksApart' /\ IdsAreFresh' /\ NamesFollow'
    BY LocksStep, FreshStep, FollowStep DEF IInv, MovesInv
  <1>2. CallsFollow'
    BY RenameFollowsStep, FoundFollowsStep DEF CallsFollow
  <1> QED
    BY <1>1, <1>2 DEF MovesInv

\* A name is that of both sides of one table unless a rename moved it, and what a call
\* has found by such a name is there under it: for any calls, names and tables.
THEOREM NamesAreFollowed == Spec => []MovesInv
  <1>1. Init => IInv /\ MovesInv
    BY IInvInit, MovesInit
  <1>2. IInv /\ MovesInv /\ [Next]_vars => (IInv /\ MovesInv)'
    BY IInvStep, MovesStep
  <1> QED
    BY <1>1, <1>2, PTL DEF Spec

\* An upload whose workers find different tables, or a patch that is answered although its
\* UPDATE found none, has met a rename of the name or a table split before.
THEOREM RenamesMoveNames == Spec => []OnlyRenamesMoveNames
  <1>1. IInv /\ MovesInv => OnlyRenamesMoveNames
    <2> SUFFICES ASSUME IInv, MovesInv, NEW c \in Calls, Unnoticed(c), request[c].name \notin Moved
                 PROVE  FALSE
      <3>1. ASSUME IInv, NEW c \in Calls, Unnoticed(c) PROVE request[c].name \in Names
        <4>1. request[c] \in Menu
          BY <3>1 DEF Unnoticed, IInv, TypeOK, StageFits
        <4> QED
          BY <4>1, MenuIsValid DEF CreateRequest, PatchRequest, AddRequest
      <3> QED
        BY <3>1 DEF OnlyRenamesMoveNames, Moved
    <2> USE NoneIsApart
    <2>1. /\ request[c] \in Menu /\ request[c].name \in Names /\ stage[c] = "done"
          /\ FoundFollows(c)
      <3>1. stage[c] = "done" /\ request[c] \in Menu /\ request[c] # None
        BY DEF Unnoticed, IInv, TypeOK, StageFits
      <3> QED
        BY <3>1, MenuIsValid DEF CreateRequest, PatchRequest, AddRequest, MovesInv, CallsFollow
    <2>2. CASE request[c].op = "patch" /\ request[c].status # None
      BY <2>1, <2>2 DEF FoundFollows, Unnoticed
    <2>3. CASE request[c].op = "add" /\ Split(c)
      <3>1. AddRequest(request[c])
        BY <2>1, <2>3, MenuIsValid DEF CreateRequest, PatchRequest
      <3>2. raw[c] = "done" /\ reg[c] = "done" /\ target[c] \in TableIds /\ table[c] \in TableIds
        BY <2>1, <3>1 DEF IInv, WorkersCommitted, Found, TypeOK
      <3>3. relation[target[c]] = request[c].name /\ registered[table[c]] = request[c].name
        BY <2>1, <3>2 DEF FoundFollows
      <3> QED
        BY <2>1, <2>3, <3>2, <3>3 DEF MovesInv, NamesFollow, Split
    <2> QED
      BY <2>2, <2>3 DEF Unnoticed
  <1> QED
    BY <1>1, InductiveInvariant, NamesAreFollowed, PTL

===============================================================================
