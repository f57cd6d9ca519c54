--------------------------- MODULE RecordAssignment ---------------------------
(***************************************************************************)
(* The life of layer0.records.pgc: crossmatch results are stored, records  *)
(* are assigned PGC numbers, PGC objects are merged.  The three admin      *)
(* handlers run concurrently, each in one PostgreSQL transaction at READ   *)
(* COMMITTED; a step of this module is one SQL statement or, where a       *)
(* statement waits row by row, the lock of one row.                        *)
(*                                                                         *)
(* A request is the input of one handler call.  It is served once, so the  *)
(* number of requests bounds the number of transactions, minted numbers    *)
(* and ticks of the clock.                                                 *)
(***************************************************************************)
EXTENDS Naturals, Sequences, FiniteSets

CONSTANTS Records,        \* ids of layer0.records
          Requests,       \* handler calls
          Menu,           \* the inputs a handler call may carry
          None,           \* SQL NULL, no row, no request
          InitialPgcs,    \* common.pgc.id before the behaviour starts
          FirstPgc,       \* where common.pgc_id_seq starts
          InitialRows     \* layer0.crossmatch rows left by earlier sessions

VARIABLES recordPgc,      \* layer0.records.pgc
          crossmatch,     \* layer0.crossmatch: [triage, candidates] or None
          modTime,        \* common.pgc: id -> modification_time
          pgcSeq,         \* next value of common.pgc_id_seq
          clock,          \* transactions begun so far: the order of NOW()
          request,        \* the input of each handler call
          stage,          \* where each handler call is
          started,        \* NOW() of its transaction
          pending,        \* rows its current statement has still to lock
          locks,          \* rows its transaction holds
          writes,         \* its uncommitted layer0.records.pgc
          minted          \* its uncommitted rows of common.pgc

tables == <<recordPgc, crossmatch, modTime>>
vars == <<recordPgc, crossmatch, modTime, pgcSeq, clock,
          request, stage, started, pending, locks, writes, minted>>

Triage == {"resolved", "pending"}
CrossmatchRow == [triage : Triage, candidates : Seq(Nat)]

Finished == {"done", "rejected", "failed"}
Stages == {"idle", "check", "lock", "scan", "move", "upsert", "touch"}
             \cup Finished

\* The validators of the request models: a non-empty list of record ids, a
\* target that is not among the distinct, non-empty sources.
AssignRequest(a) ==
    a.op = "assign" /\ a.ids # {} /\ a.ids \subseteq Records

MergeRequest(a) ==
    /\ a.op = "merge"
    /\ a.target \in Nat
    /\ a.sources # {} /\ a.sources \subseteq Nat \ {a.target}

\* Every pair of triage status and candidate list can be stored: the status of
\* each row may be overridden and a candidate is not looked up in common.pgc.
CrossmatchRequest(a) ==
    /\ a.op = "crossmatch"
    /\ DOMAIN a.rows # {} /\ DOMAIN a.rows \subseteq Records
    /\ \A r \in DOMAIN a.rows : a.rows[r] \in CrossmatchRow

ASSUME RecordsFinite == IsFiniteSet(Records)
ASSUME NoneIsNoValue == None \notin Nat /\ None \notin CrossmatchRow
                        /\ None \notin Menu
ASSUME MenuIsValid ==
    \A a \in Menu : AssignRequest(a) \/ MergeRequest(a) \/ CrossmatchRequest(a)
ASSUME InitialTables ==
    /\ InitialPgcs \subseteq Nat
    /\ FirstPgc \in Nat /\ \A p \in InitialPgcs : p < FirstPgc
    /\ InitialRows \subseteq CrossmatchRow \cup {None}

-------------------------------------------------------------------------------
\* layer0.crossmatch.metadata by the number of candidates.
IsNew(row)      == Len(row.candidates) = 0
\* Mutant: an off-by-one in the number of candidates.
IsExistingOffByOne(row) == Len(row.candidates) > 1
IsExisting(row) == Len(row.candidates) = 1
IsCollided(row) == Len(row.candidates) > 1
Candidate(row)  == row.candidates[1]

RowOf(table, S) == {<<table, x>> : x \in S}
Rows == ({"crossmatch", "records"} \X Records) \cup ({"pgc"} \X Nat)

Registered == DOMAIN modTime
NoWrites == [r \in Records |-> None]
Written(q) == {r \in Records : writes[q][r] # None}

\* A row lock waits for every other open transaction that holds the row.
Free(row, q) == \A o \in Requests \ {q} : row \notin locks[o]

\* Mutant: a merge that forgets its sources.
TouchedTargetOnly(q) ==
    IF request[q].op = "merge" THEN {request[q].target}
    ELSE IF request[q].op = "assign" THEN {writes[q][r] : r \in Written(q)}
    ELSE {}

\* touch_pgcs: the numbers given by an assignment, or the target and all the
\* sources of a merge whether or not a record moved.
TouchedBy(q) ==
    IF request[q].op = "merge" THEN {request[q].target} \cup request[q].sources
    ELSE IF request[q].op = "assign" THEN {writes[q][r] : r \in Written(q)}
    ELSE {}

Init ==
    /\ recordPgc \in [Records -> InitialPgcs \cup {None}]
    /\ crossmatch \in [Records -> InitialRows]
    /\ \A r \in Records : recordPgc[r] # None => crossmatch[r] # None
    /\ modTime = [p \in InitialPgcs |-> 0]
    /\ pgcSeq = FirstPgc
    /\ clock = 1
    /\ request = [q \in Requests |-> None]
    /\ stage = [q \in Requests |-> "idle"]
    /\ started = [q \in Requests |-> 0]
    /\ pending = [q \in Requests |-> {}]
    /\ locks = [q \in Requests |-> {}]
    /\ writes = [q \in Requests |-> NoWrites]
    /\ minted = [q \in Requests |-> {}]

-------------------------------------------------------------------------------
\* Mutant: the transaction's connection is kept open.
EndKeepsLocks(q, outcome) ==
    /\ stage' = [stage EXCEPT ![q] = outcome]
    /\ pending' = [pending EXCEPT ![q] = {}]
    /\ writes' = [writes EXCEPT ![q] = NoWrites]
    /\ minted' = [minted EXCEPT ![q] = {}]
    /\ UNCHANGED locks
\* with_tx: the transaction is over, its locks are released and what it did
\* not commit is gone.
End(q, outcome) ==
    /\ stage' = [stage EXCEPT ![q] = outcome]
    /\ pending' = [pending EXCEPT ![q] = {}]
    /\ locks' = [locks EXCEPT ![q] = {}]
    /\ writes' = [writes EXCEPT ![q] = NoWrites]
    /\ minted' = [minted EXCEPT ![q] = {}]

\* A handler is called with input a; its transaction starts at clock.
Receive(q, a, first) ==
    /\ stage[q] = "idle"
    /\ request' = [request EXCEPT ![q] = a]
    /\ stage' = [stage EXCEPT ![q] = first]
    /\ started' = [started EXCEPT ![q] = clock]
    /\ clock' = clock + 1
    /\ UNCHANGED <<tables, pgcSeq, locks, writes, minted>>

\* The current statement gets the lock of one more row.
LockRow(q, row) ==
    /\ row \in pending[q]
    /\ Free(row, q)
    /\ locks' = [locks EXCEPT ![q] = @ \cup {row}]
    /\ pending' = [pending EXCEPT ![q] = @ \ {row}]

\* The last statement before COMMIT locks the rows of common.pgc it touches.
StartTouch(q, pgcs) ==
    /\ stage' = [stage EXCEPT ![q] = "touch"]
    /\ pending' = [pending EXCEPT ![q] = RowOf("pgc", pgcs)]

-------------------------------------------------------------------------------
\* POST /v1/records/crossmatch: upsert the rows one by one.
ReceiveCrossmatch(q) ==
    \E a \in Menu :
        /\ CrossmatchRequest(a)
        /\ Receive(q, a, "upsert")
        /\ pending' = [pending EXCEPT ![q] = RowOf("crossmatch", DOMAIN a.rows)]

UpsertRow(q) ==
    /\ stage[q] = "upsert"
    /\ \E row \in pending[q] : LockRow(q, row)
    /\ UNCHANGED <<tables, pgcSeq, clock, request, stage, started, writes, minted>>

CommitCrossmatch(q) ==
    /\ stage[q] = "upsert" /\ pending[q] = {}
    /\ crossmatch' = [r \in Records |-> IF r \in DOMAIN request[q].rows
                                        THEN request[q].rows[r]
                                        ELSE crossmatch[r]]
    /\ End(q, "done")
    /\ UNCHANGED <<recordPgc, modTime, pgcSeq, clock, request, started>>

-------------------------------------------------------------------------------
\* POST /v1/records/pgcs.
ReceiveAssign(q) ==
    \E a \in Menu :
        /\ AssignRequest(a)
        /\ Receive(q, a, "check")
        /\ UNCHANGED pending

\* The precondition query looks for the rows that are not.
Assignable(r) ==
    /\ crossmatch[r] # None
    /\ crossmatch[r].triage = "resolved"
    /\ ~IsCollided(crossmatch[r])

\* Mutants: FOR UPDATE OF r, no FOR UPDATE at all, and a list of ids, not rows.
LockedRecordsOnly(q) == RowOf("records", request[q].ids)
LockedNothing(q) == {}
LockedIds(q) == request[q].ids
\* FOR UPDATE OF c, r.
LockedRows(q) == RowOf("crossmatch", request[q].ids)
                   \cup RowOf("records", request[q].ids)

\* The first SELECT reads without a lock.
RejectAssign(q) ==
    /\ stage[q] = "check"
    /\ \E r \in request[q].ids : ~Assignable(r)
    /\ End(q, "rejected")
    /\ UNCHANGED <<tables, pgcSeq, clock, request, started>>

AcceptAssign(q) ==
    /\ stage[q] = "check"
    /\ \A r \in request[q].ids : Assignable(r)
    /\ stage' = [stage EXCEPT ![q] = "lock"]
    /\ pending' = [pending EXCEPT ![q] = LockedRows(q)]
    /\ UNCHANGED <<tables, pgcSeq, clock, request, started, locks, writes, minted>>

\* SELECT ... FOR UPDATE OF c, r.
LockForUpdate(q) ==
    /\ stage[q] = "lock"
    /\ \E row \in pending[q] : LockRow(q, row)
    /\ UNCHANGED <<tables, pgcSeq, clock, request, stage, started, writes, minted>>

\* Mutant: the condition r.pgc IS NULL is dropped.
Anything(r) == TRUE
Unassigned(r) == recordPgc[r] = None

\* existing_rows and new_rows, read under the locks.
ExistingRows(q) == {r \in request[q].ids : IsExisting(crossmatch[r]) /\ Unassigned(r)}
NewRows(q) == {r \in request[q].ids : IsNew(crossmatch[r]) /\ Unassigned(r)}

\* records.pgc references common.pgc: the UPDATE fails on an unknown candidate.
UnknownCandidate(q) ==
    \E r \in ExistingRows(q) : Candidate(crossmatch[r]) \notin Registered

\* Mutant: one number is used for several records.
AnyNumbering(new) == [new -> pgcSeq .. (pgcSeq + Cardinality(new) - 1)]

\* _mint_pgc_ids(count) draws count numbers, the zip gives one to each record.
SeqAfter(n) == pgcSeq + n
Numberings(new) ==
    {m \in [new -> pgcSeq .. (pgcSeq + Cardinality(new) - 1)] :
        \A r, s \in new : m[r] = m[s] => r = s}

\* The minting INSERT and the UPDATE of records. A sequence is not rolled back.
UpdateRecords(q) ==
    /\ stage[q] = "lock" /\ pending[q] = {}
    /\ ~UnknownCandidate(q)
    /\ \E m \in Numberings(NewRows(q)) :
          /\ writes' = [writes EXCEPT ![q] =
                [r \in Records |->
                    IF r \in NewRows(q) THEN m[r]
                    ELSE IF r \in ExistingRows(q) THEN Candidate(crossmatch[r])
                    ELSE None]]
          /\ minted' = [minted EXCEPT ![q] = {m[r] : r \in NewRows(q)}]
    /\ pgcSeq' = SeqAfter(Cardinality(NewRows(q)))
    /\ StartTouch(q, {Candidate(crossmatch[r]) : r \in ExistingRows(q)})
    /\ UNCHANGED <<tables, clock, request, started, locks>>

FailUpdate(q) ==
    /\ stage[q] = "lock" /\ pending[q] = {}
    /\ UnknownCandidate(q)
    /\ pgcSeq' = SeqAfter(Cardinality(NewRows(q)))
    /\ End(q, "failed")
    /\ UNCHANGED <<tables, clock, request, started>>

-------------------------------------------------------------------------------
\* POST /v1/pgc/merge. The existence check reads before the transaction; a
\* registered number stays registered.
ReceiveMerge(q) ==
    \E a \in Menu :
        /\ MergeRequest(a)
        /\ Receive(q, a, IF {a.target} \cup a.sources \subseteq Registered
                         THEN "scan" ELSE "rejected")
        /\ UNCHANGED pending

\* UPDATE ... WHERE pgc = ANY(sources): the statement's snapshot names the rows
ScanMerge(q) ==
    /\ stage[q] = "scan"
    /\ stage' = [stage EXCEPT ![q] = "move"]
    /\ pending' = [pending EXCEPT ![q] = RowOf("records",
                     {r \in Records : recordPgc[r] \in request[q].sources})]
    /\ UNCHANGED <<tables, pgcSeq, clock, request, started, locks, writes, minted>>

\* and each row is tested again once it is locked.
MoveRow(q) ==
    /\ stage[q] = "move"
    /\ \E r \in Records :
          /\ LockRow(q, <<"records", r>>)
          /\ writes' = IF recordPgc[r] \in request[q].sources
                       THEN [writes EXCEPT ![q][r] = request[q].target]
                       ELSE writes
    /\ UNCHANGED <<tables, pgcSeq, clock, request, stage, started, minted>>

TouchMerged(q) ==
    /\ stage[q] = "move" /\ pending[q] = {}
    /\ StartTouch(q, {request[q].target} \cup request[q].sources)
    /\ UNCHANGED <<tables, pgcSeq, clock, request, started, locks, writes, minted>>

-------------------------------------------------------------------------------
\* touch_pgcs, then COMMIT, of an assignment and of a merge.
TouchRow(q) ==
    /\ stage[q] = "touch"
    /\ \E row \in pending[q] : LockRow(q, row)
    /\ UNCHANGED <<tables, pgcSeq, clock, request, stage, started, writes, minted>>

Commit(q) ==
    /\ stage[q] = "touch" /\ pending[q] = {}
    /\ recordPgc' = [r \in Records |->
                        IF r \in Written(q) THEN writes[q][r] ELSE recordPgc[r]]
    /\ modTime' = [p \in Registered \cup minted[q] |->
                      IF p \in minted[q] \cup TouchedBy(q) THEN started[q]
                      ELSE modTime[p]]
    /\ End(q, "done")
    /\ UNCHANGED <<crossmatch, pgcSeq, clock, request, started>>

-------------------------------------------------------------------------------
\* PostgreSQL's deadlock detector: q waits, directly or through others, for
\* itself. Every member of S waits for one and is waited for by one.
Waits(q) == pending[q] # {} /\ \A row \in pending[q] : ~Free(row, q)
WaitsFor(q, o) == q # o /\ pending[q] \cap locks[o] # {}
Deadlocked(q) ==
    \E S \in SUBSET Requests :
        /\ q \in S
        /\ \A m \in S : /\ Waits(m)
                        /\ \E o \in S : WaitsFor(m, o)
                        /\ \E o \in S : WaitsFor(o, m)

DeadlockAbort(q) ==
    /\ Deadlocked(q)
    /\ End(q, "failed")
    /\ UNCHANGED <<tables, pgcSeq, clock, request, started>>

\* The connection or the process is lost before COMMIT: PostgreSQL rolls back.
ConnectionLost(q) ==
    /\ stage[q] \notin Finished \cup {"idle"}
    /\ End(q, "failed")
    /\ UNCHANGED <<tables, pgcSeq, clock, request, started>>

-------------------------------------------------------------------------------
Receives(q) == ReceiveCrossmatch(q) \/ ReceiveAssign(q) \/ ReceiveMerge(q)

\* What the server does for a request it has received.
Serve(q) ==
    \/ UpsertRow(q) \/ CommitCrossmatch(q)
    \/ RejectAssign(q) \/ AcceptAssign(q) \/ LockForUpdate(q)
    \/ UpdateRecords(q) \/ FailUpdate(q)
    \/ ScanMerge(q) \/ MoveRow(q) \/ TouchMerged(q)
    \/ TouchRow(q) \/ Commit(q)
    \/ DeadlockAbort(q)

Next == \E q \in Requests : Receives(q) \/ Serve(q) \/ ConnectionLost(q)

Spec == Init /\ [][Next]_vars

\* Every open transaction goes on: its thread runs, a lock is granted when it
\* is free and the deadlock detector wakes up. Clients need not call, and
\* connections need not be lost.
FairSpec == Spec /\ \A q \in Requests : WF_vars(Serve(q))

-------------------------------------------------------------------------------
\* The tables and the handlers' bookkeeping have their types.
TypeOK ==
    /\ recordPgc \in [Records -> Nat \cup {None}]
    /\ crossmatch \in [Records -> CrossmatchRow \cup {None}]
    /\ Registered \subseteq Nat /\ modTime \in [Registered -> Nat]
    /\ pgcSeq \in Nat
    /\ clock \in Nat
    /\ request \in [Requests -> Menu \cup {None}]
    /\ stage \in [Requests -> Stages]
    /\ started \in [Requests -> Nat]
    /\ pending \in [Requests -> SUBSET Rows]
    /\ locks \in [Requests -> SUBSET Rows]
    /\ writes \in [Requests -> [Records -> Nat \cup {None}]]
    /\ minted \in [Requests -> SUBSET Nat]

\* The foreign key of records.pgc as the handlers keep it: a record, and an
\* update about to be committed, names a registered number or one the same
\* transaction minted, whatever other handlers do in between.
AssignedIsRegistered == \A r \in Records : recordPgc[r] \in Registered \cup {None}

\* Numbers minted by open transactions will not collide with each other or
\* with a registered number, although each transaction sees only its own.
MintedIsExclusive ==
    \A q \in Requests :
        /\ minted[q] \cap Registered = {}
        /\ \A o \in Requests \ {q} : minted[q] \cap minted[o] = {}

\* A minted object has records until a merge takes them away: assigning the
\* same record twice, at the same time or on a retry, leaves no empty object
\* behind.
NoOrphanObject ==
    \A p \in Registered \ InitialPgcs :
        \/ \E r \in Records : recordPgc[r] = p
        \/ \E q \in Requests : /\ stage[q] = "done" /\ request[q].op = "merge"
                               /\ p \in request[q].sources

Committing(q) == stage[q] = "touch" /\ stage'[q] = "done"

\* A record keeps the number it was given: only the commit of a merge that names
\* this number among its sources changes it, and to that merge's target. No
\* concurrent, retried or stale assignment overwrites it.
ReassignedByMerge ==
    \A r \in Records :
        recordPgc[r] # None /\ recordPgc'[r] # recordPgc[r] =>
           \E q \in Requests :
              /\ Committing(q) /\ request[q].op = "merge"
              /\ recordPgc[r] \in request[q].sources
              /\ recordPgc'[r] = request[q].target
NoSilentReassignment == [][ReassignedByMerge]_vars

\* The number a record receives is the one its crossmatch row asks for at the
\* moment of the commit: the single candidate, or a number nobody had before.
\* A crossmatch result that changes while the assignment runs is either too
\* late or used; it is never half used.
AssignedAsCrossmatched ==
    \A r \in Records :
        recordPgc[r] = None /\ recordPgc'[r] # None =>
           /\ crossmatch[r] # None
           /\ \/ IsExisting(crossmatch[r]) /\ recordPgc'[r] = Candidate(crossmatch[r])
              \/ IsNew(crossmatch[r]) /\ recordPgc'[r] \notin Registered
AssignmentFollowsCrossmatch == [][AssignedAsCrossmatched]_vars

\* Whenever a record's number changes, both the object it leaves and the object
\* it joins get the modification time of the transaction that did it, in the
\* same commit: this is what the layer 2 import goes by.
ChangeTouched ==
    \A r \in Records : recordPgc'[r] # recordPgc[r] =>
        \E q \in Requests :
           /\ Committing(q)
           /\ \A p \in {recordPgc[r], recordPgc'[r]} \ {None} : modTime'[p] = started[q]
ChangeIsTouched == [][ChangeTouched]_vars

\* When an assignment succeeds, all its records have a number, except one whose
\* crossmatch result became collided after the precondition was checked.
AllAssignedUnlessCollided ==
    [][\A q \in Requests : Committing(q) /\ request[q].op = "assign" =>
          \A r \in request[q].ids :
             recordPgc'[r] # None \/ IsCollided(crossmatch[r])]_vars

-------------------------------------------------------------------------------
\* The inductive invariant. A stage is reached by one kind of request only.
StageFitsRequest ==
    \A q \in Requests :
        /\ stage[q] \in {"check", "lock"} => AssignRequest(request[q])
        /\ stage[q] = "lock" => \A r \in request[q].ids : crossmatch[r] # None
        /\ stage[q] = "upsert" => CrossmatchRequest(request[q])
        /\ stage[q] \in {"scan", "move"} => MergeRequest(request[q])
        /\ stage[q] = "touch" => AssignRequest(request[q]) \/ MergeRequest(request[q])
        /\ stage[q] \in {"scan", "move", "touch"} /\ request[q].op = "merge"
              => request[q].target \in Registered

LocksExclude ==
    \A q, o \in Requests : q # o => locks[q] \cap locks[o] = {}

\* What a transaction has read or written is locked, or still to be locked.
LocksHeld ==
    \A q \in Requests :
        /\ stage[q] = "lock" => LockedRows(q) \subseteq locks[q] \cup pending[q]
        /\ stage[q] = "upsert" =>
              RowOf("crossmatch", DOMAIN request[q].rows) \subseteq locks[q] \cup pending[q]
        /\ stage[q] = "touch" /\ request[q].op = "assign" => LockedRows(q) \subseteq locks[q]
        /\ RowOf("records", Written(q)) \subseteq locks[q]

NothingWritten ==
    \A q \in Requests :
        /\ stage[q] \notin {"move", "touch"} => writes[q] = NoWrites
        /\ minted[q] # {} => stage[q] = "touch" /\ request[q].op = "assign"

\* An uncommitted assignment still agrees with the committed tables.
AssignmentIsCurrent ==
    \A q \in Requests : stage[q] = "touch" /\ request[q].op = "assign" =>
        \A r \in Written(q) :
            /\ r \in request[q].ids
            /\ recordPgc[r] = None
            /\ crossmatch[r] # None
            /\ \/ /\ IsExisting(crossmatch[r])
                  /\ writes[q][r] = Candidate(crossmatch[r])
                  /\ writes[q][r] \in Registered
               \/ IsNew(crossmatch[r]) /\ writes[q][r] \in minted[q]

\* So does an uncommitted merge.
MergeIsCurrent ==
    \A q \in Requests : stage[q] \in {"move", "touch"} /\ request[q].op = "merge" =>
        \A r \in Written(q) :
            /\ recordPgc[r] \in request[q].sources
            /\ writes[q][r] = request[q].target

\* A number is drawn once and given to one record.
MintedIsDrawn ==
    \A q \in Requests :
        /\ \A p \in minted[q] : p < pgcSeq /\ \E r \in Records : writes[q][r] = p
        /\ \A r, s \in Records :
              writes[q][r] \in minted[q] /\ writes[q][r] = writes[q][s] => r = s

RegisteredIsDrawn == \A p \in Registered : p < pgcSeq

IInv == /\ TypeOK
        /\ StageFitsRequest /\ LocksExclude /\ LocksHeld /\ NothingWritten
        /\ AssignmentIsCurrent /\ MergeIsCurrent
        /\ MintedIsExclusive /\ MintedIsDrawn /\ RegisteredIsDrawn
        /\ AssignedIsRegistered

-------------------------------------------------------------------------------
\* Every request that was received is answered: row locks of concurrent
\* assignments, merges and crossmatch writers delay it, never for ever.
EveryRequestEnds ==
    \A q \in Requests : stage[q] # "idle" ~> stage[q] \in Finished

\* The committed tables change only as the abstract ledger allows.
Ledger == INSTANCE PgcLedger WITH registry <- Registered
LedgerSpec == Ledger!LedgerSpec
===============================================================================
