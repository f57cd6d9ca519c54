------------------------ MODULE RecordAssignmentProofs ------------------------
(***************************************************************************)
(* Proofs about RecordAssignment for every set of records, requests and    *)
(* inputs: type correctness, the inductive invariant and what it implies.  *)
(***************************************************************************)
EXTENDS RecordAssignment, FiniteSetTheorems, TLAPS

\* The rows of a table are rows.
LEMMA RowTypes ==
    /\ \A S \in SUBSET Records : /\ RowOf("crossmatch", S) \in SUBSET Rows
                                 /\ RowOf("records", S) \in SUBSET Rows
    /\ \A S \in SUBSET Nat : RowOf("pgc", S) \in SUBSET Rows
  BY DEF RowOf, Rows

\* What a menu entry contains, by the handler it calls.
LEMMA MenuTypes ==
    \A a \in Menu :
        /\ AssignRequest(a) => a.ids \in SUBSET Records
        /\ MergeRequest(a) => a.target \in Nat /\ a.sources \in SUBSET Nat
        /\ CrossmatchRequest(a) => DOMAIN a.rows \in SUBSET Records
  BY DEF AssignRequest, MergeRequest, CrossmatchRequest

\* Numbers drawn from the sequence for a finite batch.
LEMMA NumberingTypes ==
    ASSUME TypeOK, NEW q \in Requests, NEW m \in Numberings(NewRows(q)),
           NewRows(q) \subseteq Records
    PROVE  /\ SeqAfter(Cardinality(NewRows(q))) \in Nat
           /\ SeqAfter(Cardinality(NewRows(q))) >= pgcSeq
           /\ m \in [NewRows(q) -> Nat]
           /\ \A r \in NewRows(q) :
                 m[r] >= pgcSeq /\ m[r] < SeqAfter(Cardinality(NewRows(q)))
           /\ \A r, s \in NewRows(q) : m[r] = m[s] => r = s
  <1>1. Cardinality(NewRows(q)) \in Nat
    BY RecordsFinite, FS_Subset, FS_CardinalityType
  <1> DEFINE n == Cardinality(NewRows(q))
  <1>2. pgcSeq \in Nat
    BY DEF TypeOK
  <1>3. m \in [NewRows(q) -> pgcSeq .. (pgcSeq + n - 1)]
        /\ \A r, s \in NewRows(q) : m[r] = m[s] => r = s
    BY DEF Numberings
  <1>4. \A r \in NewRows(q) : m[r] \in pgcSeq .. (pgcSeq + n - 1)
    BY <1>3
  <1> HIDE DEF n
  <1>5. n \in Nat
    BY <1>1 DEF n
  <1>6. \A x \in pgcSeq .. (pgcSeq + n - 1) : x \in Nat /\ x >= pgcSeq /\ x < pgcSeq + n
    BY <1>2, <1>5
  <1>7. SeqAfter(n) = pgcSeq + n
    BY DEF SeqAfter
  <1> QED
    BY <1>2, <1>3, <1>4, <1>5, <1>6, <1>7 DEF n

\* Type correctness is inductive once a stage fits its request.
LEMMA TypeStep == TypeOK /\ StageFitsRequest /\ [Next]_vars => TypeOK'
  <1> SUFFICES ASSUME TypeOK, StageFitsRequest, [Next]_vars PROVE TypeOK'
    OBVIOUS
  <1> USE NoneIsNoValue
  <1>0. ASSUME NEW q \in Requests, NEW outcome \in Stages, End(q, outcome)
        PROVE  /\ stage' \in [Requests -> Stages]
               /\ pending' \in [Requests -> SUBSET Rows]
               /\ locks' \in [Requests -> SUBSET Rows]
               /\ writes' \in [Requests -> [Records -> Nat \cup {None}]]
               /\ minted' \in [Requests -> SUBSET Nat]
    BY <1>0 DEF End, TypeOK, NoWrites
  <1>1. CASE UNCHANGED vars
    BY <1>1 DEF TypeOK, vars, Registered
  <1>2. ASSUME NEW q \in Requests, ReceiveCrossmatch(q) PROVE TypeOK'
    BY <1>2, MenuTypes, RowTypes
       DEF ReceiveCrossmatch, Receive, TypeOK, tables, Registered, Stages
  <1>3. ASSUME NEW q \in Requests, ReceiveAssign(q) PROVE TypeOK'
    BY <1>3 DEF ReceiveAssign, Receive, TypeOK, tables, Registered, Stages
  <1>4. ASSUME NEW q \in Requests, ReceiveMerge(q) PROVE TypeOK'
    BY <1>4 DEF ReceiveMerge, Receive, TypeOK, tables, Registered, Stages, Finished
  <1>5. ASSUME NEW q \in Requests, UpsertRow(q) PROVE TypeOK'
    BY <1>5 DEF UpsertRow, LockRow, TypeOK, tables, Registered
  <1>6. ASSUME NEW q \in Requests, CommitCrossmatch(q) PROVE TypeOK'
    <2>1. CrossmatchRequest(request[q])
      BY <1>6 DEF CommitCrossmatch, StageFitsRequest
    <2>2. crossmatch' \in [Records -> CrossmatchRow \cup {None}]
      BY <1>6, <2>1 DEF CommitCrossmatch, CrossmatchRequest, TypeOK
    <2> QED
      BY <1>0, <1>6, <2>2 DEF CommitCrossmatch, TypeOK, Registered, Stages, Finished
  <1>7. ASSUME NEW q \in Requests, RejectAssign(q) PROVE TypeOK'
    BY <1>0, <1>7 DEF RejectAssign, TypeOK, tables, Registered, Stages, Finished
  <1>8. ASSUME NEW q \in Requests, AcceptAssign(q) PROVE TypeOK'
    <2>1. LockedRows(q) \in SUBSET Rows
      BY <1>8, RowTypes DEF AcceptAssign, StageFitsRequest, AssignRequest, LockedRows
    <2> QED
      BY <1>8, <2>1 DEF AcceptAssign, TypeOK, tables, Registered, Stages
  <1>9. ASSUME NEW q \in Requests, LockForUpdate(q) PROVE TypeOK'
    BY <1>9 DEF LockForUpdate, LockRow, TypeOK, tables, Registered
  <1>10. ASSUME NEW q \in Requests, UpdateRecords(q) PROVE TypeOK'
    <2>1. PICK m \in Numberings(NewRows(q)) :
             /\ writes' = [writes EXCEPT ![q] =
                   [r \in Records |->
                       IF r \in NewRows(q) THEN m[r]
                       ELSE IF r \in ExistingRows(q) THEN Candidate(crossmatch[r])
                       ELSE None]]
             /\ minted' = [minted EXCEPT ![q] = {m[r] : r \in NewRows(q)}]
      BY <1>10 DEF UpdateRecords
    <2>2. NewRows(q) \subseteq Records /\ ExistingRows(q) \subseteq Records
      BY <1>10 DEF UpdateRecords, NewRows, ExistingRows, StageFitsRequest, AssignRequest
    <2>3. \A r \in ExistingRows(q) : Candidate(crossmatch[r]) \in Nat
      BY <1>10 DEF UpdateRecords, UnknownCandidate, TypeOK
    <2>4. /\ m \in [NewRows(q) -> Nat]
          /\ SeqAfter(Cardinality(NewRows(q))) \in Nat
      BY <2>2, NumberingTypes
    <2>5. writes' \in [Requests -> [Records -> Nat \cup {None}]]
      BY <2>1, <2>3, <2>4 DEF TypeOK
    <2>6. minted' \in [Requests -> SUBSET Nat]
      BY <2>1, <2>4 DEF TypeOK
    <2>7. RowOf("pgc", {Candidate(crossmatch[r]) : r \in ExistingRows(q)}) \in SUBSET Rows
      BY <2>3, RowTypes
    <2> QED
      BY <1>10, <2>4, <2>5, <2>6, <2>7
         DEF UpdateRecords, StartTouch, TypeOK, tables, Registered, Stages
  <1>11. ASSUME NEW q \in Requests, FailUpdate(q) PROVE TypeOK'
    <2>1. NewRows(q) \subseteq Records
      BY <1>11 DEF FailUpdate, NewRows, StageFitsRequest, AssignRequest
    <2>2. Cardinality(NewRows(q)) \in Nat
      BY <2>1, RecordsFinite, FS_Subset, FS_CardinalityType
    <2>3. pgcSeq' \in Nat
      BY <1>11, <2>2 DEF FailUpdate, SeqAfter, TypeOK
    <2> QED
      BY <1>0, <1>11, <2>3 DEF FailUpdate, TypeOK, tables, Registered, Stages, Finished
  <1>12. ASSUME NEW q \in Requests, ScanMerge(q) PROVE TypeOK'
    <2>1. RowOf("records", {r \in Records : recordPgc[r] \in request[q].sources})
             \in SUBSET Rows
      BY RowTypes
    <2> QED
      BY <1>12, <2>1 DEF ScanMerge, TypeOK, tables, Registered, Stages
  <1>13. ASSUME NEW q \in Requests, MoveRow(q) PROVE TypeOK'
    <2>1. request[q].target \in Nat
      BY <1>13 DEF MoveRow, StageFitsRequest, MergeRequest
    <2>2. writes' \in [Requests -> [Records -> Nat \cup {None}]]
      BY <1>13, <2>1 DEF MoveRow, TypeOK
    <2>3. pending' \in [Requests -> SUBSET Rows] /\ locks' \in [Requests -> SUBSET Rows]
      <3>1. \E row : LockRow(q, row)
        BY <1>13 DEF MoveRow
      <3> QED
        BY <3>1 DEF LockRow, TypeOK
    <2>4. UNCHANGED <<tables, pgcSeq, clock, request, stage, started, minted>>
      BY <1>13 DEF MoveRow
    <2> QED
      BY <2>2, <2>3, <2>4 DEF TypeOK, tables, Registered
  <1>14. ASSUME NEW q \in Requests, TouchMerged(q) PROVE TypeOK'
    <2>1. RowOf("pgc", {request[q].target} \cup request[q].sources) \in SUBSET Rows
      BY <1>14, RowTypes DEF TouchMerged, StageFitsRequest, MergeRequest
    <2> QED
      BY <1>14, <2>1 DEF TouchMerged, StartTouch, TypeOK, tables, Registered, Stages
  <1>15. ASSUME NEW q \in Requests, TouchRow(q) PROVE TypeOK'
    BY <1>15 DEF TouchRow, LockRow, TypeOK, tables, Registered
  <1>16. ASSUME NEW q \in Requests, Commit(q) PROVE TypeOK'
    <2>1. recordPgc' \in [Records -> Nat \cup {None}]
      BY <1>16 DEF Commit, Written, TypeOK
    <2>2. Registered' \subseteq Nat /\ modTime' \in [Registered' -> Nat]
      <3>1. Registered' = Registered \cup minted[q]
        BY <1>16 DEF Commit, Registered
      <3>2. /\ Registered \subseteq Nat /\ modTime \in [Registered -> Nat]
            /\ minted[q] \subseteq Nat /\ started[q] \in Nat
        BY DEF TypeOK
      <3>3. modTime' = [p \in Registered \cup minted[q] |->
                           IF p \in minted[q] \cup TouchedBy(q) THEN started[q]
                           ELSE modTime[p]]
        BY <1>16 DEF Commit
      <3> HIDE DEF Registered
      <3> QED
        BY <3>1, <3>2, <3>3
    <2> QED
      BY <1>0, <1>16, <2>1, <2>2 DEF Commit, TypeOK, Stages, Finished
  <1>17. ASSUME NEW q \in Requests, DeadlockAbort(q) PROVE TypeOK'
    BY <1>0, <1>17 DEF DeadlockAbort, TypeOK, tables, Registered, Stages, Finished
  <1>18. ASSUME NEW q \in Requests, ConnectionLost(q) PROVE TypeOK'
    BY <1>0, <1>18 DEF ConnectionLost, TypeOK, tables, Registered, Stages, Finished
  <1> QED
    BY <1>1, <1>2, <1>3, <1>4, <1>5, <1>6, <1>7, <1>8, <1>9, <1>10, <1>11, <1>12,
       <1>13, <1>14, <1>15, <1>16, <1>17, <1>18 DEF Next, Receives, Serve

-------------------------------------------------------------------------------
\* The conjuncts of IInv beside types.
Agreement ==
    /\ StageFitsRequest /\ LocksExclude /\ LocksHeld /\ NothingWritten
    /\ AssignmentIsCurrent /\ MergeIsCurrent
    /\ MintedIsExclusive /\ MintedIsDrawn /\ RegisteredIsDrawn
    /\ AssignedIsRegistered

\* A transaction that ends without a commit leaves the agreement of the others.
LEMMA EndStep ==
    ASSUME IInv, NEW q \in Requests, NEW outcome \in Finished, End(q, outcome),
           UNCHANGED <<recordPgc, crossmatch, modTime, request>>,
           pgcSeq' \in Nat, pgcSeq' >= pgcSeq
    PROVE  Agreement'
  <1> USE DEF IInv
  <1>1. /\ stage' = [stage EXCEPT ![q] = outcome]
        /\ pending' = [pending EXCEPT ![q] = {}]
        /\ locks' = [locks EXCEPT ![q] = {}]
        /\ writes' = [writes EXCEPT ![q] = NoWrites]
        /\ minted' = [minted EXCEPT ![q] = {}]
    BY DEF End
  <1>2. outcome \notin {"check", "lock", "upsert", "scan", "move", "touch"}
    BY DEF Finished
  <1>3. Written(q)' = {} /\ \A o \in Requests \ {q} : Written(o)' = Written(o)
    BY <1>1 DEF Written, NoWrites, TypeOK
  <1>4. StageFitsRequest'
    BY <1>1, <1>2 DEF StageFitsRequest, TypeOK, AssignRequest, MergeRequest,
                      CrossmatchRequest, Registered
  <1>5. LocksExclude'
    BY <1>1 DEF LocksExclude, TypeOK
  <1>6. LocksHeld'
    BY <1>1, <1>2, <1>3 DEF LocksHeld, TypeOK, LockedRows, RowOf
  <1>7. NothingWritten'
    BY <1>1, <1>2 DEF NothingWritten, TypeOK, NoWrites
  <1>8. AssignmentIsCurrent'
    BY <1>1, <1>2, <1>3 DEF AssignmentIsCurrent, TypeOK, Registered,
                            IsNew, IsExisting, Candidate
  <1>9. MergeIsCurrent'
    BY <1>1, <1>2, <1>3 DEF MergeIsCurrent, TypeOK
  <1>10. MintedIsExclusive'
    BY <1>1 DEF MintedIsExclusive, TypeOK, Registered
  <1>11. MintedIsDrawn'
    BY <1>1 DEF MintedIsDrawn, TypeOK
  <1>12. RegisteredIsDrawn' /\ AssignedIsRegistered'
    BY DEF RegisteredIsDrawn, AssignedIsRegistered, Registered, TypeOK
  <1> QED
    BY <1>4, <1>5, <1>6, <1>7, <1>8, <1>9, <1>10, <1>11, <1>12 DEF Agreement

\* A lock is granted; nothing is read or written.
LEMMA LockStep ==
    ASSUME IInv, NEW q \in Requests, NEW row, LockRow(q, row),
           UNCHANGED <<tables, pgcSeq, clock, request, stage, started, writes, minted>>
    PROVE  Agreement'
  <1> USE DEF IInv, tables
  <1>1. /\ locks' = [locks EXCEPT ![q] = @ \cup {row}]
        /\ pending' = [pending EXCEPT ![q] = @ \ {row}]
        /\ \A o \in Requests \ {q} : row \notin locks[o]
    BY DEF LockRow, Free
  <1>2. LocksExclude'
    BY <1>1 DEF LocksExclude, TypeOK
  <1>3. \A o \in Requests : locks[o] \subseteq locks'[o]
                             /\ locks[o] \cup pending[o] \subseteq locks'[o] \cup pending'[o]
    BY <1>1 DEF TypeOK
  <1>4. \A o \in Requests : Written(o)' = Written(o)
    BY DEF Written
  <1>5. LocksHeld'
    BY <1>3, <1>4 DEF LocksHeld, LockedRows
  <1>6. StageFitsRequest' /\ NothingWritten'
    BY DEF StageFitsRequest, NothingWritten, AssignRequest, MergeRequest,
           CrossmatchRequest, Registered
  <1>7. AssignmentIsCurrent' /\ MergeIsCurrent'
    BY <1>4 DEF AssignmentIsCurrent, MergeIsCurrent, Registered,
                IsNew, IsExisting, Candidate
  <1>8. MintedIsExclusive' /\ MintedIsDrawn' /\ RegisteredIsDrawn' /\ AssignedIsRegistered'
    BY DEF MintedIsExclusive, MintedIsDrawn, RegisteredIsDrawn, AssignedIsRegistered, Registered
  <1> QED
    BY <1>2, <1>5, <1>6, <1>7, <1>8 DEF Agreement

\* A handler is called: nothing is locked, read or written yet.
LEMMA ReceiveStep ==
    ASSUME IInv, NEW q \in Requests,
           ReceiveCrossmatch(q) \/ ReceiveAssign(q) \/ ReceiveMerge(q)
    PROVE  Agreement'
  <1> USE DEF IInv, tables
  <1>1. PICK a \in Menu, first \in Stages :
           /\ Receive(q, a, first)
           /\ first = "upsert" => /\ CrossmatchRequest(a)
                                  /\ pending'[q] = RowOf("crossmatch", DOMAIN a.rows)
           /\ first = "check" => AssignRequest(a)
           /\ first = "scan" => MergeRequest(a) /\ a.target \in Registered
           /\ first \in {"upsert", "check", "scan", "rejected"}
           /\ \A o \in Requests \ {q} : pending'[o] = pending[o]
    BY DEF ReceiveCrossmatch, ReceiveAssign, ReceiveMerge, TypeOK, Stages, Finished
  <1>2. /\ stage[q] = "idle"
        /\ request' = [request EXCEPT ![q] = a]
        /\ stage' = [stage EXCEPT ![q] = first]
        /\ UNCHANGED <<recordPgc, crossmatch, modTime, pgcSeq, locks, writes, minted>>
    BY <1>1 DEF Receive
  <1>3. \A o \in Requests : Written(o)' = Written(o)
    BY <1>2 DEF Written
  <1>4. minted[q] = {} /\ Written(q) = {}
    BY <1>2 DEF NothingWritten, Written, NoWrites
  <1>5. StageFitsRequest'
    BY <1>1, <1>2 DEF StageFitsRequest, TypeOK, AssignRequest, MergeRequest,
                      CrossmatchRequest, Registered
  <1>6. LocksExclude' /\ NothingWritten'
    BY <1>1, <1>2, <1>4 DEF LocksExclude, NothingWritten, TypeOK, NoWrites
  <1>7. LocksHeld'
    <2> SUFFICES ASSUME NEW o \in Requests
                 PROVE  /\ stage'[o] = "lock" => LockedRows(o)' \subseteq locks'[o] \cup pending'[o]
                        /\ stage'[o] = "upsert" =>
                             RowOf("crossmatch", DOMAIN request'[o].rows)
                               \subseteq locks'[o] \cup pending'[o]
                        /\ stage'[o] = "touch" /\ request'[o].op = "assign"
                             => LockedRows(o)' \subseteq locks'[o]
                        /\ RowOf("records", Written(o)') \subseteq locks'[o]
      BY DEF LocksHeld
    <2>1. CASE o = q
      BY <1>1, <1>2, <1>3, <1>4, <2>1 DEF TypeOK, RowOf
    <2>2. CASE o # q
      BY <1>1, <1>2, <1>3, <2>2 DEF TypeOK, LocksHeld, LockedRows
    <2> QED
      BY <2>1, <2>2
  <1>8. AssignmentIsCurrent' /\ MergeIsCurrent'
    BY <1>1, <1>2, <1>3, <1>4 DEF AssignmentIsCurrent, MergeIsCurrent, Registered,
                IsNew, IsExisting, Candidate, TypeOK
  <1>9. MintedIsExclusive' /\ MintedIsDrawn' /\ RegisteredIsDrawn' /\ AssignedIsRegistered'
    BY <1>2 DEF MintedIsExclusive, MintedIsDrawn, RegisteredIsDrawn, AssignedIsRegistered,
                Registered
  <1> QED
    BY <1>5, <1>6, <1>7, <1>8, <1>9 DEF Agreement

\* A step that only goes on to the next statement of q, with nothing written.
LEMMA AcceptStep ==
    ASSUME IInv, NEW q \in Requests, AcceptAssign(q) \/ ScanMerge(q)
    PROVE  Agreement'
  <1> USE DEF IInv, tables
  <1>1. /\ UNCHANGED <<recordPgc, crossmatch, modTime, pgcSeq, request, locks, writes, minted>>
        /\ \/ stage[q] = "check" /\ stage' = [stage EXCEPT ![q] = "lock"]
              /\ pending' = [pending EXCEPT ![q] = LockedRows(q)]
           \/ stage[q] = "scan" /\ stage' = [stage EXCEPT ![q] = "move"]
              /\ pending' = [pending EXCEPT ![q] = RowOf("records",
                     {r \in Records : recordPgc[r] \in request[q].sources})]
    BY DEF AcceptAssign, ScanMerge, Assignable
  <1>2. \A o \in Requests : Written(o)' = Written(o) /\ LockedRows(o)' = LockedRows(o)
    BY <1>1 DEF Written, LockedRows
  <1>3. Written(q) = {} /\ minted[q] = {}
    BY <1>1 DEF NothingWritten, Written, NoWrites
  <1>4. StageFitsRequest'
    <2>1. CASE AcceptAssign(q)
      <3>1. \A r \in request[q].ids : crossmatch[r] # None
        BY <2>1 DEF AcceptAssign, Assignable
      <3>2. stage[q] = "check" /\ stage' = [stage EXCEPT ![q] = "lock"]
        BY <2>1 DEF AcceptAssign
      <3> QED
        BY <1>1, <3>1, <3>2 DEF StageFitsRequest, TypeOK, AssignRequest, MergeRequest,
                                CrossmatchRequest, Registered
    <2>2. CASE ScanMerge(q)
      <3>1. stage[q] = "scan" /\ stage' = [stage EXCEPT ![q] = "move"]
        BY <2>2 DEF ScanMerge
      <3> QED
        BY <1>1, <3>1 DEF StageFitsRequest, TypeOK, AssignRequest, MergeRequest,
                          CrossmatchRequest, Registered
    <2> QED
      BY <2>1, <2>2
  <1>5. LocksExclude' /\ NothingWritten'
    BY <1>1, <1>3 DEF LocksExclude, NothingWritten, TypeOK, NoWrites
  <1>6. LocksHeld'
    BY <1>1, <1>2 DEF LocksHeld, TypeOK
  <1>7. AssignmentIsCurrent' /\ MergeIsCurrent'
    <2>1. \A o \in Requests : stage'[o] = stage[o] \/ Written(o)' = {}
      BY <1>1, <1>2, <1>3 DEF TypeOK
    <2>2. AssignmentIsCurrent'
      BY <1>1, <1>2, <2>1 DEF AssignmentIsCurrent, Registered,
                              IsNew, IsExisting, Candidate
    <2>3. MergeIsCurrent'
      BY <1>1, <1>2, <2>1 DEF MergeIsCurrent
    <2> QED
      BY <2>2, <2>3
  <1>8. MintedIsExclusive' /\ MintedIsDrawn' /\ RegisteredIsDrawn' /\ AssignedIsRegistered'
    BY <1>1 DEF MintedIsExclusive, MintedIsDrawn, RegisteredIsDrawn, AssignedIsRegistered,
                Registered
  <1> QED
    BY <1>4, <1>5, <1>6, <1>7, <1>8 DEF Agreement

\* A merge rewrites a row it has just locked.
LEMMA MoveStep ==
    ASSUME IInv, NEW q \in Requests, MoveRow(q)
    PROVE  Agreement'
  <1> USE DEF IInv, tables
  <1>1. PICK r \in Records :
           /\ LockRow(q, <<"records", r>>)
           /\ writes' = IF recordPgc[r] \in request[q].sources
                        THEN [writes EXCEPT ![q][r] = request[q].target]
                        ELSE writes
    BY DEF MoveRow
  <1>2. /\ stage[q] = "move" /\ MergeRequest(request[q]) /\ request[q].op = "merge"
        /\ request[q].target \in Nat /\ request[q].op # "assign"
        /\ UNCHANGED <<recordPgc, crossmatch, modTime, pgcSeq, request, stage, minted>>
    BY DEF MoveRow, StageFitsRequest, MergeRequest
  <1> DEFINE row == <<"records", r>>
  <1>3. /\ locks' = [locks EXCEPT ![q] = @ \cup {row}]
        /\ pending' = [pending EXCEPT ![q] = @ \ {row}]
        /\ \A o \in Requests \ {q} : row \notin locks[o]
    BY <1>1 DEF LockRow, Free
  <1>4. /\ \A o \in Requests \ {q} : Written(o)' = Written(o) /\ writes'[o] = writes[o]
        /\ Written(q)' \subseteq Written(q) \cup {r}
        /\ \A s \in Records \ {r} : writes'[q][s] = writes[q][s]
        /\ r \in Written(q)' => \/ recordPgc[r] \in request[q].sources
                                     /\ writes'[q][r] = request[q].target
                                \/ r \in Written(q) /\ writes'[q][r] = writes[q][r]
    BY <1>1, <1>2, NoneIsNoValue DEF Written, TypeOK
  <1>5. StageFitsRequest' /\ NothingWritten'
    BY <1>2, <1>4 DEF StageFitsRequest, NothingWritten, TypeOK, AssignRequest, MergeRequest,
                CrossmatchRequest, Registered, NoWrites
  <1>6. RowOf("records", Written(q)') \subseteq locks'[q]
    BY <1>3, <1>4 DEF LocksHeld, RowOf, TypeOK
  <1>7. /\ row \in locks'[q]
        /\ \A o \in Requests : locks[o] \subseteq locks'[o]
                   /\ locks[o] \cup pending[o] \subseteq locks'[o] \cup pending'[o]
    BY <1>3 DEF TypeOK
  <1>8. LocksExclude'
    <2> HIDE DEF row
    <2> QED
      BY <1>3 DEF LocksExclude, TypeOK
  <1>9. LocksHeld'
    <2>1. \A o \in Requests : RowOf("records", Written(o)') \subseteq locks'[o]
      BY <1>4, <1>6, <1>7 DEF LocksHeld
    <2> QED
      BY <1>2, <1>7, <2>1 DEF LocksHeld, LockedRows
  <1>10. AssignmentIsCurrent'
    BY <1>2, <1>4 DEF AssignmentIsCurrent, Registered, IsNew, IsExisting, Candidate
  <1>11. MergeIsCurrent'
    <2> SUFFICES ASSUME NEW o \in Requests,
                        stage[o] \in {"move", "touch"}, request[o].op = "merge",
                        NEW s \in Written(o)'
                 PROVE  recordPgc[s] \in request[o].sources
                        /\ writes'[o][s] = request[o].target
      BY <1>2 DEF MergeIsCurrent
    <2>1. s \in Records
      BY DEF Written
    <2>2. CASE o = q /\ s = r
      BY <1>4, <2>2 DEF MergeIsCurrent
    <2>3. CASE o # q \/ s # r
      BY <1>4, <2>1, <2>3 DEF MergeIsCurrent, Written
    <2> QED
      BY <2>2, <2>3
  <1>12. MintedIsDrawn'
    BY <1>2, <1>4 DEF MintedIsDrawn, NothingWritten
  <1>13. MintedIsExclusive' /\ RegisteredIsDrawn' /\ AssignedIsRegistered'
    BY <1>2 DEF MintedIsExclusive, RegisteredIsDrawn, AssignedIsRegistered, Registered
  <1> QED
    BY <1>5, <1>8, <1>9, <1>10, <1>11, <1>12, <1>13 DEF Agreement

\* A merge has rewritten its rows and goes on to touch the objects.
LEMMA TouchMergedStep ==
    ASSUME IInv, NEW q \in Requests, TouchMerged(q)
    PROVE  Agreement'
  <1> USE DEF IInv, tables
  <1>1. /\ UNCHANGED <<recordPgc, crossmatch, modTime, pgcSeq, request, locks, writes, minted>>
        /\ stage[q] = "move" /\ stage' = [stage EXCEPT ![q] = "touch"]
        /\ MergeRequest(request[q]) /\ request[q].op = "merge" /\ request[q].op # "assign"
        /\ \A o \in Requests \ {q} : pending'[o] = pending[o]
    BY DEF TouchMerged, StartTouch, TypeOK, StageFitsRequest, MergeRequest
  <1>2. \A o \in Requests : Written(o)' = Written(o) /\ LockedRows(o)' = LockedRows(o)
    BY <1>1 DEF Written, LockedRows
  <1>3. StageFitsRequest'
    BY <1>1 DEF StageFitsRequest, TypeOK, AssignRequest, MergeRequest,
                CrossmatchRequest, Registered
  <1>4. LocksExclude' /\ NothingWritten'
    BY <1>1 DEF LocksExclude, NothingWritten, TypeOK, NoWrites
  <1>5. LocksHeld'
    BY <1>1, <1>2 DEF LocksHeld, TypeOK
  <1>6. AssignmentIsCurrent' /\ MergeIsCurrent'
    BY <1>1, <1>2 DEF AssignmentIsCurrent, MergeIsCurrent, Registered,
                IsNew, IsExisting, Candidate, TypeOK
  <1>7. MintedIsExclusive' /\ MintedIsDrawn' /\ RegisteredIsDrawn' /\ AssignedIsRegistered'
    BY <1>1 DEF MintedIsExclusive, MintedIsDrawn, RegisteredIsDrawn, AssignedIsRegistered,
                Registered
  <1> QED
    BY <1>3, <1>4, <1>5, <1>6, <1>7 DEF Agreement

\* Two transactions never work on the same row: what one has written of a table
\* is disjoint from what the other has.
LEMMA Disjoint ==
    ASSUME LocksExclude, NEW q \in Requests, NEW o \in Requests, q # o, NEW row,
           row \in locks[q]
    PROVE  row \notin locks[o]
  BY DEF LocksExclude

\* A crossmatch writer commits: no open assignment has read one of its rows.
LEMMA CommitCrossmatchStep ==
    ASSUME IInv, NEW q \in Requests, CommitCrossmatch(q)
    PROVE  Agreement'
  <1> USE DEF IInv
  <1>1. /\ stage[q] = "upsert" /\ pending[q] = {}
        /\ End(q, "done")
        /\ UNCHANGED <<recordPgc, modTime, pgcSeq, clock, request, started>>
        /\ crossmatch' = [r \in Records |-> IF r \in DOMAIN request[q].rows
                                            THEN request[q].rows[r] ELSE crossmatch[r]]
    BY DEF CommitCrossmatch
  <1>2. RowOf("crossmatch", DOMAIN request[q].rows) \subseteq locks[q]
    BY <1>1 DEF LocksHeld
  <1>3. ASSUME NEW o \in Requests, stage'[o] = "touch", request[o].op = "assign",
               NEW r \in Written(o)'
        PROVE  /\ o # q /\ stage[o] = "touch" /\ r \in Written(o)
               /\ crossmatch'[r] = crossmatch[r]
    <2>1. o # q /\ stage[o] = "touch"
      BY <1>1, <1>3 DEF End, TypeOK
    <2>2. r \in Written(o) /\ r \in Records
      BY <1>1, <1>3, <2>1 DEF End, Written, TypeOK
    <2>3. r \in request[o].ids
      BY <1>3, <2>1, <2>2 DEF AssignmentIsCurrent
    <2>4. <<"crossmatch", r>> \in locks[o]
      BY <1>3, <2>1, <2>3 DEF LocksHeld, LockedRows, RowOf
    <2>5. <<"crossmatch", r>> \notin locks[q]
      BY <2>1, <2>4, Disjoint
    <2>6. r \notin DOMAIN request[q].rows
      BY <1>2, <2>5 DEF RowOf
    <2> QED
      BY <1>1, <2>1, <2>2, <2>6
  <1>4. /\ stage' = [stage EXCEPT ![q] = "done"]
        /\ pending' = [pending EXCEPT ![q] = {}]
        /\ locks' = [locks EXCEPT ![q] = {}]
        /\ writes' = [writes EXCEPT ![q] = NoWrites]
        /\ minted' = [minted EXCEPT ![q] = {}]
    BY <1>1 DEF End
  <1>5. Written(q)' = {} /\ \A o \in Requests \ {q} : Written(o)' = Written(o)
    BY <1>4 DEF Written, NoWrites, TypeOK
  <1>6. StageFitsRequest'
    <2>1. \A r \in Records : crossmatch[r] # None => crossmatch'[r] # None
      BY <1>1, NoneIsNoValue DEF StageFitsRequest, CrossmatchRequest
    <2> QED
      BY <1>1, <1>4, <2>1 DEF StageFitsRequest, TypeOK, AssignRequest, MergeRequest,
                              CrossmatchRequest, Registered
  <1>7. LocksExclude'
    BY <1>4 DEF LocksExclude, TypeOK
  <1>8. LocksHeld'
    BY <1>1, <1>4, <1>5 DEF LocksHeld, TypeOK, LockedRows, RowOf
  <1>9. NothingWritten'
    BY <1>1, <1>4 DEF NothingWritten, TypeOK, NoWrites
  <1>10. AssignmentIsCurrent'
    <2> SUFFICES ASSUME NEW o \in Requests, stage'[o] = "touch", request[o].op = "assign",
                        NEW r \in Written(o)'
                 PROVE  /\ r \in request[o].ids
                        /\ recordPgc[r] = None
                        /\ crossmatch'[r] # None
                        /\ \/ /\ IsExisting(crossmatch'[r])
                              /\ writes'[o][r] = Candidate(crossmatch'[r])
                              /\ writes'[o][r] \in Registered
                           \/ IsNew(crossmatch'[r]) /\ writes'[o][r] \in minted'[o]
      BY <1>1 DEF AssignmentIsCurrent, Registered, IsNew, IsExisting, Candidate
    <2>1. o # q /\ stage[o] = "touch" /\ r \in Written(o) /\ crossmatch'[r] = crossmatch[r]
      BY <1>3
    <2>2. writes'[o] = writes[o] /\ minted'[o] = minted[o]
      BY <1>4, <2>1 DEF TypeOK
    <2> QED
      BY <2>1, <2>2 DEF AssignmentIsCurrent
  <1>11. MergeIsCurrent'
    BY <1>1, <1>4, <1>5 DEF MergeIsCurrent, TypeOK
  <1>12. MintedIsExclusive' /\ MintedIsDrawn'
    BY <1>1, <1>4 DEF MintedIsExclusive, MintedIsDrawn, TypeOK, Registered
  <1>13. RegisteredIsDrawn' /\ AssignedIsRegistered'
    BY <1>1 DEF RegisteredIsDrawn, AssignedIsRegistered, Registered
  <1> QED
    BY <1>6, <1>7, <1>8, <1>9, <1>10, <1>11, <1>12, <1>13 DEF Agreement

\* An assignment reads its locked rows, mints and writes.
LEMMA UpdateStep ==
    ASSUME IInv, NEW q \in Requests, UpdateRecords(q)
    PROVE  Agreement'
  <1> USE DEF IInv, tables
  <1>1. PICK m \in Numberings(NewRows(q)) :
           /\ writes' = [writes EXCEPT ![q] =
                 [r \in Records |->
                     IF r \in NewRows(q) THEN m[r]
                     ELSE IF r \in ExistingRows(q) THEN Candidate(crossmatch[r])
                     ELSE None]]
           /\ minted' = [minted EXCEPT ![q] = {m[r] : r \in NewRows(q)}]
    BY DEF UpdateRecords
  <1>2. /\ stage[q] = "lock" /\ pending[q] = {} /\ AssignRequest(request[q])
        /\ request[q].op = "assign" /\ request[q].op # "merge"
        /\ request[q].ids \subseteq Records
        /\ stage' = [stage EXCEPT ![q] = "touch"]
        /\ pgcSeq' = SeqAfter(Cardinality(NewRows(q)))
        /\ UNCHANGED <<recordPgc, crossmatch, modTime, clock, request, started, locks>>
        /\ \A o \in Requests \ {q} : pending'[o] = pending[o]
    BY DEF UpdateRecords, StartTouch, StageFitsRequest, AssignRequest, TypeOK
  <1>3. NewRows(q) \subseteq request[q].ids /\ ExistingRows(q) \subseteq request[q].ids
        /\ NewRows(q) \cap ExistingRows(q) = {}
    <2>1. ASSUME NEW r, r \in NewRows(q), r \in ExistingRows(q)
          PROVE FALSE
      <3> DEFINE n == Len(crossmatch[r].candidates)
      <3>1. n = 0 /\ n = 1
        BY <2>1, Zenon DEF NewRows, ExistingRows, IsNew, IsExisting
      <3> HIDE DEF n
      <3> QED BY <3>1
    <2> QED
      BY <2>1 DEF NewRows, ExistingRows
  <1>4. /\ pgcSeq' \in Nat /\ pgcSeq' >= pgcSeq
        /\ m \in [NewRows(q) -> Nat]
        /\ \A r \in NewRows(q) : m[r] >= pgcSeq /\ m[r] < pgcSeq'
        /\ \A r, s \in NewRows(q) : m[r] = m[s] => r = s
    BY <1>2, <1>3, NumberingTypes
  <1>5. /\ \A o \in Requests \ {q} : /\ Written(o)' = Written(o)
                                     /\ writes'[o] = writes[o] /\ minted'[o] = minted[o]
        /\ \A r \in NewRows(q) : writes'[q][r] = m[r] /\ m[r] \in minted'[q]
        /\ \A r \in ExistingRows(q) : writes'[q][r] = Candidate(crossmatch[r])
        /\ Written(q)' \subseteq NewRows(q) \cup ExistingRows(q)
        /\ minted'[q] = {m[r] : r \in NewRows(q)}
    BY <1>1, <1>2, <1>3 DEF Written, TypeOK
  <1>6. \A r \in ExistingRows(q) : Candidate(crossmatch[r]) \in Registered
    BY DEF UpdateRecords, UnknownCandidate
  <1>7. \A p \in Registered : p \in Nat /\ p < pgcSeq /\ p \notin minted'[q]
    BY <1>4, <1>5 DEF RegisteredIsDrawn, TypeOK
  <1>8. \A o \in Requests \ {q} : \A p \in minted[o] :
            p \in Nat /\ p < pgcSeq /\ p \notin minted'[q]
    BY <1>4, <1>5 DEF MintedIsDrawn, TypeOK
  <1>9. StageFitsRequest'
    BY <1>2 DEF StageFitsRequest, TypeOK, AssignRequest, MergeRequest,
                CrossmatchRequest, Registered
  <1>10. LocksExclude' /\ NothingWritten'
    BY <1>2, <1>5 DEF LocksExclude, NothingWritten, TypeOK, NoWrites
  <1>11. LocksHeld'
    <2>1. \A o \in Requests : LockedRows(o)' = LockedRows(o)
      BY <1>2 DEF LockedRows
    <2>2. LockedRows(q) \subseteq locks[q]
      BY <1>2 DEF LocksHeld
    <2>3. RowOf("records", Written(q)') \subseteq locks[q]
      BY <1>3, <1>5, <2>2 DEF LockedRows, RowOf
    <2> QED
      BY <1>2, <1>5, <2>1, <2>2, <2>3 DEF LocksHeld, TypeOK
  <1>12. AssignmentIsCurrent'
    <2> SUFFICES ASSUME NEW o \in Requests, stage'[o] = "touch", request[o].op = "assign",
                        NEW r \in Written(o)'
                 PROVE  /\ r \in request[o].ids
                        /\ recordPgc[r] = None
                        /\ crossmatch[r] # None
                        /\ \/ /\ IsExisting(crossmatch[r])
                              /\ writes'[o][r] = Candidate(crossmatch[r])
                              /\ writes'[o][r] \in Registered
                           \/ IsNew(crossmatch[r]) /\ writes'[o][r] \in minted'[o]
      BY <1>2 DEF AssignmentIsCurrent, Registered, IsNew, IsExisting, Candidate
    <2>1. CASE o # q
      BY <1>2, <1>5, <2>1 DEF AssignmentIsCurrent, TypeOK
    <2>2. CASE o = q
      <3>1. r \in NewRows(q) \cup ExistingRows(q)
        BY <1>5, <2>2
      <3>2. r \in request[q].ids /\ recordPgc[r] = None
        BY <3>1 DEF NewRows, ExistingRows, Unassigned
      <3>3. crossmatch[r] # None
        BY <1>2, <3>2 DEF StageFitsRequest
      <3> QED
        BY <1>5, <1>6, <2>2, <3>1, <3>2, <3>3 DEF NewRows, ExistingRows
    <2> QED
      BY <2>1, <2>2
  <1>13. MergeIsCurrent'
    BY <1>2, <1>5 DEF MergeIsCurrent, TypeOK
  <1>14. MintedIsExclusive'
    BY <1>2, <1>5, <1>7, <1>8 DEF MintedIsExclusive, Registered
  <1>15. MintedIsDrawn'
    <2> SUFFICES ASSUME NEW o \in Requests
                 PROVE  /\ \A p \in minted'[o] :
                              p < pgcSeq' /\ \E r \in Records : writes'[o][r] = p
                        /\ \A r, s \in Records :
                              writes'[o][r] \in minted'[o] /\ writes'[o][r] = writes'[o][s]
                                 => r = s
      BY DEF MintedIsDrawn
    <2>1. CASE o # q
      <3>1. \A p \in minted[o] : p < pgcSeq'
        BY <1>4, <1>8, <2>1 DEF TypeOK
      <3> QED
        BY <1>5, <2>1, <3>1 DEF MintedIsDrawn
    <2>2. CASE o = q
      <3>0. NewRows(q) \subseteq Records
        BY <1>2, <1>3
      <3>1. \A p \in minted'[q] : \E r \in NewRows(q) :
                p = m[r] /\ p < pgcSeq' /\ r \in Records /\ writes'[q][r] = p
        BY <1>4, <1>5, <3>0
      <3>2. \A r \in Records : writes'[q][r] \in minted'[q] => r \in NewRows(q)
        <4> SUFFICES ASSUME NEW r \in Records, r \notin NewRows(q)
                     PROVE  writes'[q][r] \notin minted'[q]
          OBVIOUS
        <4>1. CASE r \in ExistingRows(q)
          BY <1>5, <1>6, <1>7, <4>1
        <4>2. CASE r \notin ExistingRows(q)
          <5>1. writes'[q][r] = None
            BY <1>1, <4>2 DEF TypeOK
          <5>2. None \notin minted'[q]
            BY <1>4, <1>5, NoneIsNoValue
          <5> QED
            BY <5>1, <5>2
        <4> QED
          BY <4>1, <4>2
      <3>3. \A r, s \in NewRows(q) : writes'[q][r] = writes'[q][s] => r = s
        BY <1>4, <1>5
      <3> QED
        BY <2>2, <3>0, <3>1, <3>2, <3>3
    <2> QED
      BY <2>1, <2>2
  <1>16. RegisteredIsDrawn' /\ AssignedIsRegistered'
    <2>1. \A p \in Registered : p < pgcSeq'
      BY <1>4, <1>7 DEF TypeOK
    <2> QED
      BY <1>2, <2>1 DEF RegisteredIsDrawn, AssignedIsRegistered, Registered
  <1> QED
    BY <1>9, <1>10, <1>11, <1>12, <1>13, <1>14, <1>15, <1>16 DEF Agreement

\* A commit publishes what the transaction wrote: the rows it wrote are locked by
\* it, so no other open transaction has read or written them.
LEMMA CommitStep ==
    ASSUME IInv, NEW q \in Requests, Commit(q)
    PROVE  Agreement'
  <1> USE DEF IInv
  <1>1. /\ stage[q] = "touch"
        /\ recordPgc' = [r \in Records |->
                            IF r \in Written(q) THEN writes[q][r] ELSE recordPgc[r]]
        /\ Registered' = Registered \cup minted[q]
        /\ UNCHANGED <<crossmatch, pgcSeq, request>>
        /\ stage' = [stage EXCEPT ![q] = "done"]
        /\ pending' = [pending EXCEPT ![q] = {}]
        /\ locks' = [locks EXCEPT ![q] = {}]
        /\ writes' = [writes EXCEPT ![q] = NoWrites]
        /\ minted' = [minted EXCEPT ![q] = {}]
    BY DEF Commit, End, Registered
  <1>2. Written(q)' = {} /\ \A o \in Requests \ {q} : Written(o)' = Written(o)
    BY <1>1 DEF Written, NoWrites, TypeOK
  <1>3. ASSUME NEW o \in Requests \ {q}, NEW r \in Written(o)
        PROVE  recordPgc'[r] = recordPgc[r]
    <2>1. r \in Records /\ <<"records", r>> \in locks[o]
      BY DEF Written, LocksHeld, RowOf
    <2>2. <<"records", r>> \notin locks[q]
      BY <2>1, Disjoint
    <2>3. r \notin Written(q)
      BY <2>2 DEF LocksHeld, RowOf
    <2> QED
      BY <1>1, <2>1, <2>3
  <1>4. StageFitsRequest'
    <2>1. StageFitsRequest /\ Registered \subseteq Registered'
      BY <1>1
    <2> HIDE DEF IInv
    <2> QED
      BY <1>1, <2>1 DEF IInv, StageFitsRequest, TypeOK, AssignRequest, MergeRequest,
                        CrossmatchRequest
  <1>5. LocksExclude'
    BY <1>1 DEF LocksExclude, TypeOK
  <1>6. LocksHeld'
    BY <1>1, <1>2 DEF LocksHeld, TypeOK, LockedRows, RowOf
  <1>7. NothingWritten'
    BY <1>1 DEF NothingWritten, TypeOK, NoWrites
  <1>8. AssignmentIsCurrent'
    <2> SUFFICES ASSUME NEW o \in Requests, stage'[o] = "touch", request[o].op = "assign",
                        NEW r \in Written(o)'
                 PROVE  /\ r \in request[o].ids
                        /\ recordPgc'[r] = None
                        /\ crossmatch[r] # None
                        /\ \/ /\ IsExisting(crossmatch[r])
                              /\ writes'[o][r] = Candidate(crossmatch[r])
                              /\ writes'[o][r] \in Registered'
                           \/ IsNew(crossmatch[r]) /\ writes'[o][r] \in minted'[o]
      BY <1>1 DEF AssignmentIsCurrent, IsNew, IsExisting, Candidate
    <2>1. o # q /\ stage[o] = "touch" /\ r \in Written(o)
          /\ writes'[o] = writes[o] /\ minted'[o] = minted[o]
      BY <1>1, <1>2 DEF TypeOK
    <2>2. recordPgc'[r] = recordPgc[r]
      BY <1>3, <2>1
    <2> QED
      BY <1>1, <2>1, <2>2 DEF AssignmentIsCurrent
  <1>9. MergeIsCurrent'
    <2> SUFFICES ASSUME NEW o \in Requests, stage'[o] \in {"move", "touch"},
                        request[o].op = "merge", NEW r \in Written(o)'
                 PROVE  recordPgc'[r] \in request[o].sources
                        /\ writes'[o][r] = request[o].target
      BY <1>1 DEF MergeIsCurrent
    <2>1. o # q /\ stage[o] = stage'[o] /\ r \in Written(o) /\ writes'[o] = writes[o]
      BY <1>1, <1>2 DEF TypeOK
    <2>2. recordPgc'[r] = recordPgc[r]
      BY <1>3, <2>1
    <2> QED
      BY <2>1, <2>2 DEF MergeIsCurrent
  <1>10. MintedIsExclusive' /\ MintedIsDrawn'
    BY <1>1 DEF MintedIsExclusive, MintedIsDrawn, TypeOK
  <1>11. RegisteredIsDrawn'
    BY <1>1 DEF RegisteredIsDrawn, MintedIsDrawn
  <1>12. AssignedIsRegistered'
    <2>1. \A r \in Written(q) : writes[q][r] \in Registered \cup minted[q]
      <3>1. CASE request[q].op = "assign"
        BY <1>1, <3>1 DEF AssignmentIsCurrent
      <3>2. CASE request[q].op = "merge"
        BY <1>1, <3>2 DEF MergeIsCurrent, StageFitsRequest
      <3> QED
        BY <1>1, <3>1, <3>2 DEF StageFitsRequest, AssignRequest, MergeRequest
    <2> QED
      BY <1>1, <2>1 DEF AssignedIsRegistered
  <1> QED
    BY <1>4, <1>5, <1>6, <1>7, <1>8, <1>9, <1>10, <1>11, <1>12 DEF Agreement

-------------------------------------------------------------------------------
\* The initial tables satisfy the invariant.
LEMMA IInvInit == Init => IInv
  <1> SUFFICES ASSUME Init PROVE IInv
    OBVIOUS
  <1> USE DEF Init
  <1>1. Registered = InitialPgcs
    BY DEF Registered
  <1>2. TypeOK
    BY <1>1, InitialTables DEF TypeOK, NoWrites, Stages
  <1>3. \A q \in Requests : Written(q) = {}
    BY DEF Written, NoWrites
  <1>4. StageFitsRequest /\ LocksExclude /\ NothingWritten
    BY DEF StageFitsRequest, LocksExclude, NothingWritten
  <1>5. LocksHeld
    BY <1>3 DEF LocksHeld, RowOf
  <1>6. AssignmentIsCurrent /\ MergeIsCurrent /\ MintedIsExclusive /\ MintedIsDrawn
    BY DEF AssignmentIsCurrent, MergeIsCurrent, MintedIsExclusive, MintedIsDrawn
  <1>7. RegisteredIsDrawn /\ AssignedIsRegistered
    BY <1>1, InitialTables DEF RegisteredIsDrawn, AssignedIsRegistered
  <1> QED
    BY <1>2, <1>4, <1>5, <1>6, <1>7 DEF IInv

\* Every step of every handler preserves it.
LEMMA IInvStep == IInv /\ [Next]_vars => IInv'
  <1> SUFFICES ASSUME IInv, [Next]_vars PROVE Agreement'
    BY TypeStep DEF IInv, Agreement
  <1>1. CASE UNCHANGED vars
    BY <1>1 DEF vars, IInv, Agreement, StageFitsRequest, LocksExclude, LocksHeld,
                NothingWritten, AssignmentIsCurrent, MergeIsCurrent, MintedIsExclusive,
                MintedIsDrawn, RegisteredIsDrawn, AssignedIsRegistered, Registered, Written,
                LockedRows, AssignRequest, MergeRequest, CrossmatchRequest, IsNew,
                IsExisting, Candidate
  <1>2. ASSUME NEW q \in Requests, Receives(q) PROVE Agreement'
    BY <1>2, ReceiveStep DEF Receives
  <1>3. ASSUME NEW q \in Requests, UpsertRow(q) \/ LockForUpdate(q) \/ TouchRow(q)
        PROVE  Agreement'
    BY <1>3, LockStep DEF UpsertRow, LockForUpdate, TouchRow
  <1>4. ASSUME NEW q \in Requests,
               RejectAssign(q) \/ DeadlockAbort(q) \/ ConnectionLost(q)
        PROVE  Agreement'
    <2>1. pgcSeq' = pgcSeq /\ pgcSeq \in Nat
      BY <1>4 DEF RejectAssign, DeadlockAbort, ConnectionLost, IInv, TypeOK
    <2>2. pgcSeq' >= pgcSeq
      BY <2>1
    <2>3. \E outcome \in Finished : End(q, outcome)
      BY <1>4 DEF RejectAssign, DeadlockAbort, ConnectionLost, Finished
    <2>4. UNCHANGED <<recordPgc, crossmatch, modTime, request>>
      BY <1>4 DEF RejectAssign, DeadlockAbort, ConnectionLost, tables
    <2> QED
      BY <2>1, <2>2, <2>3, <2>4, EndStep
  <1>5. ASSUME NEW q \in Requests, FailUpdate(q) PROVE Agreement'
    <2>1. NewRows(q) \subseteq Records
      BY <1>5 DEF FailUpdate, NewRows, IInv, StageFitsRequest, AssignRequest
    <2>2. Cardinality(NewRows(q)) \in Nat /\ pgcSeq \in Nat
      BY <2>1, RecordsFinite, FS_Subset, FS_CardinalityType DEF IInv, TypeOK
    <2>3. pgcSeq' = pgcSeq + Cardinality(NewRows(q))
      BY <1>5 DEF FailUpdate, SeqAfter
    <2>4. pgcSeq' \in Nat /\ pgcSeq' >= pgcSeq
      BY <2>2, <2>3
    <2>5. End(q, "failed") /\ UNCHANGED <<recordPgc, crossmatch, modTime, request>>
      BY <1>5 DEF FailUpdate, tables
    <2> QED
      BY <2>4, <2>5, EndStep DEF Finished
  <1>6. ASSUME NEW q \in Requests, CommitCrossmatch(q) PROVE Agreement'
    BY <1>6, CommitCrossmatchStep
  <1>7. ASSUME NEW q \in Requests, AcceptAssign(q) \/ ScanMerge(q) PROVE Agreement'
    BY <1>7, AcceptStep
  <1>8. ASSUME NEW q \in Requests, UpdateRecords(q) PROVE Agreement'
    BY <1>8, UpdateStep
  <1>9. ASSUME NEW q \in Requests, MoveRow(q) PROVE Agreement'
    BY <1>9, MoveStep
  <1>10. ASSUME NEW q \in Requests, TouchMerged(q) PROVE Agreement'
    BY <1>10, TouchMergedStep
  <1>11. ASSUME NEW q \in Requests, Commit(q) PROVE Agreement'
    BY <1>11, CommitStep
  <1> QED
    BY <1>1, <1>2, <1>3, <1>4, <1>5, <1>6, <1>7, <1>8, <1>9, <1>10, <1>11
       DEF Next, Serve

\* The inductive invariant holds of every reachable state, for any number of
\* records, handler calls and inputs.
THEOREM InductiveInvariant == Spec => []IInv
  <1> QED
    BY IInvInit, IInvStep, PTL DEF Spec

\* Type correctness.
THEOREM TypeCorrect == Spec => []TypeOK
  <1>1. IInv => TypeOK
    BY DEF IInv
  <1> QED
    BY <1>1, InductiveInvariant, PTL

\* The registry always covers the numbers records have (the foreign key).
THEOREM ForeignKey == Spec => []AssignedIsRegistered
  <1>1. IInv => AssignedIsRegistered
    BY DEF IInv
  <1> QED
    BY <1>1, InductiveInvariant, PTL

\* Numbers minted by concurrent transactions never collide.
THEOREM MintExclusion == Spec => []MintedIsExclusive
  <1>1. IInv => MintedIsExclusive
    BY DEF IInv
  <1> QED
    BY <1>1, InductiveInvariant, PTL

-------------------------------------------------------------------------------
\* Only a commit changes the two tables readers look at.
LEMMA OnlyCommitWrites ==
    ASSUME [Next]_vars
    PROVE  \/ UNCHANGED <<recordPgc, modTime>>
           \/ \E q \in Requests : Commit(q)
  BY DEF Next, Receives, Serve, vars, tables, ReceiveCrossmatch, ReceiveAssign, ReceiveMerge,
         Receive, UpsertRow, CommitCrossmatch, RejectAssign, AcceptAssign, LockForUpdate,
         UpdateRecords, FailUpdate, ScanMerge, MoveRow, TouchMerged, TouchRow,
         DeadlockAbort, ConnectionLost

\* What a commit does to one record.
LEMMA CommitOfRecord ==
    ASSUME IInv, NEW q \in Requests, Commit(q), NEW r \in Records,
           recordPgc'[r] # recordPgc[r]
    PROVE  /\ Committing(q)
           /\ r \in Written(q) /\ recordPgc'[r] = writes[q][r] /\ recordPgc'[r] # None
           /\ \/ /\ request[q].op = "assign" /\ recordPgc[r] = None
                 /\ crossmatch[r] # None
                 /\ \/ /\ IsExisting(crossmatch[r]) /\ recordPgc'[r] \in Registered
                       /\ recordPgc'[r] = Candidate(crossmatch[r])
                    \/ /\ IsNew(crossmatch[r]) /\ recordPgc'[r] \in minted[q]
                       /\ recordPgc'[r] \notin Registered
              \/ /\ request[q].op = "merge" /\ recordPgc[r] \in request[q].sources
                 /\ recordPgc[r] # None
                 /\ recordPgc'[r] = request[q].target
                 /\ recordPgc'[r] \in Registered
  <1> USE DEF IInv
  <1>1. /\ stage[q] = "touch" /\ stage'[q] = "done"
        /\ r \in Written(q) /\ recordPgc'[r] = writes[q][r] /\ writes[q][r] # None
    BY DEF Commit, End, Written, TypeOK
  <1>2. CASE request[q].op = "assign"
    BY <1>1, <1>2 DEF AssignmentIsCurrent, MintedIsExclusive, Committing
  <1>3. CASE request[q].op = "merge"
    <2>1. MergeRequest(request[q]) /\ request[q].target \in Registered
      BY <1>1, <1>3 DEF StageFitsRequest, AssignRequest
    <2>2. recordPgc[r] \in request[q].sources /\ writes[q][r] = request[q].target
      BY <1>1, <1>3 DEF MergeIsCurrent
    <2>3. recordPgc[r] # None
      BY <2>1, <2>2, NoneIsNoValue DEF MergeRequest
    <2> QED
      BY <1>1, <1>3, <2>1, <2>2, <2>3 DEF Committing
  <1> QED
    BY <1>1, <1>2, <1>3 DEF StageFitsRequest, AssignRequest, MergeRequest

\* No assignment, however it interleaves with others, changes a number that a
\* record already has.
THEOREM NoReassignment == Spec => NoSilentReassignment
  <1>1. IInv /\ [Next]_vars => [ReassignedByMerge]_vars
    <2> SUFFICES ASSUME IInv, [Next]_vars, NEW r \in Records,
                        recordPgc[r] # None, recordPgc'[r] # recordPgc[r]
                 PROVE  \E q \in Requests :
                           /\ Committing(q) /\ request[q].op = "merge"
                           /\ recordPgc[r] \in request[q].sources
                           /\ recordPgc'[r] = request[q].target
      BY DEF ReassignedByMerge
    <2>1. PICK q \in Requests : Commit(q)
      BY OnlyCommitWrites
    <2> QED
      BY <2>1, CommitOfRecord
  <1> QED
    BY <1>1, InductiveInvariant, PTL DEF Spec, NoSilentReassignment

\* An assignment commits what the crossmatch row says at that moment.
THEOREM FollowsCrossmatch == Spec => AssignmentFollowsCrossmatch
  <1>1. IInv /\ [Next]_vars => [AssignedAsCrossmatched]_vars
    <2> SUFFICES ASSUME IInv, [Next]_vars, NEW r \in Records,
                        recordPgc[r] = None, recordPgc'[r] # None
                 PROVE  /\ crossmatch[r] # None
                        /\ \/ /\ IsExisting(crossmatch[r])
                              /\ recordPgc'[r] = Candidate(crossmatch[r])
                           \/ IsNew(crossmatch[r]) /\ recordPgc'[r] \notin Registered
      BY DEF AssignedAsCrossmatched
    <2>1. PICK q \in Requests : Commit(q)
      BY OnlyCommitWrites
    <2> QED
      BY <2>1, CommitOfRecord
  <1> QED
    BY <1>1, InductiveInvariant, PTL DEF Spec, AssignmentFollowsCrossmatch

\* Every change of a record's number touches the objects it concerns.
THEOREM ChangesAreTouched == Spec => ChangeIsTouched
  <1>1. IInv /\ [Next]_vars => [ChangeTouched]_vars
    <2> SUFFICES ASSUME IInv, [Next]_vars, NEW r \in Records, recordPgc'[r] # recordPgc[r]
                 PROVE  \E q \in Requests :
                           /\ Committing(q)
                           /\ \A p \in {recordPgc[r], recordPgc'[r]} \ {None} :
                                 modTime'[p] = started[q]
      BY DEF ChangeTouched
    <2>1. PICK q \in Requests : Commit(q)
      BY OnlyCommitWrites
    <2>2. \A p \in {recordPgc[r], recordPgc'[r]} \ {None} :
             p \in Registered \cup minted[q] /\ p \in TouchedBy(q)
      BY <2>1, CommitOfRecord DEF TouchedBy, IInv, AssignedIsRegistered
    <2>3. \A p \in {recordPgc[r], recordPgc'[r]} \ {None} : modTime'[p] = started[q]
      BY <2>1, <2>2 DEF Commit
    <2>4. Committing(q)
      BY <2>1, CommitOfRecord
    <2> QED
      BY <2>3, <2>4
  <1> QED
    BY <1>1, InductiveInvariant, PTL DEF Spec, ChangeIsTouched

-------------------------------------------------------------------------------
\* A call that has ended waits for no row.
EndedWaitsForNone == \A q \in Requests : stage[q] = "done" => pending[q] = {}

LEMMA EndedStep == IInv /\ EndedWaitsForNone /\ [Next]_vars => EndedWaitsForNone'
  <1> SUFFICES ASSUME IInv, EndedWaitsForNone, [Next]_vars, NEW o \in Requests,
                      stage'[o] = "done"
               PROVE  pending'[o] = {}
    BY DEF EndedWaitsForNone
  <1>1. CASE UNCHANGED vars
    BY <1>1 DEF vars, EndedWaitsForNone
  <1>2. ASSUME NEW q \in Requests, Receives(q) PROVE pending'[o] = {}
    BY <1>2 DEF Receives, ReceiveCrossmatch, ReceiveAssign, ReceiveMerge, Receive,
                EndedWaitsForNone, IInv, TypeOK
  <1>3. ASSUME NEW q \in Requests, Serve(q) \/ ConnectionLost(q) PROVE pending'[o] = {}
    <2>1. CASE UpsertRow(q) \/ LockForUpdate(q) \/ MoveRow(q) \/ TouchRow(q)
      BY <2>1 DEF UpsertRow, LockForUpdate, MoveRow, TouchRow, LockRow, EndedWaitsForNone,
                  IInv, TypeOK
    <2>2. CASE CommitCrossmatch(q) \/ RejectAssign(q) \/ FailUpdate(q) \/ Commit(q)
                 \/ DeadlockAbort(q) \/ ConnectionLost(q)
      BY <2>2 DEF CommitCrossmatch, RejectAssign, FailUpdate, Commit, DeadlockAbort,
                  ConnectionLost, End, EndedWaitsForNone, IInv, TypeOK
    <2>3. CASE AcceptAssign(q) \/ UpdateRecords(q) \/ ScanMerge(q) \/ TouchMerged(q)
      BY <2>3 DEF AcceptAssign, UpdateRecords, ScanMerge, TouchMerged, StartTouch,
                  EndedWaitsForNone, IInv, TypeOK
    <2> QED
      BY <1>3, <2>1, <2>2, <2>3 DEF Serve
  <1> QED
    BY <1>1, <1>2, <1>3 DEF Next

\* A call that has ended keeps its input.
LEMMA DonePersists ==
    ASSUME IInv, EndedWaitsForNone, [Next]_vars, NEW o \in Requests, stage[o] = "done"
    PROVE  stage'[o] = "done" /\ request'[o] = request[o]
  <1>1. CASE UNCHANGED vars
    BY <1>1 DEF vars
  <1>2. ASSUME NEW q \in Requests, Receives(q) PROVE stage'[o] = "done" /\ request'[o] = request[o]
    BY <1>2 DEF Receives, ReceiveCrossmatch, ReceiveAssign, ReceiveMerge, Receive, IInv, TypeOK
  <1>3. ASSUME NEW q \in Requests, Serve(q) \/ ConnectionLost(q), q # o
        PROVE  stage'[o] = "done" /\ request'[o] = request[o]
    BY <1>3 DEF Serve, UpsertRow, CommitCrossmatch, RejectAssign, AcceptAssign, LockForUpdate,
                UpdateRecords, FailUpdate, ScanMerge, MoveRow, TouchMerged, TouchRow, Commit,
                DeadlockAbort, ConnectionLost, StartTouch, End, IInv, TypeOK
  <1>4. ASSUME Serve(o) \/ ConnectionLost(o) PROVE FALSE
    BY <1>4 DEF EndedWaitsForNone, Waits, Serve, UpsertRow, CommitCrossmatch,
                RejectAssign, AcceptAssign, LockForUpdate, UpdateRecords, FailUpdate, ScanMerge,
                MoveRow, TouchMerged, TouchRow, Commit, DeadlockAbort, Deadlocked,
                ConnectionLost, Finished
  <1> QED
    BY <1>1, <1>2, <1>3, <1>4 DEF Next

\* Minted objects are not left empty but by a merge.
THEOREM NoObjectIsOrphaned == Spec => []NoOrphanObject
  <1>1. Init => NoOrphanObject
    BY DEF Init, NoOrphanObject, Registered
  <1>2. IInv /\ EndedWaitsForNone /\ NoOrphanObject /\ [Next]_vars => NoOrphanObject'
    <2> SUFFICES ASSUME IInv, EndedWaitsForNone, NoOrphanObject, [Next]_vars, NEW p \in Registered' \ InitialPgcs
                 PROVE  \/ \E r \in Records : recordPgc'[r] = p
                        \/ \E o \in Requests : /\ stage'[o] = "done" /\ request'[o].op = "merge"
                                               /\ p \in request'[o].sources
      BY DEF NoOrphanObject
    <2>1. ASSUME NEW o \in Requests, stage[o] = "done", request[o].op = "merge",
                 p \in request[o].sources
          PROVE  stage'[o] = "done" /\ request'[o].op = "merge" /\ p \in request'[o].sources
      BY <2>1, DonePersists
    <2>2. CASE UNCHANGED <<recordPgc, modTime>>
      BY <2>1, <2>2 DEF NoOrphanObject, Registered
    <2>3. CASE ~UNCHANGED <<recordPgc, modTime>>
      <3>1. PICK q \in Requests : Commit(q)
        BY <2>3, OnlyCommitWrites
      <3>2. /\ stage[q] = "touch" /\ stage'[q] = "done" /\ request'[q] = request[q]
            /\ Registered' = Registered \cup minted[q]
            /\ recordPgc' = [r \in Records |->
                                IF r \in Written(q) THEN writes[q][r] ELSE recordPgc[r]]
        BY <3>1 DEF Commit, End, Registered, IInv, TypeOK
      <3>3. CASE p \in minted[q]
        <4>1. PICK r \in Records : writes[q][r] = p
          BY <3>3 DEF IInv, MintedIsDrawn
        <4>2. p \in Nat
          BY <3>3 DEF IInv, TypeOK
        <4> QED
          BY <3>2, <4>1, <4>2, NoneIsNoValue DEF Written
      <3>4. CASE p \in Registered /\ \E r \in Records : recordPgc[r] = p
        <4>1. PICK r \in Records : recordPgc[r] = p
          BY <3>4
        <4>2. p # None
          BY <3>4, NoneIsNoValue DEF IInv, TypeOK
        <4>3. CASE r \notin Written(q)
          BY <3>2, <4>1, <4>3
        <4>4. CASE r \in Written(q)
          <5>1. request[q].op = "merge"
            BY <3>2, <4>1, <4>2, <4>4
               DEF IInv, AssignmentIsCurrent, StageFitsRequest, AssignRequest, MergeRequest
          <5>2. p \in request[q].sources
            BY <3>2, <4>1, <4>4, <5>1 DEF IInv, MergeIsCurrent
          <5> QED
            BY <3>2, <5>1, <5>2
        <4> QED
          BY <4>3, <4>4
      <3> QED
        BY <2>1, <3>2, <3>3, <3>4 DEF NoOrphanObject
    <2> QED
      BY <2>2, <2>3
  <1>3. Init => EndedWaitsForNone
    BY DEF Init, EndedWaitsForNone
  <1> QED
    BY <1>1, <1>2, <1>3, EndedStep, InductiveInvariant, PTL DEF Spec

-------------------------------------------------------------------------------
\* What an open assignment leaves out had a number already, or is collided.
AssignmentIsComplete ==
    \A q \in Requests : stage[q] = "touch" /\ request[q].op = "assign" =>
        \A r \in request[q].ids :
            r \in Written(q) \/ recordPgc[r] # None \/ IsCollided(crossmatch[r])

\* A record that has a number keeps having one.
LEMMA NumbersStay ==
    ASSUME IInv, [Next]_vars, NEW r \in Records, recordPgc[r] # None
    PROVE  recordPgc'[r] # None
  <1>1. CASE UNCHANGED <<recordPgc, modTime>>
    BY <1>1
  <1>2. CASE \E q \in Requests : Commit(q)
    BY <1>2 DEF Commit, Written
  <1> QED
    BY <1>1, <1>2, OnlyCommitWrites

\* The crossmatch rows an assignment has locked stay as they are.
LEMMA LockedRowsStay ==
    ASSUME IInv, [Next]_vars, NEW q \in Requests, stage[q] = "touch",
           request[q].op = "assign", NEW r \in request[q].ids, request[q].ids \subseteq Records
    PROVE  crossmatch'[r] = crossmatch[r]
  <1>1. CASE UNCHANGED crossmatch
    BY <1>1
  <1>2. ASSUME NEW o \in Requests, CommitCrossmatch(o) PROVE crossmatch'[r] = crossmatch[r]
    <2>1. stage[o] = "upsert" /\ pending[o] = {} /\ o # q
      BY <1>2 DEF CommitCrossmatch
    <2>2. RowOf("crossmatch", DOMAIN request[o].rows) \subseteq locks[o]
      BY <2>1 DEF IInv, LocksHeld
    <2>3. RowOf("crossmatch", request[q].ids) \subseteq locks[q]
      BY DEF IInv, LocksHeld, LockedRows
    <2>4. locks[q] \cap locks[o] = {}
      BY <2>1 DEF IInv, LocksExclude
    <2>5. r \notin DOMAIN request[o].rows
      BY <2>2, <2>3, <2>4 DEF RowOf
    <2> QED
      BY <1>2, <2>5 DEF CommitCrossmatch
  <1>3. UNCHANGED crossmatch \/ \E o \in Requests : CommitCrossmatch(o)
    BY DEF Next, Receives, Serve, vars, tables, ReceiveCrossmatch, ReceiveAssign, ReceiveMerge,
           Receive, UpsertRow, RejectAssign, AcceptAssign, LockForUpdate, UpdateRecords,
           FailUpdate, ScanMerge, MoveRow, TouchMerged, TouchRow, Commit, DeadlockAbort,
           ConnectionLost
  <1> QED
    BY <1>1, <1>2, <1>3

\* A transaction that touches objects succeeds by its commit only.
LEMMA EndsByCommit ==
    ASSUME IInv, [Next]_vars, NEW q \in Requests, stage[q] = "touch", stage'[q] = "done"
    PROVE  Commit(q)
  <1>1. CASE UNCHANGED vars
    BY <1>1 DEF vars
  <1>2. ASSUME NEW o \in Requests, Receives(o) PROVE FALSE
    BY <1>2 DEF Receives, ReceiveCrossmatch, ReceiveAssign, ReceiveMerge, Receive, IInv, TypeOK
  <1>3. ASSUME NEW o \in Requests, Serve(o) \/ ConnectionLost(o), o # q PROVE FALSE
    BY <1>3 DEF Serve, UpsertRow, CommitCrossmatch, RejectAssign, AcceptAssign, LockForUpdate,
                UpdateRecords, FailUpdate, ScanMerge, MoveRow, TouchMerged, TouchRow, Commit,
                DeadlockAbort, ConnectionLost, StartTouch, End, IInv, TypeOK
  <1>4. CASE DeadlockAbort(q) \/ ConnectionLost(q)
    BY <1>4 DEF DeadlockAbort, ConnectionLost, End, IInv, TypeOK
  <1>5. CASE Serve(q) /\ ~DeadlockAbort(q)
    BY <1>5 DEF Serve, UpsertRow, CommitCrossmatch, RejectAssign, AcceptAssign, LockForUpdate,
                UpdateRecords, FailUpdate, ScanMerge, MoveRow, TouchMerged, TouchRow
  <1> QED
    BY <1>1, <1>2, <1>3, <1>4, <1>5 DEF Next

LEMMA CompleteStep == IInv /\ AssignmentIsComplete /\ [Next]_vars => AssignmentIsComplete'
  <1> SUFFICES ASSUME IInv, AssignmentIsComplete, [Next]_vars, NEW q \in Requests,
                      stage'[q] = "touch", request'[q].op = "assign", NEW r \in request'[q].ids
               PROVE  \/ writes'[q][r] # None /\ r \in Records
                      \/ recordPgc'[r] # None \/ IsCollided(crossmatch'[r])
    BY DEF AssignmentIsComplete, Written, IsCollided
  <1>1. CASE UpdateRecords(q)
    <2>1. /\ stage[q] = "lock" /\ request'[q] = request[q] /\ AssignRequest(request[q])
          /\ recordPgc' = recordPgc /\ crossmatch' = crossmatch /\ crossmatch[r] # None
          /\ r \in Records /\ r \in request[q].ids
      BY <1>1 DEF UpdateRecords, tables, IInv, StageFitsRequest, AssignRequest
    <2>2. crossmatch[r] \in CrossmatchRow
      BY <2>1 DEF IInv, TypeOK
    <2>3. /\ IsNew(crossmatch[r]) \/ IsExisting(crossmatch[r]) \/ IsCollided(crossmatch[r])
          /\ ~(IsNew(crossmatch[r]) /\ IsExisting(crossmatch[r]))
      <3>1. crossmatch[r].candidates \in Seq(Nat)
        BY <2>2 DEF CrossmatchRow
      <3>2. Len(crossmatch[r].candidates) \in Nat
        BY <3>1
      <3>3. \A n \in Nat : (n = 0 \/ n = 1 \/ n > 1) /\ ~(n = 0 /\ n = 1)
        OBVIOUS
      <3> QED
        BY <3>2, <3>3, Zenon DEF IsNew, IsExisting, IsCollided
    <2>4. CASE recordPgc[r] = None /\ IsNew(crossmatch[r])
      <3>1. r \in NewRows(q) /\ NewRows(q) \subseteq Records
        BY <2>1, <2>4 DEF NewRows, Unassigned, AssignRequest
      <3>2. PICK m \in Numberings(NewRows(q)) : writes'[q][r] = m[r]
        BY <1>1, <2>1, <3>1 DEF UpdateRecords, IInv, TypeOK
      <3>3. m[r] \in Nat
        BY <3>1, NumberingTypes DEF IInv
      <3> QED
        BY <2>1, <3>2, <3>3, NoneIsNoValue
    <2>5. CASE recordPgc[r] = None /\ IsExisting(crossmatch[r])
      <3>1. r \in ExistingRows(q) /\ r \notin NewRows(q)
        BY <2>1, <2>3, <2>5 DEF ExistingRows, NewRows, Unassigned
      <3>2. writes'[q][r] = Candidate(crossmatch[r])
        BY <1>1, <2>1, <3>1 DEF UpdateRecords, IInv, TypeOK
      <3>3. Candidate(crossmatch[r]) \in Nat
        BY <2>2, <2>5 DEF Candidate, CrossmatchRow, IsExisting
      <3> QED
        BY <2>1, <3>2, <3>3, NoneIsNoValue
    <2>6. CASE recordPgc[r] # None \/ IsCollided(crossmatch[r])
      <3>1. recordPgc'[r] = recordPgc[r] /\ crossmatch'[r] = crossmatch[r]
        BY <2>1
      <3> QED
        BY <2>6, <3>1 DEF IsCollided
    <2> QED
      BY <2>3, <2>4, <2>5, <2>6
  <1>2. CASE stage[q] = "touch" /\ request'[q] = request[q] /\ writes'[q] = writes[q]
    <2>1. AssignRequest(request[q])
      BY <1>2 DEF IInv, StageFitsRequest, MergeRequest
    <2>2. r \in Records /\ r \in request[q].ids
      BY <1>2, <2>1 DEF AssignRequest
    <2>3. crossmatch'[r] = crossmatch[r]
      BY <1>2, <2>1, <2>2, LockedRowsStay DEF AssignRequest
    <2> QED
      BY <1>2, <2>2, <2>3, NumbersStay DEF AssignmentIsComplete, Written
  <1>3. UpdateRecords(q) \/ (stage[q] = "touch" /\ request'[q] = request[q] /\ writes'[q] = writes[q])
    <2>1. CASE UNCHANGED vars
      BY <2>1 DEF vars
    <2>2. ASSUME NEW o \in Requests, Receives(o)
          PROVE  stage[q] = "touch" /\ request'[q] = request[q] /\ writes'[q] = writes[q]
      BY <2>2 DEF Receives, ReceiveCrossmatch, ReceiveAssign, ReceiveMerge, Receive, IInv, TypeOK
    <2>3. ASSUME NEW o \in Requests, Serve(o) \/ ConnectionLost(o), o # q
          PROVE  stage[q] = "touch" /\ request'[q] = request[q] /\ writes'[q] = writes[q]
      BY <2>3 DEF Serve, UpsertRow, CommitCrossmatch, RejectAssign, AcceptAssign, LockForUpdate,
                  UpdateRecords, FailUpdate, ScanMerge, MoveRow, TouchMerged, TouchRow, Commit,
                  DeadlockAbort, ConnectionLost, StartTouch, End, IInv, TypeOK
    <2>4. CASE TouchRow(q)
      BY <2>4 DEF TouchRow
    <2>5. CASE TouchMerged(q)
      BY <2>5 DEF TouchMerged, IInv, StageFitsRequest, MergeRequest
    <2>6. CASE UpsertRow(q) \/ LockForUpdate(q) \/ MoveRow(q) \/ AcceptAssign(q) \/ ScanMerge(q)
      BY <2>6 DEF UpsertRow, LockForUpdate, MoveRow, AcceptAssign, ScanMerge, IInv, TypeOK
    <2>7. CASE CommitCrossmatch(q) \/ RejectAssign(q) \/ FailUpdate(q) \/ Commit(q)
                 \/ DeadlockAbort(q) \/ ConnectionLost(q)
      BY <2>7 DEF CommitCrossmatch, RejectAssign, FailUpdate, Commit, DeadlockAbort,
                  ConnectionLost, End, IInv, TypeOK
    <2> QED
      BY <2>1, <2>2, <2>3, <2>4, <2>5, <2>6, <2>7 DEF Next, Serve
  <1> QED
    BY <1>1, <1>2, <1>3

\* A successful assignment has given a number to all its records, but for those whose
\* crossmatch result turned collided after the precondition was checked.
THEOREM AllAreAssigned == Spec => AllAssignedUnlessCollided
  <1>1. Init => AssignmentIsComplete
    BY DEF Init, AssignmentIsComplete
  <1>2. IInv /\ AssignmentIsComplete /\ [Next]_vars =>
           [\A q \in Requests : Committing(q) /\ request[q].op = "assign" =>
               \A r \in request[q].ids :
                  recordPgc'[r] # None \/ IsCollided(crossmatch[r])]_vars
    <2> SUFFICES ASSUME IInv, AssignmentIsComplete, [Next]_vars, NEW q \in Requests,
                        stage[q] = "touch", stage'[q] = "done", request[q].op = "assign",
                        NEW r \in request[q].ids
                 PROVE  recordPgc'[r] # None \/ IsCollided(crossmatch[r])
      BY DEF Committing
    <2>1. CASE r \in Written(q)
      <3>1. Commit(q)
        BY EndsByCommit
      <3> QED
        BY <2>1, <3>1 DEF Commit, Written
    <2>2. CASE recordPgc[r] # None /\ r \notin Written(q)
      <3>1. r \in Records
        BY DEF IInv, StageFitsRequest, AssignRequest, MergeRequest
      <3> QED
        BY <2>2, <3>1, NumbersStay
    <2> QED
      BY <2>1, <2>2 DEF AssignmentIsComplete
  <1> QED
    BY <1>1, <1>2, CompleteStep, InductiveInvariant, PTL DEF Spec, AllAssignedUnlessCollided

-------------------------------------------------------------------------------
\* The concurrent handlers implement the atomic ledger.
THEOREM ImplementsLedger == Spec => LedgerSpec
  <1>1. Init => Ledger!LedgerInit
    BY DEF Init, Ledger!LedgerInit, Registered
  <1>2. IInv /\ IInv' /\ [Next]_vars => [Ledger!LedgerNext]_(Ledger!ledgerVars)
    <2> SUFFICES ASSUME IInv, IInv', [Next]_vars,
                        ~UNCHANGED <<recordPgc, modTime>>
                 PROVE  Ledger!LedgerNext
      BY DEF Ledger!ledgerVars, Registered
    <2>1. PICK q \in Requests : Commit(q)
      BY OnlyCommitWrites
    <2>2. recordPgc' \in [Records -> Nat \cup {None}]
      BY DEF IInv, TypeOK
    <2>3. /\ stage[q] = "touch" /\ Registered' = Registered \cup minted[q]
          /\ recordPgc' = [r \in Records |->
                              IF r \in Written(q) THEN writes[q][r] ELSE recordPgc[r]]
      BY <2>1 DEF Commit, Registered
    <2>4. \A r \in Ledger!Changed : r \in Records /\ recordPgc'[r] # recordPgc[r]
      BY DEF Ledger!Changed
    <2>5. CASE request[q].op = "assign"
      <3>1. \A r \in Ledger!Changed : recordPgc[r] = None
        BY <2>1, <2>4, <2>5, CommitOfRecord
      <3>2. Registered' = Registered \cup {recordPgc'[r] : r \in Ledger!Changed}
        <4>1. \A r \in Ledger!Changed : recordPgc'[r] \in Registered \cup minted[q]
          BY <2>1, <2>4, <2>5, CommitOfRecord
        <4>2. \A p \in minted[q] : \E r \in Ledger!Changed : recordPgc'[r] = p
          <5> SUFFICES ASSUME NEW p \in minted[q]
                       PROVE  \E r \in Ledger!Changed : recordPgc'[r] = p
            OBVIOUS
          <5>1. PICK r \in Records : writes[q][r] = p
            BY DEF IInv, MintedIsDrawn
          <5>2. p \in Nat /\ p \notin Registered
            BY DEF IInv, TypeOK, MintedIsExclusive
          <5>3. r \in Written(q) /\ recordPgc'[r] = p
            BY <2>3, <5>1, <5>2, NoneIsNoValue DEF Written
          <5>4. recordPgc[r] # p
            BY <5>2, NoneIsNoValue DEF IInv, AssignedIsRegistered
          <5> QED
            BY <5>3, <5>4 DEF Ledger!Changed
        <4> QED
          BY <2>3, <4>1, <4>2
      <3>3. \A r, s \in Ledger!Changed :
               r # s /\ recordPgc'[r] = recordPgc'[s] => recordPgc'[r] \in Registered
        <4> SUFFICES ASSUME NEW r \in Ledger!Changed, NEW s \in Ledger!Changed,
                            recordPgc'[r] = recordPgc'[s], recordPgc'[r] \notin Registered
                     PROVE  r = s
          OBVIOUS
        <4>1. /\ r \in Records /\ s \in Records /\ writes[q][r] = writes[q][s]
              /\ writes[q][r] \in minted[q]
          BY <2>1, <2>4, <2>5, CommitOfRecord
        <4> QED
          BY <4>1 DEF IInv, MintedIsDrawn
      <3> QED
        BY <2>2, <3>1, <3>2, <3>3 DEF Ledger!LedgerNext, Ledger!AssignBatch
    <2>6. CASE request[q].op = "merge"
      <3>1. minted[q] = {}
        BY <2>6 DEF IInv, NothingWritten
      <3>2. request[q].target \in Registered
        BY <2>3, <2>6 DEF IInv, StageFitsRequest
      <3>3. \A r \in Ledger!Changed : recordPgc[r] # None /\ recordPgc'[r] = request[q].target
        BY <2>1, <2>4, <2>6, CommitOfRecord
      <3> QED
        BY <2>2, <2>3, <3>1, <3>2, <3>3 DEF Ledger!LedgerNext, Ledger!MoveBatch
    <2> QED
      BY <2>3, <2>5, <2>6 DEF IInv, StageFitsRequest, AssignRequest, MergeRequest
  <1> QED
    BY <1>1, <1>2, InductiveInvariant, PTL DEF Spec, LedgerSpec, Ledger!LedgerSpec
===============================================================================
