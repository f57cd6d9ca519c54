-------------------------- MODULE Layer2ImportProofs --------------------------
(***************************************************************************)
(* Proofs about Layer2Import for every number of jobs, runs, edits and     *)
(* catalogs: what the last update of a catalog accounts for.               *)
(***************************************************************************)
EXTENDS Layer2Import, FiniteSetTheorems, SequenceTheorems, WellFoundedInduction, TLAPS

\* A non-empty set of numbers has a least one,
LEMMA LeastNumber ==
    ASSUME NEW S \in SUBSET Nat, S # {}
    PROVE  \E m \in S : \A n \in S : m <= n
  <1>1. PICK m \in S : \A n \in S : <<n, m>> \notin OpToRel(<, Nat)
    BY WFMin, NatLessThanWellFounded, Zenon
  <1>2. \A n \in S : ~(n < m)
    BY <1>1, Zenon DEF OpToRel
  <1> QED
    BY <1>2

\* and a greatest one if it is finite: a smallest counterexample has none to remove.
LEMMA GreatestNumber ==
    ASSUME NEW S \in SUBSET Nat, IsFiniteSet(S), S # {}
    PROVE  \E m \in S : \A n \in S : n <= m
  <1> DEFINE Greatest(T) == \E m \in T : \A n \in T : n <= m
             Bad == {T \in SUBSET S : T # {} /\ ~Greatest(T)}
             Sizes == {Cardinality(T) : T \in Bad}
  <1> SUFFICES ASSUME Bad # {} PROVE FALSE
    OBVIOUS
  <1>1. \A T \in SUBSET S : IsFiniteSet(T) /\ Cardinality(T) \in Nat
    BY FS_Subset, FS_CardinalityType
  <1>2. Sizes \in SUBSET Nat /\ Sizes # {}
    BY <1>1
  <1>3. PICK T \in Bad : \A U \in Bad : Cardinality(T) <= Cardinality(U)
    <2>1. PICK m \in Sizes : \A n \in Sizes : m <= n
      BY <1>2, LeastNumber
    <2> QED
      BY <2>1
  <1>4. PICK x \in T : TRUE
    BY <1>3
  <1> DEFINE U == T \ {x}
  <1>5. U \in SUBSET S /\ Cardinality(U) = Cardinality(T) - 1
    BY <1>1, <1>3, <1>4, FS_RemoveElement
  <1>6. U \notin Bad
    <2>1. Cardinality(T) \in Nat
      BY <1>1, <1>3
    <2>2. ~(Cardinality(T) <= Cardinality(U))
      BY <1>5, <2>1
    <2> QED
      BY <1>3, <2>2
  <1>7. CASE U = {}
    BY <1>3, <1>4, <1>7
  <1>8. CASE U # {}
    <2>1. PICK m \in U : \A n \in U : n <= m
      BY <1>5, <1>6, <1>8
    <2>2. m \in Nat /\ x \in Nat
      BY <1>3, <1>4, <2>1
    <2>3. CASE x <= m
      BY <1>3, <1>4, <2>1, <2>3
    <2>4. CASE m < x
      BY <1>3, <1>4, <2>1, <2>2, <2>4
    <2> QED
      BY <2>2, <2>3, <2>4
  <1> QED
    BY <1>7, <1>8

\* A batch takes the first of the new objects: it is not empty, ends with its offset and
\* leaves out no new object before it.
LEMMA BatchTakesFirst ==
    ASSUME NEW j, NEW S \in SUBSET Pgcs, S # {}
    PROVE  /\ FirstObjects(S) \subseteq S
           /\ OffsetAfter(j, FirstObjects(S)) \in FirstObjects(S)
           /\ \A p \in FirstObjects(S) : p <= OffsetAfter(j, FirstObjects(S))
           /\ \A p \in S : p <= OffsetAfter(j, FirstObjects(S)) => p \in FirstObjects(S)
  <1> DEFINE B == FirstObjects(S)
             Upto(p) == {q \in S : q <= p}
  <1>1. S \in SUBSET Nat /\ B \in SUBSET S /\ IsFiniteSet(S) /\ IsFiniteSet(B)
    BY PgcsPositive, FS_Subset DEF FirstObjects
  <1>2. \A p \in S : IsFiniteSet(Upto(p)) /\ Cardinality(Upto(p)) \in Nat
    BY <1>1, FS_Subset, FS_CardinalityType
  <1>3. B # {}
    <2>1. PICK m \in S : \A n \in S : m <= n
      BY <1>1, LeastNumber
    <2>2. Upto(m) = {m}
      <3>1. \A n \in S : n \in Nat
        BY <1>1
      <3>2. \A n \in S : n <= m => n = m
        BY <2>1, <3>1
      <3>3. m <= m
        BY <2>1
      <3> QED
        BY <2>1, <3>2, <3>3
    <2>3. Cardinality(Upto(m)) = 1
      BY <2>2, FS_Singleton
    <2>4. Cardinality(Upto(m)) <= BatchSize
      BY <2>3, BatchPositive
    <2> QED
      BY <2>1, <2>4 DEF FirstObjects
  <1>4. PICK m \in B : \A n \in B : n <= m
    BY <1>1, <1>3, GreatestNumber
  <1>5. OffsetAfter(j, B) \in B /\ \A n \in B : n <= OffsetAfter(j, B)
    BY <1>4 DEF OffsetAfter
  <1> DEFINE k == OffsetAfter(j, B)
  <1> HIDE DEF k
  <1>6. ASSUME NEW p \in S, p <= k PROVE p \in B
    <2>0. k \in S
      BY <1>1, <1>5 DEF k
    <2>1. Upto(p) \subseteq Upto(k)
      <3>1. \A q \in S : q \in Nat
        BY <1>1
      <3>2. \A q \in S : q <= p => q <= k
        BY <1>6, <2>0, <3>1
      <3> QED
        BY <3>2
    <2>2. Cardinality(Upto(p)) <= Cardinality(Upto(k))
      BY <1>2, <2>0, <2>1, FS_Subset
    <2>3. Cardinality(Upto(k)) <= BatchSize
      BY <1>5 DEF FirstObjects, k
    <2>4. Cardinality(Upto(p)) \in Nat /\ Cardinality(Upto(k)) \in Nat
      BY <1>2, <1>6, <2>0
    <2>5. Cardinality(Upto(p)) <= BatchSize
      BY <2>2, <2>3, <2>4, BatchPositive
    <2> QED
      BY <1>6, <2>5 DEF FirstObjects
  <1> QED
    BY <1>1, <1>5, <1>6 DEF k

-------------------------------------------------------------------------------
\* An aggregate is taken over rows of the object, so an object without any has none.
LEMMA UsedRows ==
    \A c, p : /\ Used(c, p) \subseteq RowsOf(c, p)
              /\ RowsOf(c, p) = {} => Aggregate(c, p) = {}
  BY DEF Used, Primary, Aggregate

\* The aggregate of an object depends on its rows and the types of their tables only.
LEMMA AggregateFrame ==
    ASSUME NEW c \in Catalogs, NEW p \in Pgcs,
           \A r \in Records : /\ recordPgc'[r] = p <=> recordPgc[r] = p
                              /\ recordPgc[r] = p =>
                                    /\ layer1'[c][r] = layer1[c][r]
                                    /\ datatype'[TableOf[r]] = datatype[TableOf[r]]
    PROVE  RowsOf(c, p)' = RowsOf(c, p) /\ Aggregate(c, p)' = Aggregate(c, p)
  <1>1. RowsOf(c, p)' = RowsOf(c, p) /\ RowsOf(c, p) \subseteq Records
    BY DEF RowsOf
  <1>2. \A r \in RowsOf(c, p) : /\ layer1'[c][r] = layer1[c][r]
                                /\ datatype'[TableOf[r]] = datatype[TableOf[r]]
    BY DEF RowsOf
  <1>3. Primary(RowsOf(c, p))' = Primary(RowsOf(c, p))
    BY <1>1, <1>2 DEF Primary
  <1>4. Used(c, p)' = Used(c, p)
    BY <1>1, <1>3 DEF Used
  <1>5. \A r \in Used(c, p) : layer1'[c][r] = layer1[c][r]
    BY <1>2, UsedRows
  <1> QED
    BY <1>1, <1>4, <1>5 DEF Aggregate

\* A commit notes the objects N: no other changes, and each is missed or late where it
\* will not be read again.
Notes(N) ==
    /\ \A p \in Pgcs \ N : /\ modTime'[p] = modTime[p]
                           /\ \A c \in Catalogs : /\ RowsOf(c, p)' = RowsOf(c, p)
                                                  /\ Aggregate(c, p)' = Aggregate(c, p)
    /\ missed' = [c \in Catalogs |-> missed[c] \cup {p \in N : modTime'[p] <= lastUpdate[c]}]
    /\ job' = [j \in Jobs |-> [job[j] EXCEPT !.late = @ \cup (N \cap Seen(j))]]
    /\ sweep' = [sweep EXCEPT !.late = IF sweep.stage = "idle" THEN {} ELSE @ \cup N]
    /\ UNCHANGED <<clock, layer2, lastUpdate, runs>>

LEMMA CommitNotes ==
    ASSUME TypeOK, NEW e \in Edits, NEW touched \in SUBSET Pgcs, NEW changed \in SUBSET Pgcs,
           Commit(e, touched, changed),
           \A c \in Catalogs : \A p \in Pgcs \ (touched \cup changed) : \A r \in Records :
              /\ recordPgc'[r] = p <=> recordPgc[r] = p
              /\ recordPgc[r] = p => /\ layer1'[c][r] = layer1[c][r]
                                     /\ datatype'[TableOf[r]] = datatype[TableOf[r]]
    PROVE  Notes(touched \cup changed)
  <1> DEFINE N == touched \cup changed
  <1>1. \A p \in Pgcs \ N : modTime'[p] = modTime[p]
    BY DEF Commit
  <1>2. \A p \in Pgcs \ N : \A c \in Catalogs : /\ RowsOf(c, p)' = RowsOf(c, p)
                                                /\ Aggregate(c, p)' = Aggregate(c, p)
    BY AggregateFrame
  <1>3. /\ missed' = [c \in Catalogs |-> missed[c] \cup {p \in N : modTime'[p] <= lastUpdate[c]}]
        /\ job' = [j \in Jobs |-> [job[j] EXCEPT !.late = @ \cup (N \cap Seen(j))]]
        /\ sweep' = [sweep EXCEPT !.late = IF sweep.stage = "idle" THEN {} ELSE @ \cup N]
        /\ UNCHANGED <<clock, layer2, lastUpdate, runs>>
    BY DEF Commit
  <1> QED
    BY <1>1, <1>2, <1>3 DEF Notes

\* Every commit of a curator does.
LEMMA EditNotes ==
    ASSUME TypeOK, StatesFit, NEW e \in Edits, EditStep(e)
    PROVE  \/ /\ UNCHANGED <<sources, layer2, lastUpdate, job, runs, sweep, missed>>
              /\ clock' \in {clock, clock + 1}
           \/ \E N \in SUBSET Pgcs : Notes(N)
  <1>1. CASE BeginEdit(e) \/ ScanMerge(e) \/ SaveRow(e) \/ RollbackEdit(e)
    BY <1>1 DEF BeginEdit, ScanMerge, SaveRow, RollbackEdit
  <1>2. CASE CommitAssign(e)
    <2>0. PICK S \in SUBSET Records \ {{}} : \E given \in [S -> Pgcs] :
             /\ \A r \in S : recordPgc[r] = None /\ ~Inserting(r)
             /\ recordPgc' = [r \in Records |-> IF r \in S THEN given[r] ELSE recordPgc[r]]
             /\ Commit(e, {given[r] : r \in S}, {given[r] : r \in S})
      BY <1>2 DEF CommitAssign
    <2>1. PICK given \in [S -> Pgcs] :
             /\ \A r \in S : recordPgc[r] = None
             /\ recordPgc' = [r \in Records |-> IF r \in S THEN given[r] ELSE recordPgc[r]]
             /\ Commit(e, {given[r] : r \in S}, {given[r] : r \in S})
      BY <2>0
    <2> DEFINE N == {given[r] : r \in S}
    <2>2. N \in SUBSET Pgcs /\ UNCHANGED <<layer1, datatype>>
      BY <1>2 DEF CommitAssign
    <2>3. \A p \in Pgcs \ N : \A r \in Records : recordPgc'[r] = p <=> recordPgc[r] = p
      BY <2>1, NoneIsApart
    <2>4. Notes(N \cup N)
      BY <2>1, <2>2, <2>3, CommitNotes
    <2> QED
      BY <2>2, <2>4
  <1>3. CASE CommitMerge(e)
    <2> DEFINE N == {edit[e].target} \cup edit[e].from
               moved == {r \in edit[e].rows : recordPgc[r] \in edit[e].from}
    <2>1. N \in SUBSET Pgcs
      BY <1>3 DEF CommitMerge, StatesFit, EditStates
    <2>2. /\ recordPgc' = [r \in Records |-> IF r \in moved THEN edit[e].target ELSE recordPgc[r]]
          /\ Commit(e, N, {}) /\ UNCHANGED <<layer1, datatype>>
      BY <1>3 DEF CommitMerge
    <2>3. \A p \in Pgcs \ N : \A r \in Records : recordPgc'[r] = p <=> recordPgc[r] = p
      BY <2>2
    <2>4. Notes(N \cup {})
      BY <2>1, <2>2, <2>3, CommitNotes
    <2> QED
      BY <2>1, <2>4
  <1>4. CASE CommitSave(e)
    <2> DEFINE changed == {recordPgc[edit[e].record]} \ {None}
    <2>1. /\ edit[e].touches \in SUBSET Pgcs /\ edit[e].record \in Records
          /\ edit[e].catalog \in Catalogs
      BY <1>4 DEF CommitSave, StatesFit, EditStates
    <2>2. changed \in SUBSET Pgcs
      BY <2>1 DEF TypeOK
    <2>3. /\ layer1' = [layer1 EXCEPT ![edit[e].catalog][edit[e].record] = edit[e].value]
          /\ Commit(e, edit[e].touches, changed) /\ UNCHANGED <<recordPgc, datatype>>
      BY <1>4 DEF CommitSave
    <2>4. ASSUME NEW c \in Catalogs, NEW p \in Pgcs \ (edit[e].touches \cup changed),
                 NEW r \in Records, recordPgc[r] = p
          PROVE  layer1'[c][r] = layer1[c][r]
      <3>1. r # edit[e].record
        BY <2>4, NoneIsApart
      <3> QED
        BY <2>1, <2>3, <3>1 DEF TypeOK
    <2>5. Notes(edit[e].touches \cup changed)
      BY <2>1, <2>2, <2>3, <2>4, CommitNotes
    <2> QED
      BY <2>1, <2>2, <2>5
  <1>5. CASE CommitDatatype(e)
    <2>1. PICK t \in Tables, d \in DataTypes :
             /\ datatype' = [datatype EXCEPT ![t] = d]
             /\ Commit(e, {}, {recordPgc[r] : r \in {s \in Records : TableOf[s] = t}} \ {None})
      BY <1>5 DEF CommitDatatype
    <2> DEFINE changed == {recordPgc[r] : r \in {s \in Records : TableOf[s] = t}} \ {None}
    <2>2. changed \in SUBSET Pgcs /\ UNCHANGED <<recordPgc, layer1>>
      BY <1>5 DEF CommitDatatype, TypeOK
    <2>3. ASSUME NEW p \in Pgcs \ ({} \cup changed), NEW r \in Records, recordPgc[r] = p
          PROVE  datatype'[TableOf[r]] = datatype[TableOf[r]]
      <3>1. TableOf[r] # t
        BY <2>3, NoneIsApart
      <3> QED
        BY <2>1, <3>1, EveryRecordHasTable DEF TypeOK
    <2>4. Notes({} \cup changed)
      BY <2>1, <2>2, <2>3, CommitNotes
    <2> QED
      BY <2>2, <2>4
  <1> QED
    BY <1>1, <1>2, <1>3, <1>4, <1>5 DEF EditStep

-------------------------------------------------------------------------------
\* The types of what jobs and tasks carry follow from their states.
TablesFit ==
    /\ recordPgc \in [Records -> Pgcs \cup {None}]
    /\ layer1 \in [Catalogs -> [Records -> Values \cup {None}]]
    /\ datatype \in [Tables -> DataTypes]
    /\ modTime \in [Pgcs -> Nat]
    /\ clock \in Nat /\ runs \in 0 .. MaxRuns
    /\ layer2 \in [Catalogs -> [Pgcs -> Aggregates]]
    /\ lastUpdate \in [Catalogs -> Nat]
    /\ missed \in [Catalogs -> SUBSET Pgcs]

LEMMA TypesOfStates == TypeOK /\ StatesFit <=> TablesFit /\ StatesFit
  BY DEF TypeOK, TablesFit, StatesFit, JobStates

\* A job at work has a catalog.
LEMMA CatalogType ==
    ASSUME StatesFit, NEW j \in Jobs, job[j].stage # "idle"
    PROVE  Catalog(j) \in Catalogs
  <1>1. job[j].plan \in Seq(Catalogs) /\ job[j].plan # <<>>
    BY DEF StatesFit, JobStates
  <1> QED
    BY <1>1 DEF Catalog

LEMMA AggregateType ==
    ASSUME TypeOK, NEW c \in Catalogs, NEW p \in Pgcs
    PROVE  Aggregate(c, p) \in Aggregates
  <1>1. \A r \in Used(c, p) : r \in Records /\ layer1[c][r] \in Values
    BY UsedRows DEF RowsOf, TypeOK
  <1> QED
    BY <1>1 DEF Aggregate, Aggregates

LEMMA SeenType == ASSUME NEW j \in Jobs PROVE Seen(j) \in SUBSET Pgcs
  BY DEF Seen

\* What a commit does to the states of the others.
LEMMA CommitTypes ==
    ASSUME TablesFit, StatesFit, NEW e \in Edits, edit[e].started \in Nat,
           NEW touched \in SUBSET Pgcs, NEW changed \in SUBSET Pgcs, Commit(e, touched, changed)
    PROVE  /\ modTime' \in [Pgcs -> Nat] /\ clock' \in Nat /\ runs' \in 0 .. MaxRuns
           /\ layer2' \in [Catalogs -> [Pgcs -> Aggregates]] /\ lastUpdate' \in [Catalogs -> Nat]
           /\ missed' \in [Catalogs -> SUBSET Pgcs]
           /\ StatesFit'
  <1> DEFINE noted == touched \cup changed
  <1>1. /\ modTime' \in [Pgcs -> Nat] /\ clock' \in Nat /\ runs' \in 0 .. MaxRuns
        /\ layer2' \in [Catalogs -> [Pgcs -> Aggregates]] /\ lastUpdate' \in [Catalogs -> Nat]
    BY DEF Commit, TablesFit
  <1>2. missed' \in [Catalogs -> SUBSET Pgcs]
    BY DEF Commit, TablesFit
  <1>3. edit' \in [Edits -> EditStates]
    BY DEF Commit, StatesFit, EditStates
  <1>4. job' = [j \in Jobs |-> [job[j] EXCEPT !.late = @ \cup (noted \cap Seen(j))]]
    BY DEF Commit
  <1>5. \A j \in Jobs : job'[j] \in JobStates /\ (job'[j].stage # "idle" => job'[j].plan # <<>>)
    <2> SUFFICES ASSUME NEW j \in Jobs
                 PROVE  job'[j] \in JobStates /\ (job'[j].stage # "idle" => job'[j].plan # <<>>)
      OBVIOUS
    <2> DEFINE late == job[j].late \cup (noted \cap Seen(j))
    <2>1. job[j] \in JobStates /\ (job[j].stage # "idle" => job[j].plan # <<>>)
      BY DEF StatesFit
    <2>2. job'[j] = [job[j] EXCEPT !.late = late]
      BY <1>4
    <2>3. late \in SUBSET Pgcs
      BY <2>1 DEF JobStates
    <2> HIDE DEF late
    <2>4. [job[j] EXCEPT !.late = late] \in JobStates
      BY <2>1, <2>3 DEF JobStates
    <2>5. job'[j].stage = job[j].stage /\ job'[j].plan = job[j].plan
      BY <2>1, <2>2 DEF JobStates
    <2> QED
      BY <2>1, <2>2, <2>4, <2>5
  <1>6. sweep' \in SweepStates /\ (sweep'.stage # "idle" => sweep'.todo # <<>> /\ SweepOrder # <<>>)
    BY DEF Commit, StatesFit, SweepStates
  <1> QED
    BY <1>1, <1>2, <1>3, <1>4, <1>5, <1>6 DEF StatesFit

LEMMA EditTypes ==
    ASSUME TablesFit, StatesFit, NEW e \in Edits, EditStep(e)
    PROVE  TablesFit' /\ StatesFit'
  <1>1. CASE BeginEdit(e)
    <2>1. TablesFit'
      BY <1>1 DEF BeginEdit, TablesFit, sources
    <2>2. edit' \in [Edits -> EditStates] /\ UNCHANGED <<job, sweep>>
      BY <1>1 DEF BeginEdit, TablesFit, StatesFit, EditStates
    <2> QED
      BY <2>1, <2>2 DEF StatesFit
  <1>2. CASE ScanMerge(e)
    <2>1. TablesFit'
      BY <1>2 DEF ScanMerge, TablesFit, sources
    <2>2. edit' \in [Edits -> EditStates] /\ UNCHANGED <<job, sweep>>
      BY <1>2 DEF ScanMerge, StatesFit, EditStates
    <2> QED
      BY <2>1, <2>2 DEF StatesFit
  <1>3. CASE SaveRow(e)
    <2>1. TablesFit'
      BY <1>3 DEF SaveRow, TablesFit, sources
    <2>2. PICK c \in Catalogs, r \in Records, v \in Values :
             edit' = [edit EXCEPT ![e] =
                [stage |-> "saved", started |-> edit[e].started,
                 catalog |-> c, record |-> r, value |-> v,
                 touches |-> {recordPgc[r]} \ {None}]]
      BY <1>3 DEF SaveRow
    <2>3. {recordPgc[r]} \ {None} \in SUBSET Pgcs
      BY DEF TablesFit
    <2>4. edit[e].started \in Nat
      BY <1>3 DEF SaveRow, StatesFit, EditStates
    <2>5. [stage |-> "saved", started |-> edit[e].started, catalog |-> c, record |-> r,
           value |-> v, touches |-> {recordPgc[r]} \ {None}] \in EditStates
      BY <2>3, <2>4 DEF EditStates
    <2>6. edit' \in [Edits -> EditStates] /\ UNCHANGED <<job, sweep>>
      BY <1>3, <2>2, <2>5 DEF SaveRow, StatesFit
    <2> QED
      BY <2>1, <2>6 DEF StatesFit
  <1>4. CASE RollbackEdit(e)
    <2>1. TablesFit'
      BY <1>4 DEF RollbackEdit, TablesFit, sources
    <2>2. edit' \in [Edits -> EditStates] /\ UNCHANGED <<job, sweep>>
      BY <1>4 DEF RollbackEdit, StatesFit, EditStates
    <2> QED
      BY <2>1, <2>2 DEF StatesFit
  <1>5. CASE CommitAssign(e)
    <2>1. PICK S \in SUBSET Records \ {{}} : \E given \in [S -> Pgcs] :
             /\ \A r \in S : recordPgc[r] = None /\ ~Inserting(r)
             /\ recordPgc' = [r \in Records |-> IF r \in S THEN given[r] ELSE recordPgc[r]]
             /\ Commit(e, {given[r] : r \in S}, {given[r] : r \in S})
      BY <1>5 DEF CommitAssign
    <2>2. PICK given \in [S -> Pgcs] :
             /\ recordPgc' = [r \in Records |-> IF r \in S THEN given[r] ELSE recordPgc[r]]
             /\ Commit(e, {given[r] : r \in S}, {given[r] : r \in S})
      BY <2>1
    <2>3. {given[r] : r \in S} \in SUBSET Pgcs /\ edit[e].started \in Nat
      BY <1>5 DEF CommitAssign, StatesFit, EditStates
    <2>4. recordPgc' \in [Records -> Pgcs \cup {None}] /\ UNCHANGED <<layer1, datatype>>
      BY <1>5, <2>2 DEF CommitAssign, TablesFit
    <2> QED
      BY <2>2, <2>3, <2>4, CommitTypes DEF TablesFit
  <1>6. CASE CommitMerge(e)
    <2>1. /\ edit[e].started \in Nat /\ edit[e].target \in Pgcs /\ edit[e].from \in SUBSET Pgcs
          /\ {edit[e].target} \cup edit[e].from \in SUBSET Pgcs /\ {} \in SUBSET Pgcs
      BY <1>6 DEF CommitMerge, StatesFit, EditStates
    <2>2. Commit(e, {edit[e].target} \cup edit[e].from, {})
      BY <1>6 DEF CommitMerge
    <2>3. recordPgc' \in [Records -> Pgcs \cup {None}] /\ UNCHANGED <<layer1, datatype>>
      BY <1>6, <2>1 DEF CommitMerge, TablesFit
    <2> QED
      BY <2>1, <2>2, <2>3, CommitTypes DEF TablesFit
  <1>7. CASE CommitSave(e)
    <2>1. /\ edit[e].started \in Nat /\ edit[e].catalog \in Catalogs
          /\ edit[e].record \in Records /\ edit[e].value \in Values
          /\ edit[e].touches \in SUBSET Pgcs
      BY <1>7 DEF CommitSave, StatesFit, EditStates
    <2>2. {recordPgc[edit[e].record]} \ {None} \in SUBSET Pgcs
      BY <2>1 DEF TablesFit
    <2>3. Commit(e, edit[e].touches, {recordPgc[edit[e].record]} \ {None})
      BY <1>7 DEF CommitSave
    <2>4. layer1' \in [Catalogs -> [Records -> Values \cup {None}]] /\ UNCHANGED <<recordPgc, datatype>>
      BY <1>7, <2>1 DEF CommitSave, TablesFit
    <2>5. /\ modTime' \in [Pgcs -> Nat] /\ clock' \in Nat /\ runs' \in 0 .. MaxRuns
          /\ layer2' \in [Catalogs -> [Pgcs -> Aggregates]] /\ lastUpdate' \in [Catalogs -> Nat]
          /\ missed' \in [Catalogs -> SUBSET Pgcs]
          /\ StatesFit'
      BY <2>1, <2>2, <2>3, CommitTypes
    <2> QED
      BY <2>4, <2>5 DEF TablesFit
  <1>8. CASE CommitDatatype(e)
    <2>1. PICK t \in Tables, d \in DataTypes :
             /\ datatype' = [datatype EXCEPT ![t] = d]
             /\ Commit(e, {}, {recordPgc[r] : r \in {s \in Records : TableOf[s] = t}} \ {None})
      BY <1>8 DEF CommitDatatype
    <2>2. /\ {recordPgc[r] : r \in {s \in Records : TableOf[s] = t}} \ {None} \in SUBSET Pgcs
          /\ {} \in SUBSET Pgcs
      BY DEF TablesFit
    <2>4. edit[e].started \in Nat
      BY <1>8 DEF CommitDatatype, StatesFit, EditStates
    <2>3. datatype' \in [Tables -> DataTypes] /\ UNCHANGED <<recordPgc, layer1>>
      BY <1>8, <2>1 DEF CommitDatatype, TablesFit
    <2> QED
      BY <2>1, <2>2, <2>3, <2>4, CommitTypes DEF TablesFit
  <1> QED
    BY <1>1, <1>2, <1>3, <1>4, <1>5, <1>6, <1>7, <1>8 DEF EditStep

\* What tasks begin and end with.
LEMMA IdleTypes ==
    /\ IdleJob \in JobStates /\ IdleSweep \in SweepStates /\ NoBatch \in Batches
    /\ IdleJob.stage = "idle" /\ IdleSweep.stage = "idle"
  <1>1. NoBatch \in Batches
    <2>1. NoBatch \in [{} -> Aggregates]
      BY DEF NoBatch
    <2> QED
      BY <2>1 DEF Batches
  <1>2. <<>> \in Seq(Catalogs)
    OBVIOUS
  <1>3. IdleJob \in JobStates
    BY <1>1, <1>2 DEF IdleJob, JobStates
  <1>4. IdleSweep \in SweepStates
    BY <1>2 DEF IdleSweep, SweepStates
  <1> QED
    BY <1>1, <1>3, <1>4 DEF IdleJob, IdleSweep

\* A task goes from a catalog of its list to the next.
LEMMA NextCatalog ==
    ASSUME NEW l \in Seq(Catalogs), l # <<>>, Len(l) # 1
    PROVE  Tail(l) \in Seq(Catalogs) /\ Tail(l) # <<>>
  <1>1. Len(l) \in Nat /\ Len(l) # 0
    BY LenProperties, EmptySeq
  <1>2. Tail(l) \in Seq(Catalogs) /\ Len(Tail(l)) = Len(l) - 1
    BY HeadTailProperties
  <1>3. Len(Tail(l)) # 0
    BY <1>1, <1>2
  <1> QED
    BY <1>2, <1>3, EmptySeq

LEMMA RunTypes ==
    ASSUME TablesFit, StatesFit, NEW j \in Jobs, StartTask(j) \/ RunStep(j) \/ Crash(j)
    PROVE  TablesFit' /\ StatesFit'
  <1> DEFINE JobFits(x) == x \in JobStates /\ (x.stage # "idle" => x.plan # <<>>)
  <1>0. ASSUME NEW x, JobFits(x), job' = [job EXCEPT ![j] = x], UNCHANGED <<edit, sweep>>
        PROVE  StatesFit'
    BY <1>0 DEF StatesFit
  <1>a. JobFits(job[j]) /\ TypeOK
    BY TypesOfStates DEF StatesFit
  <1>1. CASE StartTask(j)
    <2>1. PICK plan \in Plans, since \in Since, cleanup \in Cleanup :
             job' = [job EXCEPT ![j] = [IdleJob EXCEPT
                       !.stage = "next", !.plan = plan, !.since = since, !.cleanup = cleanup]]
      BY <1>1 DEF StartTask
    <2>2. plan \in Seq(Catalogs) /\ plan # <<>> /\ since \in Nat \cup {None} /\ cleanup \in BOOLEAN
      BY PlansListCatalogs, SinceAreTimes, CleanupIsFlag
    <2>3. JobFits([IdleJob EXCEPT !.stage = "next", !.plan = plan, !.since = since,
                                  !.cleanup = cleanup])
      BY <2>2, IdleTypes DEF JobStates
    <2>4. TablesFit' /\ UNCHANGED <<edit, sweep>>
      <3>1. runs' \in 0 .. MaxRuns
        <4>1. runs < MaxRuns /\ runs' = runs + 1
          BY <1>1, Zenon DEF StartTask
        <4>2. runs \in 0 .. MaxRuns
          BY DEF TablesFit
        <4> QED
          BY <4>1, <4>2, RunsBounded
      <3> QED
        BY <1>1, <3>1 DEF StartTask, TablesFit, sources
    <2> QED
      BY <1>0, <2>1, <2>3, <2>4
  <1>2. CASE StartCatalog(j)
    <2> DEFINE dt == IF job[j].since # None THEN job[j].since ELSE LastUpdateTime(Catalog(j))
    <2>1. dt \in Nat
      <3>1. job[j].since \in Nat \cup {None} /\ Catalog(j) \in Catalogs
        BY <1>2, CatalogType DEF StartCatalog, StatesFit, JobStates
      <3> QED
        BY <3>1 DEF LastUpdateTime, TablesFit
    <2> HIDE DEF dt
    <2>2. job' = [job EXCEPT ![j] = [job[j] EXCEPT !.stage = "read", !.offset = 0, !.late = {},
                                                   !.dt = dt]]
      BY <1>2 DEF StartCatalog, StatesFit, JobStates, dt
    <2>3. JobFits([job[j] EXCEPT !.stage = "read", !.offset = 0, !.late = {}, !.dt = dt])
      BY <1>2, <1>a, <2>1 DEF JobStates, StartCatalog
    <2>4. TablesFit' /\ UNCHANGED <<edit, sweep>>
      BY <1>2 DEF StartCatalog, TablesFit, sources
    <2> QED
      BY <1>0, <2>2, <2>3, <2>4
  <1>3. CASE ReadBatch(j)
    <2> DEFINE B == FirstObjects(NewObjects(j))
               batch == [p \in B |-> Aggregate(Catalog(j), p)]
               k == OffsetAfter(j, B)
    <2>1. NewObjects(j) \in SUBSET Pgcs /\ NewObjects(j) # {}
      BY <1>3 DEF ReadBatch, NewObjects
    <2>2. B \in SUBSET Pgcs /\ k \in Nat
      BY <2>1, BatchTakesFirst, PgcsPositive
    <2>3. batch \in Batches
      <3>1. \A p \in B : Aggregate(Catalog(j), p) \in Aggregates
        BY <1>3, <1>a, <2>2, CatalogType, AggregateType DEF ReadBatch
      <3> QED
        BY <2>2, <3>1 DEF Batches
    <2>4. job' = [job EXCEPT ![j] = [job[j] EXCEPT !.stage = "save", !.batch = batch,
                                        !.offset = k, !.late = job[j].late \ B]]
      BY <1>3 DEF ReadBatch, StatesFit, JobStates
    <2> HIDE DEF B, batch, k
    <2>5. JobFits([job[j] EXCEPT !.stage = "save", !.batch = batch, !.offset = k,
                                 !.late = job[j].late \ B])
      BY <1>3, <1>a, <2>2, <2>3 DEF JobStates, ReadBatch
    <2>6. TablesFit' /\ UNCHANGED <<edit, sweep>>
      BY <1>3 DEF ReadBatch, TablesFit, sources
    <2> QED
      BY <1>0, <2>4, <2>5, <2>6
  <1>4. CASE SaveBatch(j)
    <2>1. job' = [job EXCEPT ![j] = [job[j] EXCEPT !.stage = "read", !.batch = NoBatch]]
      BY <1>4 DEF SaveBatch, StatesFit, JobStates
    <2>2. JobFits([job[j] EXCEPT !.stage = "read", !.batch = NoBatch])
      BY <1>4, <1>a, IdleTypes DEF JobStates, SaveBatch
    <2>3. \A p \in DOMAIN job[j].batch : p \in Pgcs /\ job[j].batch[p] \in Aggregates
      BY <1>a DEF JobStates, Batches
    <2>4. Catalog(j) \in Catalogs
      BY <1>4, CatalogType DEF SaveBatch
    <2>5. layer2' \in [Catalogs -> [Pgcs -> Aggregates]]
      BY <1>4, <2>3, <2>4 DEF SaveBatch, TablesFit
    <2>6. missed' \in [Catalogs -> SUBSET Pgcs]
      BY <1>4, <2>3, <2>4 DEF SaveBatch, TablesFit
    <2>7. TablesFit' /\ UNCHANGED <<edit, sweep>>
      BY <1>4, <2>5, <2>6 DEF SaveBatch, TablesFit, sources
    <2> QED
      BY <1>0, <2>1, <2>2, <2>7
  <1>5. CASE ReadNothing(j)
    <2> DEFINE next == IF job[j].cleanup THEN "orphans" ELSE "finish"
    <2>1. job' = [job EXCEPT ![j] = [job[j] EXCEPT !.stage = next]]
      BY <1>5 DEF ReadNothing, StatesFit, JobStates
    <2>2. JobFits([job[j] EXCEPT !.stage = next])
      BY <1>5, <1>a DEF JobStates, ReadNothing
    <2>3. TablesFit' /\ UNCHANGED <<edit, sweep>>
      BY <1>5 DEF ReadNothing, TablesFit, sources
    <2> QED
      BY <1>0, <2>1, <2>2, <2>3
  <1>6. CASE FindOrphans(j)
    <2> DEFINE O == Orphaned(Catalog(j))
    <2>0. O \in SUBSET Pgcs
      BY DEF Orphaned
    <2>1. job' = [job EXCEPT ![j] = [job[j] EXCEPT !.stage = "remove", !.orphans = O,
                                                   !.late = job[j].late \ O]]
      BY <1>6 DEF FindOrphans, StatesFit, JobStates
    <2> HIDE DEF O
    <2>2. JobFits([job[j] EXCEPT !.stage = "remove", !.orphans = O, !.late = job[j].late \ O])
      BY <1>6, <1>a, <2>0 DEF JobStates, FindOrphans
    <2>3. TablesFit' /\ UNCHANGED <<edit, sweep>>
      BY <1>6 DEF FindOrphans, TablesFit, sources
    <2> QED
      BY <1>0, <2>1, <2>2, <2>3
  <1>7. CASE RemoveOrphans(j)
    <2>1. job' = [job EXCEPT ![j] = [job[j] EXCEPT !.stage = "finish", !.orphans = {}]]
      BY <1>7 DEF RemoveOrphans, StatesFit, JobStates
    <2>2. JobFits([job[j] EXCEPT !.stage = "finish", !.orphans = {}])
      BY <1>7, <1>a DEF JobStates, RemoveOrphans
    <2>3. Catalog(j) \in Catalogs /\ job[j].orphans \in SUBSET Pgcs
      BY <1>7, <1>a, CatalogType DEF RemoveOrphans, JobStates
    <2>4. layer2' \in [Catalogs -> [Pgcs -> Aggregates]]
      BY <1>7, <2>3 DEF RemoveOrphans, Without, TablesFit, Aggregates
    <2>5. missed' \in [Catalogs -> SUBSET Pgcs]
      BY <1>7, <2>3 DEF RemoveOrphans, TablesFit
    <2>6. TablesFit' /\ UNCHANGED <<edit, sweep>>
      BY <1>7, <2>4, <2>5 DEF RemoveOrphans, TablesFit, sources
    <2> QED
      BY <1>0, <2>1, <2>2, <2>6
  <1>8. CASE FinishCatalog(j)
    <2>1. Catalog(j) \in Catalogs /\ job[j].late \in SUBSET Pgcs
      BY <1>8, <1>a, CatalogType DEF FinishCatalog, JobStates
    <2>2. SkippedBySince(j) \in SUBSET Pgcs /\ LeftOrphaned(j) \in SUBSET Pgcs
      BY DEF SkippedBySince, LeftOrphaned, Orphaned
    <2>3. missed' \in [Catalogs -> SUBSET Pgcs]
      BY <1>8, <2>1, <2>2 DEF FinishCatalog, TablesFit
    <2>4. lastUpdate' \in [Catalogs -> Nat]
      BY <1>8, <2>1 DEF FinishCatalog, TablesFit
    <2>5. TablesFit' /\ UNCHANGED <<edit, sweep>>
      BY <1>8, <2>3, <2>4 DEF FinishCatalog, TablesFit, sources
    <2>6. CASE Len(job[j].plan) = 1
      BY <1>0, <1>8, <2>5, <2>6, IdleTypes DEF FinishCatalog
    <2>7. CASE Len(job[j].plan) # 1
      <3> DEFINE rest == Tail(job[j].plan)
                 x == [IdleJob EXCEPT !.stage = "next", !.plan = rest,
                                      !.since = job[j].since, !.cleanup = job[j].cleanup]
      <3>1. rest \in Seq(Catalogs) /\ rest # <<>>
        BY <1>8, <1>a, <2>7, NextCatalog DEF FinishCatalog, JobStates
      <3>2. job' = [job EXCEPT ![j] = x]
        BY <1>8, <2>7 DEF FinishCatalog
      <3>3. job[j].since \in Nat \cup {None} /\ job[j].cleanup \in BOOLEAN
        BY <1>a DEF JobStates
      <3> HIDE DEF rest
      <3>4. JobFits(x)
        BY <3>1, <3>3, IdleTypes DEF JobStates
      <3> QED
        BY <1>0, <2>5, <3>2, <3>4
    <2> QED
      BY <2>6, <2>7
  <1>9. CASE Crash(j)
    <2>1. TablesFit' /\ UNCHANGED <<edit, sweep>>
      BY <1>9 DEF Crash, TablesFit, sources
    <2> QED
      BY <1>0, <1>9, <2>1, IdleTypes DEF Crash
  <1> QED
    BY <1>1, <1>2, <1>3, <1>4, <1>5, <1>6, <1>7, <1>8, <1>9 DEF RunStep

LEMMA SweepTypes ==
    ASSUME TablesFit, StatesFit, StartSweep \/ SweepStep \/ CrashSweep
    PROVE  TablesFit' /\ StatesFit'
  <1> DEFINE SweepFits(x) == x \in SweepStates /\ (x.stage # "idle" => x.todo # <<>> /\ SweepOrder # <<>>)
  <1>0. ASSUME NEW x, SweepFits(x), sweep' = x, UNCHANGED <<edit, job>>
        PROVE  StatesFit'
    BY <1>0 DEF StatesFit
  <1>a. SweepFits(sweep)
    BY DEF StatesFit
  <1>1. CASE StartSweep
    <2>1. SweepFits([IdleSweep EXCEPT !.stage = "scan", !.todo = SweepOrder])
      BY <1>1, IdleTypes, SweepListsCatalogs DEF StartSweep, SweepStates
    <2>2. runs' \in 0 .. MaxRuns
      <3>1. runs \in Nat /\ runs < MaxRuns /\ runs' = runs + 1
        BY <1>1, RunsBounded DEF StartSweep, TablesFit
      <3> QED
        BY <3>1, RunsBounded
    <2>3. TablesFit' /\ UNCHANGED <<edit, job>>
      BY <1>1, <2>2 DEF StartSweep, TablesFit, sources
    <2> QED
      BY <1>0, <1>1, <2>1, <2>3 DEF StartSweep
  <1>2. CASE ScanCatalog
    <2> DEFINE c == sweep.todo[1]
               stage1 == IF Len(sweep.todo) = 1 THEN "delete" ELSE "scan"
               todo1 == IF Len(sweep.todo) = 1 THEN SweepOrder ELSE Tail(sweep.todo)
               found1 == [sweep.found EXCEPT ![c] = Orphaned(c)]
    <2>1. /\ sweep.todo \in Seq(Catalogs) /\ sweep.todo # <<>>
          /\ sweep.found \in [Catalogs -> SUBSET Pgcs] /\ SweepOrder # <<>>
      BY <1>2, <1>a DEF ScanCatalog, SweepStates
    <2>2. todo1 \in Seq(Catalogs) /\ todo1 # <<>>
      BY <2>1, NextCatalog, SweepListsCatalogs
    <2>3. found1 \in [Catalogs -> SUBSET Pgcs]
      BY <2>1 DEF Orphaned
    <2>4. sweep' = [sweep EXCEPT !.found = found1, !.stage = stage1, !.todo = todo1]
      BY <1>2, <1>a DEF ScanCatalog, SweepStates
    <2> HIDE DEF todo1, found1
    <2>5. SweepFits([sweep EXCEPT !.found = found1, !.stage = stage1, !.todo = todo1])
      BY <1>a, <2>1, <2>2, <2>3 DEF SweepStates
    <2>6. TablesFit' /\ UNCHANGED <<edit, job>>
      BY <1>2 DEF ScanCatalog, TablesFit, sources
    <2> QED
      BY <1>0, <2>4, <2>5, <2>6
  <1>3. CASE DeleteFromCatalog
    <2> DEFINE c == sweep.todo[1]
               sound == sweep.found[c] \ sweep.late
    <2>1. sweep.todo \in Seq(Catalogs) /\ sweep.todo # <<>> /\ c \in Catalogs
      BY <1>3, <1>a DEF DeleteFromCatalog, SweepStates
    <2>2. Found \in SUBSET Pgcs
      BY <1>a DEF SweepStates, Found
    <2>3. layer2' \in [Catalogs -> [Pgcs -> Aggregates]]
      BY <1>3, <2>1 DEF DeleteFromCatalog, Without, TablesFit, Aggregates
    <2>4. missed' \in [Catalogs -> SUBSET Pgcs]
      BY <1>3, <2>1, <2>2 DEF DeleteFromCatalog, TablesFit
    <2>5. TablesFit' /\ UNCHANGED <<edit, job>>
      BY <1>3, <2>3, <2>4 DEF DeleteFromCatalog, TablesFit, sources
    <2>6. CASE Len(sweep.todo) = 1
      BY <1>0, <1>3, <2>5, <2>6, IdleTypes DEF DeleteFromCatalog
    <2>7. CASE Len(sweep.todo) # 1
      <3>1. Tail(sweep.todo) \in Seq(Catalogs) /\ Tail(sweep.todo) # <<>>
        BY <2>1, <2>7, NextCatalog
      <3>2. SweepFits([sweep EXCEPT !.todo = Tail(sweep.todo)])
        BY <1>a, <3>1 DEF SweepStates
      <3>3. sweep' = [sweep EXCEPT !.todo = Tail(sweep.todo)]
        BY <1>3, <2>7 DEF DeleteFromCatalog
      <3> QED
        BY <1>0, <2>5, <3>2, <3>3
    <2> QED
      BY <2>6, <2>7
  <1>4. CASE CrashSweep
    <2>1. TablesFit' /\ UNCHANGED <<edit, job>>
      BY <1>4 DEF CrashSweep, TablesFit, sources
    <2> QED
      BY <1>0, <1>4, <2>1, IdleTypes DEF CrashSweep
  <1> QED
    BY <1>1, <1>2, <1>3, <1>4 DEF SweepStep

\* Every step keeps the types.
LEMMA TypeStep == TypeOK /\ StatesFit /\ [Next]_vars => TypeOK' /\ StatesFit'
  <1> SUFFICES ASSUME TablesFit, StatesFit, [Next]_vars PROVE TablesFit' /\ StatesFit'
    BY DEF TypeOK, TablesFit, StatesFit, JobStates
  <1>1. CASE UNCHANGED vars
    BY <1>1 DEF vars, TablesFit, StatesFit
  <1>2. CASE Next
    BY <1>2, EditTypes, RunTypes, SweepTypes DEF Next
  <1> QED
    BY <1>1, <1>2

\* The tables begin with their types, and nobody is at work.
LEMMA InitTypes == Init => TypeOK /\ StatesFit
  <1> SUFFICES ASSUME Init PROVE TypeOK /\ StatesFit
    OBVIOUS
  <1>1. /\ recordPgc \in [Records -> Pgcs \cup {None}]
        /\ layer1 \in [Catalogs -> [Records -> Values \cup {None}]]
        /\ datatype \in [Tables -> DataTypes]
        /\ modTime \in [Pgcs -> Nat] /\ clock \in Nat /\ runs \in 0 .. MaxRuns
    BY InitialTables, RunsBounded DEF Init
  <1>2. \A c \in Catalogs : \A p \in Pgcs : Aggregate(c, p) \in Aggregates
    <2> TAKE c \in Catalogs
    <2> TAKE p \in Pgcs
    <2>1. \A r \in Used(c, p) : r \in Records /\ layer1[c][r] \in Values
      BY <1>1, UsedRows DEF RowsOf
    <2> QED
      BY <2>1 DEF Aggregate, Aggregates
  <1>3. layer2 \in [Catalogs -> [Pgcs -> Aggregates]] /\ lastUpdate \in [Catalogs -> Nat]
    BY <1>2 DEF Init, Aggregates
  <1>4. missed \in [Catalogs -> SUBSET Pgcs]
    BY DEF Init
  <1>5. StatesFit
    BY IdleTypes DEF Init, StatesFit, EditStates
  <1> QED
    BY <1>1, <1>3, <1>4, <1>5, TypesOfStates DEF TablesFit

\* The tables and what edits, jobs and the cleanup task carry always have their types.
THEOREM TypesHold == Spec => []TypeOK
  <1>1. Spec => [](TypeOK /\ StatesFit)
    BY InitTypes, TypeStep, PTL DEF Spec
  <1> QED
    BY <1>1, PTL

-------------------------------------------------------------------------------
\* A task that writes rows of layer 2 or marks misses leaves every object that is not
\* missed with its aggregate, or as it was.
Writes(c) == \A p \in Pgcs \ missed'[c] :
                \/ Fresh(c, p)'
                \/ p \notin missed[c] /\ layer2'[c][p] = layer2[c][p]

\* Then the jobs that take no step see nothing worse than before.
LEMMA OthersKeep ==
    ASSUME TypeOK, StatesFit, TypeOK', NEW i \in Jobs, UNCHANGED <<sources, job[i]>>,
           \A c \in Catalogs : Writes(c) /\ lastUpdate[c] <= lastUpdate'[c]
    PROVE  /\ StartsRight(i) => StartsRight(i)'
           /\ HeldByJob(i) => HeldByJob(i)'
           /\ AccountsForSeen(i) => AccountsForSeen(i)'
  <1>1. /\ \A c \in Catalogs : \A p \in Pgcs : /\ Aggregate(c, p)' = Aggregate(c, p)
                                               /\ RowsOf(c, p)' = RowsOf(c, p)
        /\ modTime' = modTime /\ job'[i] = job[i]
    BY AggregateFrame DEF sources
  <1>2. job[i].stage # "idle" => Catalog(i) \in Catalogs /\ Catalog(i)' = Catalog(i)
    BY <1>1, CatalogType DEF Catalog
  <1>3. Seen(i)' = Seen(i) /\ Seen(i) \in SUBSET Pgcs /\ (Reading(i)' <=> Reading(i))
    BY <1>1, SeenType DEF Seen, Reading
  <1>4. job[i].orphans \in SUBSET Pgcs /\ DOMAIN job[i].batch \in SUBSET Pgcs
    BY DEF StatesFit, JobStates, Batches
  <1>5. StartsRight(i) => StartsRight(i)'
    <2> SUFFICES ASSUME StartsRight(i), Reading(i), job[i].since = None
                 PROVE  job[i].dt <= lastUpdate'[Catalog(i)]
      BY <1>1, <1>2, <1>3 DEF StartsRight, Reading
    <2>1. job[i].dt <= lastUpdate[Catalog(i)] /\ Catalog(i) \in Catalogs
      BY <1>2 DEF StartsRight, Reading
    <2>2. /\ job[i].dt \in Nat /\ lastUpdate[Catalog(i)] \in Nat
          /\ lastUpdate'[Catalog(i)] \in Nat
      BY <2>1 DEF TypeOK
    <2>3. lastUpdate[Catalog(i)] <= lastUpdate'[Catalog(i)]
      BY <2>1
    <2> QED
      BY <2>1, <2>2, <2>3
  <1>6. HeldByJob(i) => HeldByJob(i)'
    BY <1>1, <1>2, <1>4 DEF HeldByJob
  <1>7. AccountsForSeen(i) => AccountsForSeen(i)'
    <2> SUFFICES ASSUME AccountsForSeen(i), Reading(i),
                        NEW p \in Seen(i) \ (job[i].late \cup missed'[Catalog(i)]),
                        modTime[p] > job[i].dt
                 PROVE  Fresh(Catalog(i), p)' \/ Pending(i, p)'
      BY <1>1, <1>2, <1>3 DEF AccountsForSeen, Reading
    <2>1. Catalog(i) \in Catalogs /\ Catalog(i)' = Catalog(i) /\ p \in Pgcs
      BY <1>2, <1>3 DEF Reading
    <2>2. Pending(i, p)' <=> Pending(i, p)
      BY <1>1, <2>1 DEF Pending
    <2>3. CASE Fresh(Catalog(i), p)'
      BY <2>3
    <2>4. CASE p \notin missed[Catalog(i)] /\ layer2'[Catalog(i)][p] = layer2[Catalog(i)][p]
      <3>1. Fresh(Catalog(i), p) \/ Pending(i, p)
        BY <2>4 DEF AccountsForSeen
      <3>2. Fresh(Catalog(i), p) => Fresh(Catalog(i), p)'
        BY <1>1, <2>1, <2>4 DEF Fresh
      <3> QED
        BY <2>2, <3>1, <3>2
    <2> QED
      BY <2>1, <2>3, <2>4 DEF Writes
  <1> QED
    BY <1>5, <1>6, <1>7

\* Nor does what the last update accounts for, where it stays.
LEMMA AccountsKept ==
    ASSUME NEW c \in Catalogs, Writes(c), UNCHANGED sources, lastUpdate'[c] = lastUpdate[c],
           \A p \in Pgcs \ missed[c] : modTime[p] <= lastUpdate[c] => Fresh(c, p)
    PROVE  \A p \in Pgcs \ missed'[c] : modTime'[p] <= lastUpdate'[c] => Fresh(c, p)'
  <1> SUFFICES ASSUME NEW p \in Pgcs \ missed'[c], modTime[p] <= lastUpdate[c]
               PROVE  Fresh(c, p)'
    BY DEF sources
  <1>1. Aggregate(c, p)' = Aggregate(c, p)
    BY AggregateFrame DEF sources
  <1>2. CASE p \notin missed[c] /\ layer2'[c][p] = layer2[c][p]
    BY <1>1, <1>2 DEF Fresh
  <1> QED
    BY <1>2 DEF Writes

\* A curator's step: what a commit changes is noted by the jobs and tasks that have it.
LEMMA EditKeeps ==
    ASSUME IInv, TypeOK', NEW e \in Edits, EditStep(e)
    PROVE  RunTimes' /\ HeldIsCurrent' /\ SeenIsAccounted' /\ LastUpdateAccounts'
  <1>1. CASE /\ UNCHANGED <<sources, layer2, lastUpdate, job, runs, sweep, missed>>
             /\ clock' \in {clock, clock + 1}
    <2>1. \A c \in Catalogs : \A p \in Pgcs : /\ Aggregate(c, p)' = Aggregate(c, p)
                                              /\ RowsOf(c, p)' = RowsOf(c, p)
      BY <1>1, AggregateFrame DEF sources
    <2>2. \A c \in Catalogs : Writes(c)
      BY <1>1, <2>1 DEF Writes, Fresh
    <2>3. \A c \in Catalogs : lastUpdate[c] \in Nat /\ lastUpdate'[c] = lastUpdate[c]
      BY <1>1 DEF IInv, TypeOK
    <2>4. \A i \in Jobs : StartsRight(i)' /\ HeldByJob(i)' /\ AccountsForSeen(i)'
      BY <1>1, <2>2, <2>3, OthersKeep DEF IInv, RunTimes, HeldIsCurrent, SeenIsAccounted
    <2>5. \A c \in Catalogs : lastUpdate'[c] < clock'
      <3>1. clock \in Nat
        BY DEF IInv, TypeOK
      <3> QED
        BY <1>1, <2>3, <3>1 DEF IInv, RunTimes
    <2>6. HeldBySweep'
      BY <1>1, <2>1 DEF IInv, HeldIsCurrent, HeldBySweep, StatesFit, SweepStates
    <2>7. LastUpdateAccounts'
      BY <1>1, <2>2, <2>3, AccountsKept DEF IInv, LastUpdateAccounts
    <2> QED
      BY <2>4, <2>5, <2>6, <2>7 DEF RunTimes, HeldIsCurrent, SeenIsAccounted
  <1>2. ASSUME NEW N \in SUBSET Pgcs, Notes(N)
        PROVE  RunTimes' /\ HeldIsCurrent' /\ SeenIsAccounted' /\ LastUpdateAccounts'
    <2>1. \A j \in Jobs : job'[j] = [job[j] EXCEPT !.late = @ \cup (N \cap Seen(j))]
      BY <1>2 DEF Notes
    <2>2. \A j \in Jobs : job[j] \in JobStates
      BY DEF IInv, StatesFit
    <2>3. ASSUME NEW j \in Jobs
          PROVE  /\ job'[j].stage = job[j].stage /\ Catalog(j)' = Catalog(j)
                 /\ job'[j].since = job[j].since /\ job'[j].dt = job[j].dt
                 /\ job'[j].offset = job[j].offset /\ job'[j].cleanup = job[j].cleanup
                 /\ job'[j].batch = job[j].batch /\ job'[j].orphans = job[j].orphans
                 /\ job'[j].late = job[j].late \cup (N \cap Seen(j))
                 /\ Seen(j)' = Seen(j) /\ (Reading(j)' <=> Reading(j))
      <3>1. /\ job'[j].stage = job[j].stage /\ job'[j].plan = job[j].plan
            /\ job'[j].since = job[j].since /\ job'[j].dt = job[j].dt
            /\ job'[j].offset = job[j].offset /\ job'[j].cleanup = job[j].cleanup
            /\ job'[j].batch = job[j].batch /\ job'[j].orphans = job[j].orphans
        BY <2>1, <2>2 DEF JobStates
      <3>2. job'[j].late = job[j].late \cup (N \cap Seen(j))
        BY <2>1, <2>2 DEF JobStates
      <3> QED
        BY <3>1, <3>2 DEF Seen, Reading, Catalog
    <2>4. /\ \A c \in Catalogs : missed'[c] = missed[c] \cup {p \in N : modTime'[p] <= lastUpdate[c]}
          /\ sweep' = [sweep EXCEPT !.late = IF sweep.stage = "idle" THEN {} ELSE @ \cup N]
          /\ UNCHANGED <<clock, layer2, lastUpdate>>
      BY <1>2 DEF Notes
    <2>5. \A p \in Pgcs \ N : /\ modTime'[p] = modTime[p]
                              /\ \A c \in Catalogs : /\ RowsOf(c, p)' = RowsOf(c, p)
                                                     /\ Aggregate(c, p)' = Aggregate(c, p)
      BY <1>2 DEF Notes
    <2>6. RunTimes'
      BY <2>3, <2>4 DEF IInv, RunTimes, StartsRight
    <2>7. ASSUME NEW j \in Jobs PROVE HeldByJob(j)'
      <3>1. DOMAIN job[j].batch \in SUBSET Pgcs /\ job[j].orphans \in SUBSET Pgcs
        BY <2>2 DEF JobStates, Batches
      <3>2. HeldByJob(j)
        BY DEF IInv, HeldIsCurrent
      <3>3. ASSUME job[j].stage = "save", NEW p \in DOMAIN job[j].batch
            PROVE  p <= job[j].offset
                     /\ (p \in job'[j].late \/ job[j].batch[p] = Aggregate(Catalog(j), p)')
        <4>1. p <= job[j].offset /\ (p \in job[j].late \/ job[j].batch[p] = Aggregate(Catalog(j), p))
          BY <3>2, <3>3 DEF HeldByJob
        <4>2. p \in Pgcs /\ p \in Seen(j) /\ Catalog(j) \in Catalogs
          BY <3>1, <3>3, <4>1, CatalogType DEF Seen, IInv
        <4> QED
          BY <2>3, <2>5, <4>1, <4>2
      <3>4. ASSUME job[j].stage = "remove", NEW p \in job[j].orphans \ job'[j].late
            PROVE  RowsOf(Catalog(j), p)' = {}
        <4>1. RowsOf(Catalog(j), p) = {} /\ p \notin N /\ p \in Pgcs /\ Catalog(j) \in Catalogs
          BY <2>3, <3>1, <3>2, <3>4, CatalogType DEF HeldByJob, Seen, IInv
        <4> QED
          BY <2>3, <2>5, <4>1
      <3> QED
        BY <2>3, <3>3, <3>4 DEF HeldByJob
    <2>8. HeldBySweep'
      <3>1. sweep \in SweepStates
        BY DEF IInv, StatesFit
      <3>2. /\ sweep'.stage = sweep.stage /\ sweep'.found = sweep.found
            /\ sweep.stage # "idle" => sweep'.late = sweep.late \cup N
        BY <2>4, <3>1 DEF SweepStates
      <3>3. \A c \in Catalogs : sweep.found[c] \in SUBSET Pgcs
        BY <3>1 DEF SweepStates
      <3> QED
        BY <2>5, <3>2, <3>3 DEF IInv, HeldIsCurrent, HeldBySweep
    <2>9. ASSUME NEW j \in Jobs PROVE AccountsForSeen(j)'
      <3> SUFFICES ASSUME Reading(j), NEW p \in Seen(j) \ (job'[j].late \cup missed'[Catalog(j)]),
                          modTime'[p] > job[j].dt
                   PROVE  Fresh(Catalog(j), p)' \/ Pending(j, p)'
        BY <2>3 DEF AccountsForSeen
      <3>1. Catalog(j) \in Catalogs /\ p \in Pgcs \ N
        BY <2>3, CatalogType, SeenType DEF Reading, IInv
      <3>2. p \notin missed[Catalog(j)] /\ p \notin job[j].late /\ modTime[p] > job[j].dt
        BY <2>3, <2>4, <2>5, <3>1
      <3>3. Fresh(Catalog(j), p) \/ Pending(j, p)
        BY <3>2 DEF IInv, SeenIsAccounted, AccountsForSeen
      <3>4. Fresh(Catalog(j), p) => Fresh(Catalog(j), p)'
        BY <2>3, <2>4, <2>5, <3>1 DEF Fresh
      <3>5. Pending(j, p) => Pending(j, p)'
        BY <2>3, <2>5, <3>1 DEF Pending
      <3> QED
        BY <3>3, <3>4, <3>5
    <2>10. LastUpdateAccounts'
      <3> SUFFICES ASSUME NEW c \in Catalogs, NEW p \in Pgcs \ missed'[c],
                          modTime'[p] <= lastUpdate[c]
                   PROVE  Fresh(c, p)'
        BY <2>4 DEF LastUpdateAccounts
      <3>1. p \notin N /\ p \notin missed[c]
        BY <2>4
      <3>2. Fresh(c, p)
        BY <2>5, <3>1 DEF IInv, LastUpdateAccounts
      <3> QED
        BY <2>4, <2>5, <3>1, <3>2 DEF Fresh
    <2> QED
      BY <2>6, <2>7, <2>8, <2>9, <2>10 DEF HeldIsCurrent, SeenIsAccounted
  <1>3. TypeOK /\ StatesFit
    BY DEF IInv
  <1> QED
    BY <1>1, <1>2, <1>3, EditNotes

\* A job's step keeps the rest if it keeps what the job itself has and what it writes is
\* fresh or missed.
LEMMA RunFrame ==
    ASSUME IInv, TypeOK', NEW j \in Jobs,
           UNCHANGED <<sources, sweep>>, \A i \in Jobs \ {j} : job'[i] = job[i],
           \A c \in Catalogs : Writes(c) /\ lastUpdate'[c] = lastUpdate[c],
           clock' = clock,
           StartsRight(j)' /\ HeldByJob(j)' /\ AccountsForSeen(j)'
    PROVE  RunTimes' /\ HeldIsCurrent' /\ SeenIsAccounted' /\ LastUpdateAccounts'
  <1>1. \A c \in Catalogs : lastUpdate[c] <= lastUpdate'[c]
    BY DEF IInv, TypeOK
  <1>2. \A i \in Jobs : StartsRight(i)' /\ HeldByJob(i)' /\ AccountsForSeen(i)'
    BY <1>1, OthersKeep DEF IInv, RunTimes, HeldIsCurrent, SeenIsAccounted
  <1>3. HeldBySweep'
    <2>1. \A c \in Catalogs : \A p \in Pgcs : RowsOf(c, p)' = RowsOf(c, p)
      BY AggregateFrame DEF sources
    <2> QED
      BY <2>1 DEF IInv, HeldIsCurrent, HeldBySweep, StatesFit, SweepStates
  <1>4. LastUpdateAccounts'
    BY AccountsKept DEF IInv, LastUpdateAccounts
  <1> QED
    BY <1>2, <1>3, <1>4 DEF IInv, RunTimes, HeldIsCurrent, SeenIsAccounted

\* Where nothing is written to layer 2 and nothing missed, the frame is simple.
LEMMA ReadsOnly ==
    ASSUME UNCHANGED <<sources, layer2, missed, lastUpdate>>, NEW c \in Catalogs
    PROVE  /\ Writes(c) /\ lastUpdate'[c] = lastUpdate[c]
           /\ \A p \in Pgcs : /\ RowsOf(c, p)' = RowsOf(c, p)
                              /\ Aggregate(c, p)' = Aggregate(c, p)
                              /\ Fresh(c, p)' <=> Fresh(c, p)
  <1>1. \A p \in Pgcs : RowsOf(c, p)' = RowsOf(c, p) /\ Aggregate(c, p)' = Aggregate(c, p)
    BY AggregateFrame DEF sources
  <1> QED
    BY <1>1 DEF Writes, Fresh

\* A run that begins, turns to its catalog or dies has seen nothing.
LEMMA BeginKeeps ==
    ASSUME IInv, TypeOK', NEW j \in Jobs, StartTask(j) \/ StartCatalog(j) \/ Crash(j)
    PROVE  RunTimes' /\ HeldIsCurrent' /\ SeenIsAccounted' /\ LastUpdateAccounts'
  <1>1. /\ UNCHANGED <<sources, sweep, layer2, missed, lastUpdate, clock>>
        /\ \A i \in Jobs \ {j} : job'[i] = job[i]
    BY DEF StartTask, StartCatalog, Crash, IInv, StatesFit
  <1>2. \A c \in Catalogs : Writes(c) /\ lastUpdate'[c] = lastUpdate[c]
    BY <1>1, ReadsOnly
  <1>3. CASE StartTask(j) \/ Crash(j)
    <2>1. job'[j].stage \in {"idle", "next"}
      <3>1. CASE StartTask(j)
        <4>1. PICK plan \in Plans, since \in Since, cleanup \in Cleanup :
                 job' = [job EXCEPT ![j] = [IdleJob EXCEPT
                           !.stage = "next", !.plan = plan, !.since = since, !.cleanup = cleanup]]
          BY <3>1 DEF StartTask
        <4> QED
          BY <4>1 DEF IdleJob, IInv, StatesFit
      <3>2. CASE Crash(j)
        BY <3>2 DEF Crash, IdleJob, IInv, StatesFit
      <3> QED
        BY <1>3, <3>1, <3>2
    <2>2. StartsRight(j)' /\ HeldByJob(j)' /\ AccountsForSeen(j)'
      BY <2>1 DEF StartsRight, HeldByJob, AccountsForSeen, Reading
    <2> QED
      BY <1>1, <1>2, <2>2, RunFrame
  <1>4. CASE StartCatalog(j)
    <2>1. job[j] \in JobStates /\ Catalog(j) \in Catalogs
      BY <1>4, CatalogType DEF StartCatalog, IInv, StatesFit
    <2>2. /\ job'[j].stage = "read" /\ job'[j].offset = 0 /\ job'[j].plan = job[j].plan
          /\ job'[j].since = job[j].since
          /\ job'[j].dt = IF job[j].since # None THEN job[j].since ELSE lastUpdate[Catalog(j)]
      BY <1>4, <2>1 DEF StartCatalog, LastUpdateTime, IInv, StatesFit, JobStates
    <2>3. Catalog(j)' = Catalog(j)
      BY <2>2 DEF Catalog
    <2>4. StartsRight(j)'
      <3>1. lastUpdate[Catalog(j)] <= lastUpdate[Catalog(j)]
        BY <2>1 DEF IInv, TypeOK
      <3> QED
        BY <1>1, <2>2, <2>3, <3>1 DEF StartsRight
    <2>5. Seen(j)' = {}
      <3>1. \A p \in Pgcs : ~(p <= 0)
        BY PgcsPositive
      <3> QED
        BY <2>2, <3>1 DEF Seen
    <2>6. HeldByJob(j)' /\ AccountsForSeen(j)'
      BY <2>2, <2>5 DEF HeldByJob, AccountsForSeen
    <2> QED
      BY <1>1, <1>2, <2>4, <2>6, RunFrame
  <1> QED
    BY <1>3, <1>4

\* A run that reads a batch has seen every object up to the new offset: in the batch, before
\* it, or without rows.
LEMMA ReadBatchKeeps ==
    ASSUME IInv, TypeOK', NEW j \in Jobs, ReadBatch(j)
    PROVE  RunTimes' /\ HeldIsCurrent' /\ SeenIsAccounted' /\ LastUpdateAccounts'
  <1> DEFINE S == NewObjects(j)
             B == FirstObjects(S)
             k == OffsetAfter(j, B)
  <1>1. /\ UNCHANGED <<sources, sweep, layer2, missed, lastUpdate, clock>>
        /\ \A i \in Jobs \ {j} : job'[i] = job[i]
    BY DEF ReadBatch, IInv, StatesFit
  <1>2. \A c \in Catalogs :
           /\ Writes(c) /\ lastUpdate'[c] = lastUpdate[c]
           /\ \A p \in Pgcs : /\ RowsOf(c, p)' = RowsOf(c, p)
                              /\ Aggregate(c, p)' = Aggregate(c, p)
                              /\ Fresh(c, p)' <=> Fresh(c, p)
    BY <1>1, ReadsOnly
  <1>3. job[j] \in JobStates /\ Catalog(j) \in Catalogs /\ job[j].stage = "read"
    BY CatalogType DEF ReadBatch, IInv, StatesFit
  <1>4. /\ job'[j].stage = "save" /\ job'[j].offset = k /\ job'[j].plan = job[j].plan
        /\ job'[j].since = job[j].since /\ job'[j].dt = job[j].dt
        /\ job'[j].cleanup = job[j].cleanup
        /\ job'[j].batch = [p \in B |-> Aggregate(Catalog(j), p)]
        /\ job'[j].late = job[j].late \ B
    BY <1>3 DEF ReadBatch, IInv, StatesFit, JobStates
  <1>5. S \in SUBSET Pgcs /\ S # {}
    BY DEF ReadBatch, NewObjects
  <1>6. B \subseteq S /\ k \in B /\ (\A p \in B : p <= k) /\ (\A p \in S : p <= k => p \in B)
    BY <1>5, BatchTakesFirst
  <1> HIDE DEF B, k
  <1>7. Catalog(j)' = Catalog(j) /\ Reading(j) /\ Reading(j)'
    BY <1>3, <1>4 DEF Catalog, Reading
  <1>8. StartsRight(j)'
    BY <1>1, <1>4, <1>7 DEF IInv, RunTimes, StartsRight
  <1>9. HeldByJob(j)'
    <2>1. \A p \in B : p <= k /\ job'[j].batch[p] = Aggregate(Catalog(j), p)'
      BY <1>2, <1>3, <1>4, <1>5, <1>6, <1>7
    <2>2. DOMAIN job'[j].batch = B
      BY <1>4
    <2> QED
      BY <1>4, <1>7, <2>1, <2>2 DEF HeldByJob
  <1>10. AccountsForSeen(j)'
    <2> SUFFICES ASSUME NEW p \in Pgcs, p <= k, p \notin job'[j].late,
                        p \notin missed[Catalog(j)], modTime[p] > job[j].dt
                 PROVE  Fresh(Catalog(j), p)' \/ Pending(j, p)'
      BY <1>1, <1>4, <1>7 DEF AccountsForSeen, Seen, sources
    <2>1. CASE p \in B
      BY <1>4, <2>1 DEF Pending
    <2>2. CASE p \notin B /\ RowsOf(Catalog(j), p) = {}
      BY <1>2, <1>3, <1>4, <1>7, <2>2 DEF Pending
    <2>3. CASE p \notin B /\ RowsOf(Catalog(j), p) # {}
      <3>1. p \notin S
        BY <1>6, <2>3
      <3>2. ~(p > job[j].offset)
        BY <2>3, <3>1 DEF NewObjects
      <3>3. p <= job[j].offset
        BY <1>3, <3>2, PgcsPositive DEF JobStates
      <3>4. p \in Seen(j) /\ p \notin job[j].late
        BY <1>3, <1>4, <2>3, <3>3 DEF Seen
      <3>5. Fresh(Catalog(j), p) \/ Pending(j, p)
        BY <1>7, <3>4 DEF IInv, SeenIsAccounted, AccountsForSeen
      <3>6. Fresh(Catalog(j), p)
        BY <1>3, <2>3, <3>5 DEF Pending
      <3> QED
        BY <1>2, <1>3, <1>7, <3>6
    <2> QED
      BY <2>1, <2>2, <2>3
  <1> QED
    BY <1>1, <1>2, <1>8, <1>9, <1>10, RunFrame

\* A run that finds no new objects has seen all of them.
LEMMA ReadNothingKeeps ==
    ASSUME IInv, TypeOK', NEW j \in Jobs, ReadNothing(j)
    PROVE  RunTimes' /\ HeldIsCurrent' /\ SeenIsAccounted' /\ LastUpdateAccounts'
  <1>1. /\ UNCHANGED <<sources, sweep, layer2, missed, lastUpdate, clock>>
        /\ \A i \in Jobs \ {j} : job'[i] = job[i]
    BY DEF ReadNothing, IInv, StatesFit
  <1>2. \A c \in Catalogs :
           /\ Writes(c) /\ lastUpdate'[c] = lastUpdate[c]
           /\ \A p \in Pgcs : /\ RowsOf(c, p)' = RowsOf(c, p)
                              /\ Aggregate(c, p)' = Aggregate(c, p)
                              /\ Fresh(c, p)' <=> Fresh(c, p)
    BY <1>1, ReadsOnly
  <1>3. job[j] \in JobStates /\ Catalog(j) \in Catalogs /\ job[j].stage = "read"
    BY CatalogType DEF ReadNothing, IInv, StatesFit
  <1>4. /\ job'[j].stage = IF job[j].cleanup THEN "orphans" ELSE "finish"
        /\ job'[j].plan = job[j].plan /\ job'[j].since = job[j].since
        /\ job'[j].dt = job[j].dt /\ job'[j].cleanup = job[j].cleanup
        /\ job'[j].late = job[j].late
    BY <1>3 DEF ReadNothing, IInv, StatesFit, JobStates
  <1>5. Catalog(j)' = Catalog(j) /\ Reading(j) /\ Reading(j)'
    BY <1>3, <1>4 DEF Catalog, Reading
  <1>6. StartsRight(j)'
    BY <1>1, <1>4, <1>5 DEF IInv, RunTimes, StartsRight
  <1>7. HeldByJob(j)'
    BY <1>4 DEF HeldByJob
  <1>8. AccountsForSeen(j)'
    <2> SUFFICES ASSUME NEW p \in Pgcs, p \notin job[j].late,
                        p \notin missed[Catalog(j)], modTime[p] > job[j].dt
                 PROVE  Fresh(Catalog(j), p)' \/ Pending(j, p)'
      BY <1>1, <1>4, <1>5 DEF AccountsForSeen, Seen, sources
    <2>1. CASE RowsOf(Catalog(j), p) = {}
      BY <1>2, <1>3, <1>4, <1>5, <2>1 DEF Pending
    <2>2. CASE RowsOf(Catalog(j), p) # {}
      <3>1. ~(p > job[j].offset)
        BY <2>2 DEF ReadNothing, NewObjects
      <3>2. p <= job[j].offset
        BY <1>3, <3>1, PgcsPositive DEF JobStates
      <3>3. p \in Seen(j)
        BY <1>3, <3>2 DEF Seen
      <3>4. Fresh(Catalog(j), p) \/ Pending(j, p)
        BY <1>5, <3>3 DEF IInv, SeenIsAccounted, AccountsForSeen
      <3>5. Fresh(Catalog(j), p)
        BY <1>3, <2>2, <3>4 DEF Pending
      <3> QED
        BY <1>2, <1>3, <1>5, <3>5
    <2> QED
      BY <2>1, <2>2
  <1> QED
    BY <1>1, <1>2, <1>6, <1>7, <1>8, RunFrame

\* A run that looks for orphans finds every row that must go.
LEMMA FindOrphansKeeps ==
    ASSUME IInv, TypeOK', NEW j \in Jobs, FindOrphans(j)
    PROVE  RunTimes' /\ HeldIsCurrent' /\ SeenIsAccounted' /\ LastUpdateAccounts'
  <1> DEFINE O == Orphaned(Catalog(j))
  <1>1. /\ UNCHANGED <<sources, sweep, layer2, missed, lastUpdate, clock>>
        /\ \A i \in Jobs \ {j} : job'[i] = job[i]
    BY DEF FindOrphans, IInv, StatesFit
  <1>2. \A c \in Catalogs :
           /\ Writes(c) /\ lastUpdate'[c] = lastUpdate[c]
           /\ \A p \in Pgcs : /\ RowsOf(c, p)' = RowsOf(c, p)
                              /\ Aggregate(c, p)' = Aggregate(c, p)
                              /\ Fresh(c, p)' <=> Fresh(c, p)
    BY <1>1, ReadsOnly
  <1>3. job[j] \in JobStates /\ Catalog(j) \in Catalogs /\ job[j].stage = "orphans"
    BY CatalogType DEF FindOrphans, IInv, StatesFit
  <1>4. /\ job'[j].stage = "remove" /\ job'[j].orphans = O
        /\ job'[j].plan = job[j].plan /\ job'[j].since = job[j].since
        /\ job'[j].dt = job[j].dt /\ job'[j].cleanup = job[j].cleanup
        /\ job'[j].late = job[j].late \ O
    BY <1>3 DEF FindOrphans, IInv, StatesFit, JobStates
  <1>5. Catalog(j)' = Catalog(j) /\ Reading(j) /\ Reading(j)'
    BY <1>3, <1>4 DEF Catalog, Reading
  <1>6. StartsRight(j)'
    BY <1>1, <1>4, <1>5 DEF IInv, RunTimes, StartsRight
  <1>7. HeldByJob(j)'
    <2>1. \A p \in O : p \in Pgcs /\ RowsOf(Catalog(j), p) = {}
      BY DEF Orphaned
    <2> QED
      BY <1>2, <1>3, <1>4, <1>5, <2>1 DEF HeldByJob
  <1>8. AccountsForSeen(j)'
    <2> SUFFICES ASSUME NEW p \in Pgcs, p \notin job[j].late \ O,
                        p \notin missed[Catalog(j)], modTime[p] > job[j].dt
                 PROVE  Fresh(Catalog(j), p)' \/ Pending(j, p)'
      BY <1>1, <1>4, <1>5 DEF AccountsForSeen, Seen, sources
    <2>1. CASE p \in O
      BY <1>4, <2>1 DEF Pending
    <2>2. CASE p \notin O
      <3>1. p \in Seen(j)
        BY <1>3 DEF Seen
      <3>2. Fresh(Catalog(j), p) \/ RowsOf(Catalog(j), p) = {}
        BY <1>3, <1>5, <2>2, <3>1 DEF IInv, SeenIsAccounted, AccountsForSeen, Pending
      <3>3. Fresh(Catalog(j), p)
        BY <2>2, <3>2, UsedRows DEF Orphaned, Fresh
      <3> QED
        BY <1>2, <1>3, <1>5, <3>3
    <2> QED
      BY <2>1, <2>2
  <1> QED
    BY <1>1, <1>2, <1>6, <1>7, <1>8, RunFrame

\* What a run saves is fresh, or late and then missed.
LEMMA SaveBatchKeeps ==
    ASSUME IInv, TypeOK', NEW j \in Jobs, SaveBatch(j)
    PROVE  RunTimes' /\ HeldIsCurrent' /\ SeenIsAccounted' /\ LastUpdateAccounts'
  <1>0. PICK c, D : c = Catalog(j) /\ D = DOMAIN job[j].batch
    OBVIOUS
  <1>1. /\ UNCHANGED <<sources, sweep, lastUpdate, clock>>
        /\ \A i \in Jobs \ {j} : job'[i] = job[i]
    BY <1>0 DEF SaveBatch, IInv, StatesFit
  <1>2. \A d \in Catalogs : \A p \in Pgcs : /\ RowsOf(d, p)' = RowsOf(d, p)
                                            /\ Aggregate(d, p)' = Aggregate(d, p)
    BY <1>1, AggregateFrame DEF sources
  <1>3. job[j] \in JobStates /\ c \in Catalogs /\ job[j].stage = "save" /\ D \in SUBSET Pgcs
    BY <1>0, CatalogType DEF SaveBatch, IInv, StatesFit, JobStates, Batches
  <1>4. /\ job'[j].stage = "read" /\ job'[j].offset = job[j].offset
        /\ job'[j].plan = job[j].plan /\ job'[j].since = job[j].since
        /\ job'[j].dt = job[j].dt /\ job'[j].cleanup = job[j].cleanup
        /\ job'[j].late = job[j].late
    BY <1>0, <1>3 DEF SaveBatch, IInv, StatesFit, JobStates
  <1>5. Catalog(j)' = c /\ Reading(j) /\ Reading(j)' /\ Seen(j)' = Seen(j)
    BY <1>0, <1>3, <1>4 DEF Catalog, Reading, Seen
  <1>6. /\ layer2' = [layer2 EXCEPT ![c] = [p \in Pgcs |->
                         IF p \in D THEN job[j].batch[p] ELSE layer2[c][p]]]
        /\ missed' = [missed EXCEPT ![c] = (@ \ D) \cup (D \cap job[j].late)]
    BY <1>0 DEF SaveBatch
  <1>7. /\ \A p \in Pgcs : layer2'[c][p] = IF p \in D THEN job[j].batch[p] ELSE layer2[c][p]
        /\ missed'[c] = (missed[c] \ D) \cup (D \cap job[j].late)
        /\ \A d \in Catalogs \ {c} : layer2'[d] = layer2[d] /\ missed'[d] = missed[d]
    BY <1>3, <1>6 DEF IInv, TypeOK
  <1>8. \A p \in D \ job[j].late : layer2'[c][p] = Aggregate(c, p)'
    <2>1. \A p \in D \ job[j].late : job[j].batch[p] = Aggregate(c, p)
      BY <1>0, <1>3 DEF IInv, HeldIsCurrent, HeldByJob
    <2> QED
      BY <1>2, <1>3, <1>7, <2>1
  <1>9. \A d \in Catalogs : Writes(d)
    <2>1. ASSUME NEW d \in Catalogs \ {c} PROVE Writes(d)
      BY <1>7, <2>1 DEF Writes
    <2>2. ASSUME NEW p \in Pgcs \ missed'[c], NEW d, d = c
          PROVE  layer2'[d][p] = Aggregate(d, p)' \/ (p \notin missed[d] /\ layer2'[d][p] = layer2[d][p])
      BY <1>7, <1>8, <2>2
    <2>3. ASSUME NEW d \in Catalogs, d = c PROVE Writes(d)
      BY <2>2, <2>3 DEF Writes, Fresh
    <2> QED
      BY <2>1, <2>3
  <1>10. StartsRight(j)'
    BY <1>0, <1>1, <1>3, <1>4, <1>5 DEF IInv, RunTimes, StartsRight
  <1>11. HeldByJob(j)'
    BY <1>4 DEF HeldByJob
  <1>12. AccountsForSeen(j)'
    <2> SUFFICES ASSUME NEW p \in Seen(j) \ (job[j].late \cup missed'[c]), modTime[p] > job[j].dt
                 PROVE  layer2'[c][p] = Aggregate(c, p)' \/ Pending(j, p)'
      BY <1>1, <1>4, <1>5 DEF AccountsForSeen, Fresh, sources
    <2>1. CASE p \in D
      BY <1>8, <2>1
    <2>2. CASE p \notin D
      <3>1. p \in Pgcs /\ p \notin missed[c]
        BY <1>7, <2>2, SeenType
      <3>2. Fresh(c, p) \/ Pending(j, p)
        BY <1>0, <1>5, <3>1 DEF IInv, SeenIsAccounted, AccountsForSeen
      <3>3. CASE Fresh(c, p)
        BY <1>2, <1>3, <1>7, <2>2, <3>1, <3>3 DEF Fresh
      <3>4. CASE RowsOf(c, p) = {}
        BY <1>0, <1>2, <1>3, <1>4, <1>5, <3>1, <3>4 DEF Pending
      <3> QED
        BY <1>0, <1>3, <2>2, <3>2, <3>3, <3>4 DEF Pending
    <2> QED
      BY <2>1, <2>2
  <1> QED
    BY <1>1, <1>9, <1>10, <1>11, <1>12, RunFrame

\* What a run removes has no rows, or is late and then missed.
LEMMA RemoveOrphansKeeps ==
    ASSUME IInv, TypeOK', NEW j \in Jobs, RemoveOrphans(j)
    PROVE  RunTimes' /\ HeldIsCurrent' /\ SeenIsAccounted' /\ LastUpdateAccounts'
  <1>0. PICK c, D : c = Catalog(j) /\ D = job[j].orphans
    OBVIOUS
  <1>1. /\ UNCHANGED <<sources, sweep, lastUpdate, clock>>
        /\ \A i \in Jobs \ {j} : job'[i] = job[i]
    BY <1>0 DEF RemoveOrphans, IInv, StatesFit
  <1>2. \A d \in Catalogs : \A p \in Pgcs : /\ RowsOf(d, p)' = RowsOf(d, p)
                                            /\ Aggregate(d, p)' = Aggregate(d, p)
    BY <1>1, AggregateFrame DEF sources
  <1>3. job[j] \in JobStates /\ c \in Catalogs /\ job[j].stage = "remove" /\ D \in SUBSET Pgcs
    BY <1>0, CatalogType DEF RemoveOrphans, IInv, StatesFit, JobStates
  <1>4. /\ job'[j].stage = "finish"
        /\ job'[j].plan = job[j].plan /\ job'[j].since = job[j].since
        /\ job'[j].dt = job[j].dt /\ job'[j].cleanup = job[j].cleanup
        /\ job'[j].late = job[j].late
    BY <1>0, <1>3 DEF RemoveOrphans, IInv, StatesFit, JobStates
  <1>5. Catalog(j)' = c /\ Reading(j) /\ Reading(j)' /\ Seen(j)' = Seen(j) /\ Seen(j) = Pgcs
    BY <1>0, <1>3, <1>4 DEF Catalog, Reading, Seen
  <1>6. /\ layer2' = [layer2 EXCEPT ![c] = Without(c, D)]
        /\ missed' = [missed EXCEPT ![c] = (@ \ D) \cup (D \cap job[j].late)]
    BY <1>0 DEF RemoveOrphans
  <1>7. /\ \A p \in Pgcs : layer2'[c][p] = IF p \in D THEN {} ELSE layer2[c][p]
        /\ missed'[c] = (missed[c] \ D) \cup (D \cap job[j].late)
        /\ \A d \in Catalogs \ {c} : layer2'[d] = layer2[d] /\ missed'[d] = missed[d]
    BY <1>3, <1>6 DEF IInv, TypeOK, Without
  <1>8. \A p \in D \ job[j].late : layer2'[c][p] = Aggregate(c, p)'
    <2>1. \A p \in D \ job[j].late : Aggregate(c, p) = {}
      BY <1>0, <1>3, UsedRows DEF IInv, HeldIsCurrent, HeldByJob
    <2> QED
      BY <1>2, <1>3, <1>7, <2>1
  <1>9. \A d \in Catalogs : Writes(d)
    <2>1. ASSUME NEW d \in Catalogs \ {c} PROVE Writes(d)
      BY <1>7, <2>1 DEF Writes
    <2>2. ASSUME NEW p \in Pgcs \ missed'[c], NEW d, d = c
          PROVE  layer2'[d][p] = Aggregate(d, p)' \/ (p \notin missed[d] /\ layer2'[d][p] = layer2[d][p])
      BY <1>7, <1>8, <2>2
    <2>3. ASSUME NEW d \in Catalogs, d = c PROVE Writes(d)
      BY <2>2, <2>3 DEF Writes, Fresh
    <2> QED
      BY <2>1, <2>3
  <1>10. StartsRight(j)'
    BY <1>0, <1>1, <1>3, <1>4, <1>5 DEF IInv, RunTimes, StartsRight
  <1>11. HeldByJob(j)'
    BY <1>4 DEF HeldByJob
  <1>12. AccountsForSeen(j)'
    <2> SUFFICES ASSUME NEW p \in Pgcs \ (job[j].late \cup missed'[c]), modTime[p] > job[j].dt
                 PROVE  layer2'[c][p] = Aggregate(c, p)' \/ Pending(j, p)'
      BY <1>1, <1>4, <1>5 DEF AccountsForSeen, Fresh, sources
    <2>1. CASE p \in D
      BY <1>8, <2>1
    <2>2. CASE p \notin D
      <3>1. p \notin missed[c]
        BY <1>7, <2>2
      <3>2. Fresh(c, p) \/ Pending(j, p)
        BY <1>0, <1>5, <3>1 DEF IInv, SeenIsAccounted, AccountsForSeen
      <3>3. CASE Fresh(c, p)
        BY <1>2, <1>3, <1>7, <2>2, <3>3 DEF Fresh
      <3>4. CASE ~job[j].cleanup /\ RowsOf(c, p) = {}
        BY <1>0, <1>2, <1>3, <1>4, <1>5, <3>4 DEF Pending
      <3> QED
        BY <1>0, <1>3, <2>2, <3>2, <3>3, <3>4 DEF Pending
    <2> QED
      BY <2>1, <2>2
  <1> QED
    BY <1>1, <1>9, <1>10, <1>11, <1>12, RunFrame

\* A run that moves the last update on has aggregated, removed or noted every object
\* modified since the one before.
LEMMA FinishCatalogKeeps ==
    ASSUME IInv, TypeOK', NEW j \in Jobs, FinishCatalog(j)
    PROVE  RunTimes' /\ HeldIsCurrent' /\ SeenIsAccounted' /\ LastUpdateAccounts'
  <1>0. PICK c : c = Catalog(j)
    OBVIOUS
  <1>1. /\ UNCHANGED <<sources, sweep, layer2>> /\ clock' = clock + 1
        /\ \A i \in Jobs \ {j} : job'[i] = job[i]
    BY DEF FinishCatalog, IInv, StatesFit
  <1>2. \A d \in Catalogs : \A p \in Pgcs : /\ RowsOf(d, p)' = RowsOf(d, p)
                                            /\ Aggregate(d, p)' = Aggregate(d, p)
                                            /\ Fresh(d, p)' <=> Fresh(d, p)
    BY <1>1, AggregateFrame DEF sources, Fresh
  <1>3. job[j] \in JobStates /\ c \in Catalogs /\ job[j].stage = "finish"
    BY <1>0, CatalogType DEF FinishCatalog, IInv, StatesFit
  <1>4. /\ lastUpdate' = [lastUpdate EXCEPT ![c] = clock]
        /\ missed' = [missed EXCEPT ![c] =
                         @ \cup job[j].late \cup SkippedBySince(j) \cup LeftOrphaned(j)]
    BY <1>0 DEF FinishCatalog
  <1>5. /\ lastUpdate'[c] = clock
        /\ missed'[c] = missed[c] \cup job[j].late \cup SkippedBySince(j) \cup LeftOrphaned(j)
        /\ \A d \in Catalogs \ {c} : lastUpdate'[d] = lastUpdate[d] /\ missed'[d] = missed[d]
    BY <1>3, <1>4 DEF IInv, TypeOK
  <1>6. clock \in Nat /\ \A d \in Catalogs : lastUpdate[d] \in Nat /\ lastUpdate[d] < clock
    BY DEF IInv, TypeOK, RunTimes
  <1>7. \A d \in Catalogs : Writes(d) /\ lastUpdate[d] <= lastUpdate'[d] /\ lastUpdate'[d] < clock'
    <2> TAKE d \in Catalogs
    <2>1. missed[d] \subseteq missed'[d]
      BY <1>5
    <2>2. Writes(d)
      BY <1>1, <2>1 DEF Writes
    <2>3. CASE d = c
      BY <1>1, <1>5, <1>6, <2>2, <2>3
    <2>4. CASE d # c
      BY <1>1, <1>5, <1>6, <2>2, <2>4
    <2> QED
      BY <2>3, <2>4
  <1>8. StartsRight(j)' /\ HeldByJob(j)' /\ AccountsForSeen(j)'
    <2>1. job'[j].stage \in {"idle", "next"}
      <3>1. CASE Len(job[j].plan) = 1
        BY <3>1 DEF FinishCatalog, IdleJob, IInv, StatesFit
      <3>2. CASE Len(job[j].plan) # 1
        BY <3>2 DEF FinishCatalog, IdleJob, IInv, StatesFit
      <3> QED
        BY <3>1, <3>2
    <2> QED
      BY <2>1 DEF StartsRight, HeldByJob, AccountsForSeen, Reading
  <1>9. \A i \in Jobs : StartsRight(i)' /\ HeldByJob(i)' /\ AccountsForSeen(i)'
    BY <1>1, <1>7, <1>8, OthersKeep DEF IInv, RunTimes, HeldIsCurrent, SeenIsAccounted
  <1>10. HeldBySweep'
    BY <1>1, <1>2 DEF IInv, HeldIsCurrent, HeldBySweep, StatesFit, SweepStates
  <1>11. ASSUME NEW p \in Pgcs \ missed'[c] PROVE Fresh(c, p)
    <2>1. CASE modTime[p] <= lastUpdate[c]
      BY <1>3, <1>5, <1>11, <2>1 DEF IInv, LastUpdateAccounts
    <2>2. CASE modTime[p] > lastUpdate[c]
      <3>1. modTime[p] > job[j].dt
        <4>1. StartsRight(j) /\ Reading(j)
          BY <1>3 DEF IInv, RunTimes, Reading
        <4>2. modTime[p] \in Nat /\ job[j].dt \in Nat /\ job[j].since \in Nat \cup {None}
          BY <1>3 DEF IInv, TypeOK, JobStates
        <4>3. CASE job[j].since = None
          BY <1>0, <1>3, <1>6, <2>2, <4>1, <4>2, <4>3 DEF StartsRight
        <4>4. CASE job[j].since # None
          <5>1. ~(modTime[p] <= job[j].since)
            BY <1>0, <1>5, <1>11, <2>2, <4>4 DEF SkippedBySince
          <5>2. job[j].dt = job[j].since
            BY <4>1, <4>4 DEF StartsRight
          <5> QED
            BY <4>2, <5>1, <5>2
        <4> QED
          BY <4>3, <4>4
      <3>2. p \in Seen(j) \ (job[j].late \cup missed[c])
        BY <1>3, <1>5, <1>11 DEF Seen
      <3>3. Fresh(c, p) \/ (~job[j].cleanup /\ RowsOf(c, p) = {})
        BY <1>0, <1>3, <3>1, <3>2 DEF IInv, SeenIsAccounted, AccountsForSeen, Pending, Reading
      <3>4. ASSUME ~job[j].cleanup, RowsOf(c, p) = {} PROVE Fresh(c, p)
        <4>1. p \notin Orphaned(c)
          BY <1>0, <1>5, <1>11, <3>4 DEF LeftOrphaned
        <4>2. layer2[c][p] = {}
          BY <3>4, <4>1 DEF Orphaned
        <4> QED
          BY <3>4, <4>2, UsedRows DEF Fresh
      <3> QED
        BY <3>3, <3>4
    <2>3. modTime[p] \in Nat /\ lastUpdate[c] \in Nat
      BY <1>3 DEF IInv, TypeOK
    <2> QED
      BY <2>1, <2>2, <2>3
  <1>12. LastUpdateAccounts'
    <2>1. ASSUME NEW d \in Catalogs \ {c}, NEW p \in Pgcs \ missed'[d],
                 modTime'[p] <= lastUpdate'[d]
          PROVE  Fresh(d, p)'
      BY <1>1, <1>2, <1>5, <2>1 DEF IInv, LastUpdateAccounts, sources
    <2>2. \A p \in Pgcs \ missed'[c] : Fresh(c, p)'
      BY <1>2, <1>3, <1>11
    <2> QED
      BY <2>1, <2>2 DEF LastUpdateAccounts
  <1> QED
    BY <1>7, <1>9, <1>10, <1>12 DEF RunTimes, HeldIsCurrent, SeenIsAccounted

\* The orphan cleanup task removes rows of objects without any in the catalog; what else it
\* removes is missed.
LEMMA SweepKeeps ==
    ASSUME IInv, TypeOK', StartSweep \/ SweepStep \/ CrashSweep
    PROVE  RunTimes' /\ HeldIsCurrent' /\ SeenIsAccounted' /\ LastUpdateAccounts'
  <1>1. UNCHANGED <<sources, job, lastUpdate, clock>>
    BY DEF StartSweep, SweepStep, ScanCatalog, DeleteFromCatalog, CrashSweep
  <1>2. \A d \in Catalogs : \A p \in Pgcs : /\ RowsOf(d, p)' = RowsOf(d, p)
                                            /\ Aggregate(d, p)' = Aggregate(d, p)
    BY <1>1, AggregateFrame DEF sources
  <1>3. sweep \in SweepStates /\ (sweep.stage # "idle" => sweep.todo # <<>>)
    BY DEF IInv, StatesFit
  <1>4. (\A d \in Catalogs : Writes(d)) /\ HeldBySweep'
    <2>1. CASE StartSweep \/ CrashSweep
      <3>1. \A d \in Catalogs : Writes(d)
        BY <2>1 DEF StartSweep, CrashSweep, Writes
      <3>2. \A d \in Catalogs : sweep'.found[d] = {}
        <4>1. sweep'.found = IdleSweep.found
          BY <2>1 DEF StartSweep, CrashSweep, IdleSweep
        <4>2. \A d \in Catalogs : IdleSweep.found[d] = {}
          BY DEF IdleSweep
        <4> QED
          BY <4>1, <4>2
      <3> QED
        BY <3>1, <3>2 DEF HeldBySweep
    <2>2. CASE ScanCatalog
      <3>1. \A d \in Catalogs : Writes(d)
        BY <2>2 DEF ScanCatalog, Writes
      <3>2. /\ sweep'.found = [sweep.found EXCEPT ![sweep.todo[1]] = Orphaned(sweep.todo[1])]
            /\ sweep'.late = sweep.late /\ sweep.stage # "idle"
        BY <1>3, <2>2 DEF ScanCatalog, SweepStates
      <3>3. ASSUME NEW d \in Catalogs, NEW p \in sweep'.found[d] \ sweep'.late
            PROVE  RowsOf(d, p)' = {}
        <4>1. sweep.found \in [Catalogs -> SUBSET Pgcs]
          BY <1>3 DEF SweepStates
        <4>2. CASE d = sweep.todo[1]
          BY <1>2, <3>2, <3>3, <4>1, <4>2 DEF Orphaned
        <4>3. CASE d # sweep.todo[1]
          BY <1>2, <3>2, <3>3, <4>1, <4>3 DEF IInv, HeldIsCurrent, HeldBySweep
        <4> QED
          BY <4>2, <4>3
      <3> QED
        BY <3>1, <3>3 DEF HeldBySweep
    <2>3. CASE DeleteFromCatalog
      <3>0. PICK c, F : c = sweep.todo[1] /\ F = Found
        OBVIOUS
      <3>1. /\ sweep.todo \in Seq(Catalogs) /\ sweep.todo # <<>> /\ c \in Catalogs
            /\ sweep.found \in [Catalogs -> SUBSET Pgcs] /\ sweep.stage # "idle"
        BY <1>3, <2>3, <3>0 DEF DeleteFromCatalog, SweepStates
      <3>2. PICK sound : sound = sweep.found[c] \ sweep.late
        OBVIOUS
      <3>3. /\ layer2' = [layer2 EXCEPT ![c] = Without(c, F)]
            /\ missed' = [missed EXCEPT ![c] =
                   (@ \ sound) \cup {p \in F \ sound : layer2[c][p] # {}}]
        BY <2>3, <3>0, <3>2 DEF DeleteFromCatalog
      <3>4. /\ \A p \in Pgcs : layer2'[c][p] = IF p \in F THEN {} ELSE layer2[c][p]
            /\ missed'[c] = (missed[c] \ sound) \cup {p \in F \ sound : layer2[c][p] # {}}
            /\ \A d \in Catalogs \ {c} : layer2'[d] = layer2[d] /\ missed'[d] = missed[d]
        BY <3>1, <3>3 DEF IInv, TypeOK, Without
      <3>5. sound \subseteq F /\ F \subseteq Pgcs
        BY <3>0, <3>1, <3>2 DEF Found
      <3>6. \A p \in sound : Aggregate(c, p) = {}
        BY <3>1, <3>2, UsedRows DEF IInv, HeldIsCurrent, HeldBySweep
      <3>7. ASSUME NEW p \in Pgcs \ missed'[c]
            PROVE  Fresh(c, p)' \/ (p \notin missed[c] /\ layer2'[c][p] = layer2[c][p])
        <4>1. CASE p \in sound
          <5>1. layer2'[c][p] = {}
            BY <3>4, <3>5, <4>1
          <5>2. Aggregate(c, p)' = {}
            BY <1>2, <3>1, <3>6, <3>7, <4>1
          <5> QED
            BY <5>1, <5>2 DEF Fresh
        <4>2. CASE p \notin sound
          BY <3>4, <3>7, <4>2
        <4> QED
          BY <4>1, <4>2
      <3>8. \A d \in Catalogs : Writes(d)
        BY <3>4, <3>7 DEF Writes
      <3>9. HeldBySweep'
        <4>1. CASE sweep' = IdleSweep
          BY <4>1 DEF HeldBySweep, IdleSweep
        <4>2. CASE sweep' = [sweep EXCEPT !.todo = Tail(@)]
          <5>1. sweep'.found = sweep.found /\ sweep'.late = sweep.late
            BY <1>3, <4>2 DEF SweepStates
          <5> QED
            BY <1>2, <3>1, <5>1 DEF IInv, HeldIsCurrent, HeldBySweep
        <4> QED
          BY <2>3, <4>1, <4>2 DEF DeleteFromCatalog
      <3> QED
        BY <3>8, <3>9
    <2> QED
      BY <2>1, <2>2, <2>3 DEF SweepStep
  <1>5. \A d \in Catalogs : lastUpdate'[d] = lastUpdate[d] /\ lastUpdate[d] <= lastUpdate'[d]
    BY <1>1 DEF IInv, TypeOK
  <1>6. \A i \in Jobs : StartsRight(i)' /\ HeldByJob(i)' /\ AccountsForSeen(i)'
    BY <1>1, <1>4, <1>5, OthersKeep DEF IInv, RunTimes, HeldIsCurrent, SeenIsAccounted
  <1>7. LastUpdateAccounts'
    BY <1>1, <1>4, <1>5, AccountsKept DEF IInv, LastUpdateAccounts
  <1> QED
    BY <1>1, <1>4, <1>6, <1>7 DEF IInv, RunTimes, HeldIsCurrent, SeenIsAccounted

-------------------------------------------------------------------------------
\* The invariant holds at the start: a catalog is empty and never updated, or up to date.
LEMMA InitInvariant == Init => IInv
  <1> SUFFICES ASSUME Init PROVE IInv
    OBVIOUS
  <1>1. TypeOK /\ StatesFit
    BY InitTypes
  <1>2. \A j \in Jobs : job[j].stage = "idle" /\ sweep.stage = "idle"
    BY DEF Init, IdleJob, IdleSweep
  <1>3. HeldBySweep
    BY DEF Init, IdleSweep, HeldBySweep
  <1>4. RunTimes /\ HeldIsCurrent /\ SeenIsAccounted
    <2>1. \A c \in Catalogs : lastUpdate[c] < clock
      BY DEF Init
    <2> QED
      BY <1>2, <1>3, <2>1 DEF RunTimes, StartsRight, HeldIsCurrent, HeldByJob, SeenIsAccounted,
                              AccountsForSeen, Reading
  <1>5. LastUpdateAccounts
    BY DEF Init, LastUpdateAccounts, Fresh
  <1> QED
    BY <1>1, <1>4, <1>5 DEF IInv

LEMMA StepInvariant == IInv /\ [Next]_vars => IInv'
  <1> SUFFICES ASSUME IInv, [Next]_vars PROVE IInv'
    OBVIOUS
  <1>1. TypeOK' /\ StatesFit'
    BY TypeStep DEF IInv
  <1>2. ASSUME NEW j \in Jobs, StartTask(j) \/ RunStep(j) \/ Crash(j)
        PROVE  RunTimes' /\ HeldIsCurrent' /\ SeenIsAccounted' /\ LastUpdateAccounts'
    BY <1>1, <1>2, BeginKeeps, ReadBatchKeeps, SaveBatchKeeps, ReadNothingKeeps,
       FindOrphansKeeps, RemoveOrphansKeeps, FinishCatalogKeeps DEF RunStep
  <1>3. CASE Next
    <2>1. RunTimes' /\ HeldIsCurrent' /\ SeenIsAccounted' /\ LastUpdateAccounts'
      BY <1>1, <1>2, <1>3, EditKeeps, SweepKeeps DEF Next
    <2> QED
      BY <1>1, <2>1 DEF IInv
  <1>4. CASE UNCHANGED vars
    <2>1. UNCHANGED <<sources, layer2, missed, lastUpdate, clock, job, sweep>>
      BY <1>4 DEF vars, sources
    <2>2. \A c \in Catalogs : Writes(c) /\ lastUpdate'[c] = lastUpdate[c] /\ lastUpdate[c] <= lastUpdate'[c]
      BY <2>1, ReadsOnly DEF IInv, TypeOK
    <2>3. \A i \in Jobs : StartsRight(i)' /\ HeldByJob(i)' /\ AccountsForSeen(i)'
      BY <1>1, <2>1, <2>2, OthersKeep DEF IInv, RunTimes, HeldIsCurrent, SeenIsAccounted
    <2>4. HeldBySweep'
      BY <2>1, ReadsOnly DEF IInv, HeldIsCurrent, HeldBySweep, StatesFit, SweepStates
    <2>5. LastUpdateAccounts'
      BY <2>1, <2>2, AccountsKept DEF IInv, LastUpdateAccounts
    <2> QED
      BY <1>1, <2>1, <2>3, <2>4, <2>5 DEF IInv, RunTimes, HeldIsCurrent, SeenIsAccounted
  <1> QED
    BY <1>3, <1>4

\* The inductive invariant holds for all jobs, runs, edits and catalogs: what a task holds
\* is current or noted, and what a run has seen is aggregated, pending or noted.
THEOREM InductiveInvariant == Spec => []IInv
  BY InitInvariant, StepInvariant, PTL DEF Spec

\* The last update of a catalog accounts for every change, for all jobs, runs and edits.
THEOREM LastUpdateAlwaysAccounts == Spec => []LastUpdateAccounts
  <1>1. IInv => LastUpdateAccounts
    BY DEF IInv
  <1> QED
    BY <1>1, InductiveInvariant, PTL

===============================================================================
