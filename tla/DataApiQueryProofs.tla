-------------------------- MODULE DataApiQueryProofs --------------------------
(***************************************************************************)
(* Proofs about DataApiQuery: what an answer shows was in the tables, walks *)
(* in a total order are complete, and joining onto the table a filter is   *)
(* strict on loses nothing.                                                *)
(***************************************************************************)
EXTENDS DataApiQuery, FiniteSetTheorems, SequenceTheorems, TLAPS

(* Orders *)

\* Ordering a finite set enumerates it: each element once, smaller ones first.
THEOREM Enumeration ==
    ASSUME NEW S, IsFiniteSet(S), NEW R,
           \A x \in S : <<x, x>> \notin R,
           \A x, y \in S : x # y => <<x, y>> \in R \/ <<y, x>> \in R,
           \A x, y, z \in S : <<x, y>> \in R /\ <<y, z>> \in R => <<x, z>> \in R
    PROVE  /\ Cardinality(S) \in Nat
           /\ InOrder(S, R) \in Bijection(1..Cardinality(S), S)
           /\ \A i, j \in 1..Cardinality(S) : i < j => <<InOrder(S, R)[i], InOrder(S, R)[j]>> \in R
  <1> DEFINE n == Cardinality(S)
             Below(x) == {y \in S : <<y, x>> \in R}
             rank == [x \in S |-> Cardinality(Below(x))]
             s == InOrder(S, R)
  <1>1. n \in Nat
    BY FS_CardinalityType
  <1>2. \A x \in S : /\ IsFiniteSet(Below(x)) /\ rank[x] = Cardinality(Below(x))
                     /\ rank[x] \in Nat /\ rank[x] < n
    <2> SUFFICES ASSUME NEW x \in S
                 PROVE  /\ IsFiniteSet(Below(x)) /\ Cardinality(Below(x)) \in Nat
                        /\ Cardinality(Below(x)) < n
      OBVIOUS
    <2>1. IsFiniteSet(S \ {x}) /\ Cardinality(S \ {x}) = n - 1
      BY FS_RemoveElement
    <2>2. Below(x) \in SUBSET (S \ {x})
      OBVIOUS
    <2> HIDE DEF Below
    <2>3. IsFiniteSet(Below(x)) /\ Cardinality(Below(x)) <= Cardinality(S \ {x})
      BY <2>1, <2>2, FS_Subset
    <2>4. Cardinality(Below(x)) \in Nat
      BY <2>3, FS_CardinalityType
    <2> HIDE DEF n
    <2> QED
      BY <1>1, <2>1, <2>3, <2>4
  <1> HIDE DEF rank
  <1>3. ASSUME NEW x \in S, NEW y \in S, <<x, y>> \in R PROVE rank[x] < rank[y]
    <2>1. x \notin Below(x) /\ Below(x) \cup {x} \in SUBSET Below(y)
      BY <1>3
    <2> HIDE DEF Below
    <2>2. Cardinality(Below(x) \cup {x}) = rank[x] + 1
      BY <1>2, <2>1, FS_AddElement
    <2>3. Cardinality(Below(x) \cup {x}) <= rank[y]
      BY <1>2, <2>1, FS_Subset
    <2> QED
      BY <1>2, <2>2, <2>3
  <1> HIDE DEF Below
  <1>0. \A x \in S : rank[x] \in Nat /\ rank[x] < n
    BY <1>2
  <1> HIDE DEF n
  <1>4. \A x, y \in S : rank[x] = rank[y] => x = y
    <2> SUFFICES ASSUME NEW x \in S, NEW y \in S, x # y PROVE rank[x] # rank[y]
      OBVIOUS
    <2>1. rank[x] < rank[y] \/ rank[y] < rank[x]
      BY <1>3
    <2> QED
      BY <1>0, <2>1
  <1>5. \A i \in 1..n : \E x \in S : rank[x] = i - 1
    <2>1. rank \in Injection(S, 0 .. n - 1)
      <3>1. rank \in [S -> 0 .. n - 1]
        <4>1. rank = [x \in S |-> rank[x]]
          BY DEF rank
        <4>2. \A x \in S : rank[x] \in 0 .. n - 1
          BY <1>0, <1>1
        <4> QED
          BY <4>1, <4>2
      <3> QED
        BY <1>4, <3>1 DEF Injection, IsInjective
    <2>2. IsFiniteSet(0 .. n - 1) /\ Cardinality(0 .. n - 1) = n
      <3>1. n - 1 \in Int
        BY <1>1
      <3>2. Cardinality(0 .. n - 1) = IF 0 > n - 1 THEN 0 ELSE (n - 1) - 0 + 1
        BY <3>1, FS_Interval
      <3>3. IsFiniteSet(0 .. n - 1)
        BY <3>1, FS_Interval
      <3> QED
        BY <1>1, <3>2, <3>3
    <2>3. rank \in Surjection(S, 0 .. n - 1)
      BY <2>1, <2>2, FS_Injection DEF n
    <2>4. \A i \in 1..n : i - 1 \in 0 .. n - 1
      BY <1>1
    <2> QED
      BY <2>3, <2>4 DEF Surjection
  <1>6. /\ DOMAIN s = 1..n
        /\ \A i \in 1..n : s[i] \in S /\ rank[s[i]] = i - 1
    <2>1. s = [i \in 1..n |-> CHOOSE x \in S : Cardinality(Below(x)) = i - 1]
      BY DEF InOrder, Below, n
    <2> HIDE DEF s
    <2>2. \A i \in 1..n : \E x \in S : Cardinality(Below(x)) = i - 1
      BY <1>2, <1>5
    <2> QED
      BY <1>2, <2>1, <2>2
  <1>7. s \in [1..n -> S]
    <2>1. s = [i \in 1..n |-> CHOOSE x \in S : Cardinality(Below(x)) = i - 1]
      BY DEF InOrder, Below, n
    <2> HIDE DEF s
    <2> QED
      BY <1>6, <2>1
  <1>8. \A i, j \in 1..n : s[i] = s[j] => i = j
    <2> HIDE DEF s, rank
    <2> QED
      BY <1>1, <1>6
  <1>9. \A x \in S : \E i \in 1..n : s[i] = x
    <2> SUFFICES ASSUME NEW x \in S PROVE \E i \in 1..n : s[i] = x
      OBVIOUS
    <2> HIDE DEF s
    <2>1. rank[x] + 1 \in 1..n /\ (rank[x] + 1) - 1 = rank[x]
      BY <1>0, <1>1
    <2>2. s[rank[x] + 1] \in S /\ rank[s[rank[x] + 1]] = rank[x]
      BY <1>6, <2>1
    <2> QED
      BY <1>4, <2>1, <2>2
  <1>10. ASSUME NEW i \in 1..n, NEW j \in 1..n, i < j PROVE <<s[i], s[j]>> \in R
    <2> HIDE DEF s
    <2>1. s[i] \in S /\ s[j] \in S /\ rank[s[i]] < rank[s[j]]
      BY <1>1, <1>6, <1>10
    <2>2. rank[s[i]] \in Int /\ rank[s[j]] \in Int
      BY <1>0, <2>1
    <2>3. <<s[j], s[i]>> \notin R
      BY <1>3, <2>1, <2>2
    <2>4. s[i] # s[j]
      BY <2>1, <2>2
    <2> QED
      BY <2>1, <2>3, <2>4
  <1> HIDE DEF s
  <1>11. s \in Bijection(1..n, S)
    BY <1>7, <1>8, <1>9 DEF Bijection, Injection, Surjection, IsInjective
  <1> QED
    BY <1>1, <1>10, <1>11 DEF n, s

\* The first places of the values of a sequence are places of it, in ascending order.
LEMMA FirstPlacesOf ==
    ASSUME NEW n \in Nat, NEW s, DOMAIN s = 1..n
    PROVE  /\ \E m \in 0..n : FirstPlaces(s) \in [1..m -> 1..n]
           /\ \A i \in 1..n : (\A j \in 1..i - 1 : s[j] # s[i]) => i \in Range(FirstPlaces(s))
  <1> DEFINE new == {i \in DOMAIN s : \A j \in 1..i - 1 : s[j] # s[i]}
             R == {e \in new \X new : e[1] < e[2]}
             m == Cardinality(new)
  <1>1. FirstPlaces(s) = InOrder(new, R)
    BY DEF FirstPlaces
  <1>2. new \in SUBSET (1..n) /\ IsFiniteSet(1..n) /\ Cardinality(1..n) = n
    BY FS_Interval
  <1>3. IsFiniteSet(new) /\ m <= n /\ m \in Nat
    BY <1>2, FS_Subset, FS_CardinalityType
  <1>4. \A x, y \in new : <<x, y>> \in R <=> x < y
    OBVIOUS
  <1>5. \A i \in 1..n : (\A j \in 1..i - 1 : s[j] # s[i]) => i \in new
    OBVIOUS
  <1> HIDE DEF new, R
  <1>6. \A x \in new : x \in Int
    BY <1>2
  <1>7. InOrder(new, R) \in Bijection(1..m, new)
    <2>1. \A x \in new : <<x, x>> \notin R
      BY <1>4, <1>6
    <2>2. \A x, y \in new : x # y => <<x, y>> \in R \/ <<y, x>> \in R
      BY <1>4, <1>6
    <2>3. \A x, y, z \in new : <<x, y>> \in R /\ <<y, z>> \in R => <<x, z>> \in R
      BY <1>4, <1>6
    <2> QED
      BY <1>3, <2>1, <2>2, <2>3, Enumeration
  <1>8. FirstPlaces(s) \in [1..m -> new] /\ \A x \in new : \E k \in 1..m : FirstPlaces(s)[k] = x
    BY <1>1, <1>7 DEF Bijection, Injection, Surjection
  <1>9. FirstPlaces(s) \in [1..m -> 1..n] /\ \A x \in new : x \in Range(FirstPlaces(s))
    BY <1>2, <1>8 DEF Range
  <1> HIDE DEF m
  <1>10. m \in 0..n
    BY <1>3
  <1> QED
    BY <1>5, <1>9, <1>10

\* A sequence of different values has all its places, in their order.
LEMMA DistinctFirstPlaces ==
    ASSUME NEW n \in Nat, NEW s, DOMAIN s = 1..n, \A i, j \in 1..n : s[i] = s[j] => i = j
    PROVE  FirstPlaces(s) = [i \in 1..n |-> i]
  <1> DEFINE new == {i \in DOMAIN s : \A j \in 1..i - 1 : s[j] # s[i]}
             R == {e \in new \X new : e[1] < e[2]}
  <1>1. FirstPlaces(s) = InOrder(new, R)
    BY DEF FirstPlaces
  <1>2. new = 1..n /\ Cardinality(1..n) = n
    BY FS_Interval
  <1>3. \A x \in new : {y \in new : <<y, x>> \in R} = 1..x - 1
    BY <1>2
  <1>4. \A x \in 1..n : Cardinality(1..x - 1) = x - 1
    BY FS_Interval
  <1> HIDE DEF new, R
  <1>5. InOrder(new, R) = [i \in 1..n |-> CHOOSE x \in 1..n : Cardinality({y \in new : <<y, x>> \in R}) = i - 1]
    BY <1>2 DEF InOrder
  <1>6. \A i \in 1..n : (CHOOSE x \in 1..n : Cardinality({y \in new : <<y, x>> \in R}) = i - 1) = i
    <2> SUFFICES ASSUME NEW i \in 1..n
                 PROVE  (CHOOSE x \in 1..n : Cardinality({y \in new : <<y, x>> \in R}) = i - 1) = i
      OBVIOUS
    <2>1. \A x \in 1..n : Cardinality({y \in new : <<y, x>> \in R}) = x - 1
      BY <1>2, <1>3, <1>4
    <2>2. \A x \in 1..n : x - 1 = i - 1 => x = i
      OBVIOUS
    <2>3. \A x \in 1..n : Cardinality({y \in new : <<y, x>> \in R}) = i - 1 <=> x = i
      BY <2>1, <2>2
    <2> QED
      BY <2>3
  <1> QED
    BY <1>1, <1>5, <1>6

\* The catalogs that are resolved are among those asked for.
LEMMA FirstsOf ==
    ASSUME NEW X, NEW s \in Seq(X)
    PROVE  /\ Firsts(s) \in Seq(X) /\ Range(Firsts(s)) \subseteq Range(s)
           /\ s # <<>> => Firsts(s) # <<>>
  <1>1. Len(s) \in Nat /\ DOMAIN s = 1..Len(s) /\ \A i \in 1..Len(s) : s[i] \in X
    OBVIOUS
  <1>2. PICK m \in 0..Len(s) : FirstPlaces(s) \in [1..m -> 1..Len(s)]
    BY <1>1, FirstPlacesOf
  <1>3. /\ DOMAIN Firsts(s) = 1..m
        /\ \A k \in 1..m : Firsts(s)[k] = s[FirstPlaces(s)[k]] /\ FirstPlaces(s)[k] \in 1..Len(s)
        /\ Firsts(s) = [k \in 1..m |-> s[FirstPlaces(s)[k]]]
    BY <1>2 DEF Firsts
  <1>4. Firsts(s) \in Seq(X)
    <2>1. m \in Nat /\ Firsts(s) \in [1..m -> X]
      BY <1>1, <1>2, <1>3
    <2> QED
      BY <2>1
  <1>5. Range(Firsts(s)) \subseteq Range(s)
    BY <1>1, <1>3 DEF Range
  <1>6. s # <<>> => Firsts(s) # <<>>
    <2> SUFFICES ASSUME s # <<>> PROVE Firsts(s) # <<>>
      OBVIOUS
    <2>1. 1 \in 1..Len(s) /\ \A j \in 1..1 - 1 : s[j] # s[1]
      BY <1>1
    <2>2. 1 \in Range(FirstPlaces(s))
      BY <1>1, <2>1, FirstPlacesOf
    <2>3. PICK k \in 1..m : FirstPlaces(s)[k] = 1
      BY <1>2, <2>2 DEF Range
    <2> QED
      BY <1>3, <2>3
  <1> QED
    BY <1>4, <1>5, <1>6

\* sorted() returns the numbers asked for in ascending order, each as often as it was
\* asked for.
LEMMA SortedPgcsOf ==
    ASSUME NEW q, q.pgcs \in Seq(Nat)
    PROVE  /\ SortedPgcs(q) \in Seq(Range(q.pgcs))
           /\ Len(SortedPgcs(q)) = Len(q.pgcs)
           /\ Ascends(SortedPgcs(q), q.pgcs)
  <1> DEFINE s == q.pgcs
             all == DOMAIN s
             n == Len(s)
             R == {e \in all \X all : s[e[1]] < s[e[2]] \/ (s[e[1]] = s[e[2]] /\ e[1] < e[2])}
             places == InOrder(all, R)
  <1>1. n \in Nat /\ all = 1..n /\ \A i \in all : s[i] \in Nat /\ i \in Int
    OBVIOUS
  <1>2. \A i, j \in all : <<i, j>> \in R <=> s[i] < s[j] \/ (s[i] = s[j] /\ i < j)
    OBVIOUS
  <1>3. IsFiniteSet(all) /\ Cardinality(all) = n
    BY <1>1, FS_Interval
  <1>4. SortedPgcs(q) = [k \in DOMAIN places |-> s[places[k]]]
    BY DEF SortedPgcs
  <1> HIDE DEF s, all, n, R
  <1>5. /\ places \in Bijection(1..n, all)
        /\ \A i, j \in 1..n : i < j => <<places[i], places[j]>> \in R
    <2>1. \A x \in all : <<x, x>> \notin R
      BY <1>1, <1>2
    <2>2. \A x, y \in all : x # y => <<x, y>> \in R \/ <<y, x>> \in R
      BY <1>1, <1>2
    <2>3. \A x, y, z \in all : <<x, y>> \in R /\ <<y, z>> \in R => <<x, z>> \in R
      <3> SUFFICES ASSUME NEW x \in all, NEW y \in all, NEW z \in all,
                          <<x, y>> \in R, <<y, z>> \in R
                   PROVE  <<x, z>> \in R
        OBVIOUS
      <3>1. /\ s[x] < s[y] \/ (s[x] = s[y] /\ x < y)
            /\ s[y] < s[z] \/ (s[y] = s[z] /\ y < z)
        BY <1>2
      <3>2. /\ s[x] \in Nat /\ s[y] \in Nat /\ s[z] \in Nat
            /\ x \in Int /\ y \in Int /\ z \in Int
        BY <1>1
      <3>3. s[x] < s[z] \/ (s[x] = s[z] /\ x < z)
        BY <3>1, <3>2
      <3> QED
        BY <1>2, <3>3
    <2> QED
      BY <1>3, <2>1, <2>2, <2>3, Enumeration
  <1> HIDE DEF places
  <1>6. DOMAIN places = 1..n /\ \A i \in 1..n : places[i] \in all
    BY <1>5 DEF Bijection, Injection
  <1>7. SortedPgcs(q) \in [1..n -> Range(s)]
    BY <1>1, <1>4, <1>6 DEF Range, all
  <1>8. SortedPgcs(q) \in Seq(Range(s)) /\ Len(SortedPgcs(q)) = n
    BY <1>1, <1>7
  <1>9. \A i, j \in 1..n : i < j => SortedPgcs(q)[i] <= SortedPgcs(q)[j]
    <2> SUFFICES ASSUME NEW i \in 1..n, NEW j \in 1..n, i < j
                 PROVE  s[places[i]] <= s[places[j]]
      BY <1>4, <1>6
    <2>1. s[places[i]] < s[places[j]] \/ s[places[i]] = s[places[j]]
      BY <1>2, <1>5, <1>6
    <2> QED
      BY <1>1, <1>6, <2>1
  <1>10. Ascends(SortedPgcs(q), s)
    <2>1. DOMAIN SortedPgcs(q) = 1..n
      BY <1>7
    <2>2. places \in Bijection(DOMAIN SortedPgcs(q), DOMAIN s)
      BY <1>5, <2>1 DEF all
    <2>3. \A i \in DOMAIN SortedPgcs(q) : SortedPgcs(q)[i] = s[places[i]]
      BY <1>4, <1>6, <2>1
    <2> QED
      BY <1>9, <2>1, <2>2, <2>3 DEF Ascends
  <1> QED
    BY <1>8, <1>10 DEF s, n

\* A set of numbers that is not empty has a least one.
LEMMA LeastNumber ==
    ASSUME NEW S, S # {}, \A x \in S : x \in Nat
    PROVE  \E x \in S : \A y \in S : x <= y
  <1>1. \E x \in S : \A y \in S : ~(<<y, x>> \in OpToRel(<, Nat))
    BY NatLessThanWellFounded, WFMin
  <1>2. PICK x \in S : \A y \in S : ~(<<y, x>> \in OpToRel(<, Nat))
    BY <1>1
  <1>3. \A y \in S : ~(y < x)
    BY <1>2 DEF OpToRel
  <1>4. \A y \in S : x <= y
    BY <1>3
  <1> QED
    BY <1>4

-------------------------------------------------------------------------------
(* Tables, rows and joins *)

LEMMA TableNames ==
    /\ Tables = {"designation", "additional_designations", "icrs", "redshift", "nature",
                 "note", "photometry_total"}
    /\ Range(EnabledCatalogs) = {"designation", "icrs", "redshift", "nature"}
  <1>1. DOMAIN CatalogsForPgcQuery = 1..7 /\ DOMAIN EnabledCatalogs = 1..4
    BY DEF CatalogsForPgcQuery, EnabledCatalogs
  <1>2. 1..7 = {1, 2, 3, 4, 5, 6, 7} /\ 1..4 = {1, 2, 3, 4}
    OBVIOUS
  <1>3. Tables = {CatalogsForPgcQuery[i] : i \in {1, 2, 3, 4, 5, 6, 7}}
    BY <1>1, <1>2 DEF Tables, Range
  <1>4. Range(EnabledCatalogs) = {EnabledCatalogs[i] : i \in {1, 2, 3, 4}}
    BY <1>1, <1>2 DEF Range
  <1> QED
    BY <1>3, <1>4 DEF CatalogsForPgcQuery, EnabledCatalogs

LEMMA NoneIsApart == \A t \in Tables : None \notin ValuesOf(t)
  BY NoneIsNoNumber, NoneIsNoValue, BoundsAreNumbers, TableNames DEF ValuesOf

LEMMA RowShape ==
    /\ \A r \in Rows : /\ r.table \in Tables /\ r.pgc \in Pgcs /\ r.value \in ValuesOf(r.table)
                       /\ r = [table |-> r.table, pgc |-> r.pgc, value |-> r.value]
    /\ \A t \in Tables, p \in Pgcs : \A v \in ValuesOf(t) :
          [table |-> t, pgc |-> p, value |-> v] \in Rows
  BY DEF Rows

LEMMA CellsOf ==
    ASSUME rows \subseteq Rows, NEW t \in Tables, NEW p
    PROVE  /\ \A v : v \in Cells(t, p) <=> [table |-> t, pgc |-> p, value |-> v] \in rows
           /\ Cells(t, p) \subseteq ValuesOf(t) /\ None \notin Cells(t, p)
  <1>1. \A v \in Cells(t, p) : \E r \in rows : r.table = t /\ r.pgc = p /\ r.value = v
    BY DEF Cells
  <1>2. \A v : [table |-> t, pgc |-> p, value |-> v] \in rows => v \in Cells(t, p)
    <2> SUFFICES ASSUME NEW v, [table |-> t, pgc |-> p, value |-> v] \in rows
                 PROVE  v \in Cells(t, p)
      OBVIOUS
    <2>1. PICK r \in rows : r = [table |-> t, pgc |-> p, value |-> v]
      OBVIOUS
    <2>2. r \in {x \in rows : x.table = t /\ x.pgc = p} /\ r.value = v
      BY <2>1
    <2> QED
      BY <2>2 DEF Cells
  <1>3. \A v \in Cells(t, p) : [table |-> t, pgc |-> p, value |-> v] \in rows /\ v \in ValuesOf(t)
    BY <1>1, RowShape
  <1> QED
    BY <1>2, <1>3, NoneIsApart

\* A row of a join has a value in every table.
LEMMA ColumnsOf ==
    ASSUME NEW values
    PROVE  /\ \A a \in Columns(values) :
                 DOMAIN a = Tables /\ (\A t \in Tables : a[t] \in values[t])
           /\ \A a, b \in Columns(values) : (\A t \in Tables : a[t] = b[t]) => a = b
           /\ \A a : (a = [t \in Tables |-> a[t]] /\ \A t \in Tables : a[t] \in values[t])
                        => a \in Columns(values)
  <1>1. \A a \in Columns(values) :
           DOMAIN a = Tables /\ (\A t \in Tables : a[t] \in values[t])
    BY TableNames DEF Columns
  <1>2. \A a, b \in Columns(values) : (\A t \in Tables : a[t] = b[t]) => a = b
    BY TableNames DEF Columns
  <1>3. \A a : (a = [t \in Tables |-> a[t]] /\ \A t \in Tables : a[t] \in values[t])
                  => a \in Columns(values)
    BY TableNames DEF Columns
  <1> QED
    BY <1>1, <1>2, <1>3

LEMMA CombinedOf ==
    ASSUME rows \subseteq Rows, NEW ts, NEW p \in Pgcs, NEW row \in Combined(ts, p)
    PROVE  /\ row \in JoinRows /\ row.pgc = p
           /\ \A t \in Tables : row.at[t] \in JoinedCells(ts, t, p)
           /\ row = [pgc |-> p, at |-> row.at]
  <1> DEFINE cells == [t \in Tables |-> JoinedCells(ts, t, p)]
             all == [t \in Tables |-> ValuesOf(t) \cup {None}]
  <1>1. row.pgc = p /\ row.at \in Columns(cells) /\ row = [pgc |-> p, at |-> row.at]
    BY DEF Combined
  <1>2. DOMAIN row.at = Tables /\ \A t \in Tables : row.at[t] \in JoinedCells(ts, t, p)
    BY <1>1, ColumnsOf
  <1>3. \A t \in Tables : JoinedCells(ts, t, p) \subseteq ValuesOf(t) \cup {None}
    BY CellsOf DEF JoinedCells
  <1>4. row.at = [t \in Tables |-> row.at[t]]
    BY <1>1, TableNames DEF Columns
  <1>5. row.at \in Columns(all)
    <2>1. \A t \in Tables : row.at[t] \in all[t]
      BY <1>2, <1>3
    <2> QED
      BY <1>4, <2>1, ColumnsOf
  <1> QED
    BY <1>1, <1>2, <1>5 DEF JoinRows

\* The rows of a statement are finitely many.
LEMMA JoinRowsFinite == IsFiniteSet(JoinRows)
  <1> DEFINE V == ((Designations \cup 0..Reach + 1) \cup {Plain}) \cup {None}
             all == [t \in Tables |-> ValuesOf(t) \cup {None}]
             T == Pgcs \X SUBSET (Tables \X V)
             f == [row \in JoinRows |-> <<row.pgc, {<<t, row.at[t]>> : t \in Tables}>>]
  <1>1. IsFiniteSet(V)
    <2>1. IsFiniteSet(0..Reach + 1)
      BY BoundsAreNumbers, FS_Interval
    <2>2. IsFiniteSet(Designations \cup 0..Reach + 1)
      BY <2>1, NamesAreFinite, FS_Union
    <2>3. IsFiniteSet((Designations \cup 0..Reach + 1) \cup {Plain})
      BY <2>2, FS_AddElement
    <2> QED
      BY <2>3, FS_AddElement
  <1>2. IsFiniteSet(Tables)
    <2>1. /\ IsFiniteSet({"designation"})
          /\ IsFiniteSet({"designation"} \cup {"additional_designations"})
      BY FS_Singleton, FS_AddElement
    <2>2. IsFiniteSet(({"designation"} \cup {"additional_designations"}) \cup {"icrs"})
      BY <2>1, FS_AddElement
    <2>3. IsFiniteSet((({"designation"} \cup {"additional_designations"}) \cup {"icrs"})
                        \cup {"redshift"})
      BY <2>2, FS_AddElement
    <2>4. /\ IsFiniteSet({"nature"}) /\ IsFiniteSet({"nature"} \cup {"note"})
      BY FS_Singleton, FS_AddElement
    <2>5. IsFiniteSet(({"nature"} \cup {"note"}) \cup {"photometry_total"})
      BY <2>4, FS_AddElement
    <2>6. Tables = ((({"designation"} \cup {"additional_designations"}) \cup {"icrs"})
                        \cup {"redshift"})
                   \cup (({"nature"} \cup {"note"}) \cup {"photometry_total"})
      BY TableNames
    <2> QED
      BY <2>3, <2>5, <2>6, FS_Union
  <1>3. IsFiniteSet(T)
    <2>1. IsFiniteSet(Tables \X V)
      BY <1>1, <1>2, FS_Product
    <2> HIDE DEF V
    <2>2. IsFiniteSet(SUBSET (Tables \X V))
      BY <2>1, FS_SUBSET
    <2> QED
      BY <2>2, PgcsAreNumbers, FS_Product
  <1>4. \A t \in Tables : ValuesOf(t) \cup {None} \subseteq V
    BY DEF ValuesOf
  <1> HIDE DEF V
  <1>5. \A row \in JoinRows : /\ row.pgc \in Pgcs /\ row.at \in Columns(all)
                              /\ row = [pgc |-> row.pgc, at |-> row.at]
    BY DEF JoinRows
  <1>6. \A row \in JoinRows : \A t \in Tables : row.at[t] \in V
    BY <1>4, <1>5, ColumnsOf
  <1>7. f \in [JoinRows -> T]
    <2> SUFFICES ASSUME NEW row \in JoinRows
                 PROVE  <<row.pgc, {<<t, row.at[t]>> : t \in Tables}>> \in T
      OBVIOUS
    <2>1. {<<t, row.at[t]>> : t \in Tables} \subseteq Tables \X V
      BY <1>6
    <2> QED
      BY <1>5, <2>1
  <1>0. \A a, b \in Columns(all) : (\A t \in Tables : a[t] = b[t]) => a = b
    BY ColumnsOf
  <1> HIDE DEF all
  <1>8. ASSUME NEW r \in JoinRows, NEW x \in JoinRows, f[r] = f[x] PROVE r = x
    <2>1. r.pgc = x.pgc /\ {<<t, r.at[t]>> : t \in Tables} = {<<t, x.at[t]>> : t \in Tables}
      BY <1>8
    <2>2. \A t \in Tables : r.at[t] = x.at[t]
      <3> SUFFICES ASSUME NEW t \in Tables PROVE r.at[t] = x.at[t]
        OBVIOUS
      <3>1. PICK u \in Tables : <<t, r.at[t]>> = <<u, x.at[u]>>
        BY <2>1
      <3> QED
        BY <3>1
    <2>3. r.at = x.at
      BY <1>0, <1>5, <2>2
    <2> QED
      BY <1>5, <2>1, <2>3
  <1> HIDE DEF f, T
  <1>9. f \in Injection(JoinRows, T)
    <2>1. DOMAIN f = JoinRows
      BY <1>7
    <2> QED
      BY <1>7, <1>8, <2>1 DEF Injection, IsInjective
  <1> QED
    BY <1>3, <1>9, FS_Injection

-------------------------------------------------------------------------------
(* Filters *)

\* A filter is strict on the table that drives it: it never holds for an object that is
\* missing from that table.
THEOREM DrivingTableIsStrict ==
    ASSUME NEW f \in Filters, DrivingTable(f) # None, NEW row \in JoinRows, Matches(f, row)
    PROVE  DrivingTable(f) \in Tables /\ row.at[DrivingTable(f)] # None
  <1> DEFINE Strict(g) == DrivingTable(g) # None =>
                             /\ DrivingTable(g) \in Tables
                             /\ \A x \in JoinRows : Matches(g, x) => x.at[DrivingTable(g)] # None
             loose == {g \in Filters : ~Strict(g)}
             heights == {Height(g) : g \in loose}
  \* A filter whose parts are strict is strict.
  <1>1. ASSUME NEW g \in Filters, \A i \in DOMAIN g.parts : Strict(g.parts[i]) PROVE Strict(g)
    <2> DEFINE of == [i \in DOMAIN g.parts |-> DrivingTable(g.parts[i])]
    <2> SUFFICES ASSUME DrivingTable(g) # None
                 PROVE  /\ DrivingTable(g) \in Tables
                        /\ \A x \in JoinRows : Matches(g, x) => x.at[DrivingTable(g)] # None
      OBVIOUS
    <2>1. /\ g.kind \in {"leaf", "and", "or"} /\ g.on \in Tables \cup {None}
          /\ None \notin g.accepts /\ g.parts \in Seq(Filters)
          /\ DrivingTable(g) = Drives(g, of)
      BY FiltersUnfold
    <2>2. \A x \in JoinRows :
             Matches(g, x) => Holds(g, x, {i \in DOMAIN g.parts : Matches(g.parts[i], x)})
      BY MatchesUnfold
    <2>3. DOMAIN of = DOMAIN g.parts /\ \A i \in DOMAIN g.parts : of[i] = DrivingTable(g.parts[i])
      OBVIOUS
    <2> HIDE DEF of
    <2>4. CASE g.kind = "leaf"
      <3>1. DrivingTable(g) = g.on
        BY <2>1, <2>4 DEF Drives
      <3>2. \A x \in JoinRows : Matches(g, x) => x.at[g.on] \in g.accepts
        BY <2>2, <2>4, <3>1 DEF Holds
      <3> QED
        BY <2>1, <3>1, <3>2
    <2>5. CASE g.kind = "and"
      <3>1. PICK i \in DOMAIN g.parts : DrivingTable(g) = DrivingTable(g.parts[i])
        <4> DEFINE strict == {i \in DOMAIN of : of[i] # None}
                   first == CHOOSE i \in strict : \A j \in strict : i <= j
        <4>1. DrivingTable(g) = IF strict = {} THEN None ELSE of[first]
          BY <2>1, <2>5 DEF Drives
        <4>2. strict # {} /\ DrivingTable(g) = of[first]
          BY <4>1
        <4>3. first \in DOMAIN of
          <5>1. \A i \in strict : i \in Nat
            BY <2>1, <2>3
          <5>2. PICK i \in strict : \A j \in strict : i <= j
            BY <4>2, <5>1, LeastNumber
          <5> HIDE DEF strict
          <5>3. first \in strict
            BY <5>2
          <5> QED
            BY <5>3 DEF strict
        <4> QED
          BY <2>3, <4>2, <4>3
      <3>2. \A x \in JoinRows : Matches(g, x) => Matches(g.parts[i], x)
        BY <2>2, <2>5 DEF Holds
      <3> QED
        BY <1>1, <3>1, <3>2
    <2>6. CASE g.kind = "or"
      <3>1. of # <<>> /\ \A i \in DOMAIN of : of[i] = DrivingTable(g)
        BY <2>1, <2>6 DEF Drives
      <3>2. DOMAIN of # {}
        <4>1. of = [i \in 1..Len(g.parts) |-> of[i]] /\ Len(g.parts) \in Nat /\ DOMAIN of = 1..Len(g.parts)
          BY <2>1 DEF of
        <4>2. Len(g.parts) # 0
          BY <3>1, <4>1
        <4> QED
          BY <4>1, <4>2
      <3>3. \A x \in JoinRows : Matches(g, x) => \E i \in DOMAIN g.parts : Matches(g.parts[i], x)
        <4>1. g.parts # <<>>
          BY <2>1, <2>3, <3>2
        <4> QED
          BY <2>2, <2>6, <4>1 DEF Holds
      <3> QED
        BY <1>1, <2>3, <3>1, <3>2, <3>3
    <2> QED
      BY <2>1, <2>4, <2>5, <2>6
  \* A lowest filter that is not would have strict parts.
  <1>2. loose = {}
    <2> SUFFICES ASSUME loose # {} PROVE FALSE
      OBVIOUS
    <2>1. \A h \in heights : h \in Nat
      BY FiltersUnfold
    <2>2. PICK h \in heights : \A k \in heights : h <= k
      BY <2>1, LeastNumber
    <2>3. PICK g \in loose : Height(g) = h
      BY <2>2
    <2>4. \A i \in DOMAIN g.parts : g.parts[i] \in Filters /\ Height(g.parts[i]) < Height(g)
      <3>1. g \in Filters
        OBVIOUS
      <3>2. g.parts \in Seq(Filters) /\ \A i \in DOMAIN g.parts : Height(g.parts[i]) < Height(g)
        BY <3>1, FiltersUnfold
      <3>3. \A i \in DOMAIN g.parts : g.parts[i] \in Filters
        BY <3>2
      <3> QED
        BY <3>2, <3>3
    <2>5. \A i \in DOMAIN g.parts : Height(g.parts[i]) \in Nat /\ Height(g) \in Nat
      BY <2>4, FiltersUnfold
    <2> HIDE DEF Strict
    <2>6. \A i \in DOMAIN g.parts : g.parts[i] \notin loose
      <3> SUFFICES ASSUME NEW i \in DOMAIN g.parts, g.parts[i] \in loose PROVE FALSE
        OBVIOUS
      <3>1. Height(g) <= Height(g.parts[i])
        BY <2>2, <2>3
      <3> QED
        BY <2>4, <2>5, <3>1
    <2> QED
      BY <1>1, <2>3, <2>4, <2>6
  <1> QED
    BY <1>2

-------------------------------------------------------------------------------
(* What a search finds *)

\* Left joins onto the table a filter is strict on find what a full join would.
LEMMA JoinEquivalence ==
    ASSUME rows \subseteq Rows, NEW f \in Filters, NEW cats, DrivingTable(f) # None
    PROVE  Matching(f, cats) = {row \in FullJoin(Range(cats) \cup {DrivingTable(f)}) : Matches(f, row)}
  <1> DEFINE d == DrivingTable(f)
             ts == Range(cats) \cup {d}
  <1>1. JoinedRows(f, cats) = UNION {Combined(ts, p) : p \in Present(d)}
    BY DEF JoinedRows
  <1>2. FullJoin(ts) = UNION {Combined(ts, p) : p \in UNION {Present(t) : t \in ts}}
    BY DEF FullJoin
  <1>3. d \in ts /\ Present(d) \subseteq UNION {Present(t) : t \in ts}
    OBVIOUS
  <1>4. \A t : Present(t) \subseteq Pgcs
    BY DEF Present
  <1> HIDE DEF ts, d
  <1>5. ASSUME NEW row \in FullJoin(ts), Matches(f, row) PROVE row \in JoinedRows(f, cats)
    <2>1. PICK t \in ts : \E p \in Present(t) : row \in Combined(ts, p)
      BY <1>2, <1>5
    <2>2. PICK p \in Present(t) : row \in Combined(ts, p)
      BY <2>1
    <2>3. row \in JoinRows /\ \A u \in Tables : row.at[u] \in JoinedCells(ts, u, p)
      BY <1>4, <2>2, CombinedOf
    <2>4. d \in Tables /\ row.at[d] # None
      BY <1>5, <2>3, DrivingTableIsStrict DEF d
    <2>5. Cells(d, p) # {}
      BY <2>3, <2>4 DEF JoinedCells
    <2>6. p \in Present(d)
      BY <1>4, <2>2, <2>5 DEF Present
    <2> QED
      BY <1>1, <2>2, <2>6
  <1>6. JoinedRows(f, cats) \subseteq FullJoin(ts)
    BY <1>1, <1>2, <1>3
  <1> QED
    BY <1>5, <1>6 DEF Matching, d, ts

\* Every value an object has in a joined table is in a row of the join.
LEMMA CombinedWith ==
    ASSUME NEW ts, NEW p \in Pgcs, NEW t \in ts \cap Tables, NEW v \in Cells(t, p)
    PROVE  \E row \in Combined(ts, p) : row.at[t] = v
  <1> DEFINE cells == [u \in Tables |-> JoinedCells(ts, u, p)]
             a == [u \in Tables |-> IF u = t THEN v ELSE CHOOSE w \in JoinedCells(ts, u, p) : TRUE]
  <1>1. \A u \in Tables : (CHOOSE w \in JoinedCells(ts, u, p) : TRUE) \in JoinedCells(ts, u, p)
    <2>1. \A u \in Tables : \E w : w \in JoinedCells(ts, u, p)
      BY DEF JoinedCells
    <2> QED
      BY <2>1
  <1>2. v \in JoinedCells(ts, t, p)
    BY DEF JoinedCells
  <1>3. \A u \in Tables : a[u] \in cells[u]
    BY <1>1, <1>2
  <1>4. a = [u \in Tables |-> a[u]] /\ a[t] = v
    OBVIOUS
  <1> HIDE DEF a
  <1>5. a \in Columns(cells)
    BY <1>3, <1>4, ColumnsOf
  <1>6. [pgc |-> p, at |-> a] \in Combined(ts, p)
    BY <1>5 DEF Combined
  <1> QED
    BY <1>4, <1>6

LEMMA ResolvedCatalogs ==
    ASSUME NEW q \in Queries, ResolvableCatalogs(q)
    PROVE  /\ ResolveQueryCatalogs(q) \in Seq(Tables) /\ ResolveQueryCatalogs(q) # <<>>
           /\ Range(ResolveQueryCatalogs(q)) \subseteq Tables
           /\ q.pgcs = <<>> => Range(ResolveQueryCatalogs(q)) \subseteq Range(EnabledCatalogs)
  <1>1. /\ CatalogsForPgcQuery \in Seq(Tables) /\ CatalogsForPgcQuery # <<>>
        /\ EnabledCatalogs \in Seq(Tables) /\ EnabledCatalogs # <<>>
    BY TableNames DEF CatalogsForPgcQuery, EnabledCatalogs
  <1>2. DefaultCatalogs(q) \in Seq(Tables) /\ DefaultCatalogs(q) # <<>>
    BY <1>1 DEF DefaultCatalogs
  <1>3. \A s \in Seq(Tables) : Range(s) \subseteq Tables
    BY DEF Range
  <1>4. CASE q.catalogs = None
    BY <1>2, <1>3, <1>4 DEF ResolveQueryCatalogs, DefaultCatalogs
  <1>5. CASE q.catalogs # None
    <2>1. q.catalogs \in Seq(Tables) /\ q.catalogs # <<>>
      BY <1>5, QueriesFit DEF ResolvableCatalogs
    <2>2. /\ Firsts(q.catalogs) \in Seq(Tables) /\ Firsts(q.catalogs) # <<>>
          /\ Range(Firsts(q.catalogs)) \subseteq Range(q.catalogs)
      BY <2>1, FirstsOf
    <2>3. Range(q.catalogs) \subseteq Range(DefaultCatalogs(q))
      BY <1>5 DEF ResolvableCatalogs
    <2> QED
      BY <1>3, <1>5, <2>2, <2>3 DEF ResolveQueryCatalogs, DefaultCatalogs
  <1> QED
    BY <1>4, <1>5

LEMMA LeafUnfolds ==
    ASSUME NEW f \in Filters, f.kind = "leaf"
    PROVE  /\ TablesOf(f) = {f.on} \ {None} /\ DrivingTable(f) = f.on
           /\ \A row \in JoinRows :
                 Matches(f, row) <=> (IF f.on = None THEN row.pgc ELSE row.at[f.on]) \in f.accepts
  <1>1. TablesOf(f) = {f.on} \ {None}
    BY FiltersUnfold DEF Mentions
  <1>2. DrivingTable(f) = f.on
    BY FiltersUnfold DEF Drives
  <1>3. ASSUME NEW row \in JoinRows
        PROVE  Matches(f, row) <=> (IF f.on = None THEN row.pgc ELSE row.at[f.on]) \in f.accepts
    BY MatchesUnfold DEF Holds
  <1> QED
    BY <1>1, <1>2, <1>3

\* A search around a centre that is accepted has no condition on the name, whose table
\* is not among those of a search.  It is driven by the positions.
LEMMA ConeFilter ==
    ASSUME NEW q \in Queries, ResolvableCatalogs(q), q.pgcs = <<>>, HasCenter(q),
           Answerable(BuildFilters(q), ResolveQueryCatalogs(q))
    PROVE  /\ DrivingTable(BuildFilters(q)) = "icrs"
           /\ \A row \in JoinRows : Matches(BuildFilters(q), row) <=> row.at["icrs"] \in 0..Reach
  <1> DEFINE f == BuildFilters(q)
             cone == CoordinatesInRadius
             tables == [i \in DOMAIN f.parts |-> TablesOf(f.parts[i])]
             driven == [i \in DOMAIN f.parts |-> DrivingTable(f.parts[i])]
  <1>1. f \in Filters
    BY FiltersOfQueries
  <1>2. f.kind = "and" /\ f.parts = <<cone>> \o (IF q.name = None THEN <<>> ELSE <<DesignationLike(q.name)>>)
    BY DEF BuildFilters, Pair
  <1>3. 1 \in DOMAIN f.parts /\ f.parts[1] = cone
    BY <1>2
  <1>4. /\ f.parts \in Seq(Filters) /\ TablesOf(f) = Mentions(f, tables)
        /\ DrivingTable(f) = Drives(f, driven)
    BY <1>1, FiltersUnfold
  <1>5. \A row \in JoinRows : Matches(f, row) <=> Holds(f, row, {i \in DOMAIN f.parts : Matches(f.parts[i], row)})
    BY <1>1, MatchesUnfold
  <1>6. \A i \in DOMAIN f.parts : f.parts[i] \in Filters
    BY <1>4
  <1>7. cone \in Filters /\ cone.kind = "leaf" /\ cone.on = "icrs" /\ cone.accepts = 0..Reach
    BY <1>3, <1>6 DEF CoordinatesInRadius, Leaf
  <1> HIDE DEF f, cone
  <1>8. "icrs" \in Tables /\ "additional_designations" \in Tables /\ None \notin Tables
    BY TableNames, NoneIsNoTable
  <1>9. /\ DrivingTable(cone) = "icrs"
        /\ \A row \in JoinRows : Matches(cone, row) <=> row.at["icrs"] \in 0..Reach
    BY <1>7, <1>8, LeafUnfolds
  <1>10. DrivingTable(f) = "icrs"
    <2> DEFINE strict == {i \in DOMAIN driven : driven[i] # None}
               first == CHOOSE i \in strict : \A j \in strict : i <= j
    <2>1. DrivingTable(f) = IF strict = {} THEN None ELSE driven[first]
      BY <1>2, <1>4 DEF Drives
    <2>2. 1 \in strict /\ driven[1] = "icrs"
      BY <1>3, <1>8, <1>9
    <2>3. \A i \in strict : i \in Nat /\ 1 <= i
      BY <1>4
    <2> HIDE DEF strict
    <2>4. first = 1
      <3>1. first \in strict /\ \A j \in strict : first <= j
        BY <2>2, <2>3
      <3> QED
        BY <2>2, <2>3, <3>1
    <2> QED
      BY <2>1, <2>2, <2>4
  <1>11. q.name = None
    <2> SUFFICES ASSUME q.name # None PROVE FALSE
      OBVIOUS
    <2> DEFINE like == DesignationLike(q.name)
    <2>1. 2 \in DOMAIN f.parts /\ f.parts[2] = like
      BY <1>2
    <2>2. like \in Filters /\ like.kind = "leaf" /\ like.on = "additional_designations"
      BY <1>6, <2>1 DEF DesignationLike, Leaf
    <2> HIDE DEF like
    <2>3. TablesOf(like) = {"additional_designations"}
      BY <1>8, <2>2, LeafUnfolds
    <2>4. tables[2] = {"additional_designations"} /\ tables[2] \in Range(tables)
      BY <2>1, <2>3 DEF Range
    <2>5. "additional_designations" \in TablesOf(f)
      BY <1>2, <1>4, <2>4 DEF Mentions
    <2>6. TablesOf(f) \subseteq Range(ResolveQueryCatalogs(q)) \cup {"icrs"}
      BY <1>10 DEF Answerable, f
    <2> QED
      BY <2>5, <2>6, ResolvedCatalogs, TableNames
  <1>12. \A row \in JoinRows : Matches(f, row) <=> Matches(cone, row)
    <2>1. f.parts = <<cone>>
      BY <1>2, <1>11
    <2>2. DOMAIN f.parts = {1}
      BY <2>1
    <2> QED
      BY <1>2, <1>3, <1>5, <2>2 DEF Holds
  <1> QED
    BY <1>9, <1>10, <1>12 DEF f

\* A table that is no view has at most one value of an object.
LEMMA OneCell ==
    ASSUME rows \subseteq Rows, Keyed(rows), NEW t \in Tables, t \notin Views, NEW p,
           NEW v \in Cells(t, p), NEW w \in Cells(t, p)
    PROVE  v = w
  <1>1. PICK r \in rows, x \in rows :
           /\ r = [table |-> t, pgc |-> p, value |-> v] /\ x = [table |-> t, pgc |-> p, value |-> w]
    BY CellsOf
  <1>2. r = x
    BY <1>1 DEF Keyed
  <1> QED
    BY <1>1, <1>2

\* The rows a search around a centre finds: one of each object that is expected, at its
\* distance, in the order of the statement.
LEMMA ConeRows ==
    ASSUME rows \subseteq Rows, Keyed(rows),
           NEW q \in Queries, ResolvableCatalogs(q), q.pgcs = <<>>, HasCenter(q),
           Answerable(BuildFilters(q), ResolveQueryCatalogs(q)),
           NEW M, M = Matching(BuildFilters(q), ResolveQueryCatalogs(q))
    PROVE  /\ M \subseteq JoinRows
           /\ \A row \in M : row.pgc \in Expected(q) /\ row.at["icrs"] = Distance(row.pgc)
           /\ \A p \in Expected(q) : \E row \in M : row.pgc = p
           /\ \A a, b \in M : a.pgc = b.pgc => a = b
  <1> DEFINE f == BuildFilters(q)
             cats == ResolveQueryCatalogs(q)
             ts == Range(cats) \cup {"icrs"}
             within == {p \in Pgcs : \E d \in Cells("icrs", p) : d \in 0..Reach}
  <1>1. /\ DrivingTable(f) = "icrs"
        /\ \A row \in JoinRows : Matches(f, row) <=> row.at["icrs"] \in 0..Reach
    BY ConeFilter
  <1>2. "icrs" \in Tables /\ "icrs" # None /\ "icrs" \notin Views /\ "icrs" \in ts
    BY TableNames, NoneIsNoTable DEF Views
  <1>3. JoinedRows(f, cats) = UNION {Combined(ts, p) : p \in Present("icrs")}
    BY <1>1, <1>2 DEF JoinedRows
  <1>4. \A p \in Present("icrs") : p \in Pgcs
    BY DEF Present
  <1>5. ts \subseteq Tables \ Views
    BY ResolvedCatalogs, TableNames DEF Views
  <1>6. None \notin 0..Reach
    BY NoneIsNoNumber, BoundsAreNumbers
  <1>7. \A p \in Pgcs : \A v, w \in Cells("icrs", p) : v = w
    BY <1>2, OneCell
  <1>8. \A p \in Pgcs : \A d \in Cells("icrs", p) : Distance(p) = d
    BY <1>7 DEF Distance
  <1> HIDE DEF f, cats, ts
  <1>9. ASSUME NEW row \in M
        PROVE  \E p \in within : row \in Combined(ts, p) /\ row.at["icrs"] \in Cells("icrs", p)
    <2>1. row \in JoinedRows(f, cats) /\ Matches(f, row)
      BY <1>9 DEF Matching, f, cats
    <2>2. PICK p \in Present("icrs") : row \in Combined(ts, p)
      BY <1>3, <2>1
    <2>3. row \in JoinRows /\ row.at["icrs"] \in JoinedCells(ts, "icrs", p)
      BY <1>2, <1>4, <2>2, CombinedOf
    <2>4. row.at["icrs"] \in 0..Reach
      BY <1>1, <2>1, <2>3
    <2>5. row.at["icrs"] \in Cells("icrs", p)
      BY <1>6, <2>3, <2>4 DEF JoinedCells
    <2> QED
      BY <1>4, <2>2, <2>4, <2>5
  <1>10. \A p \in within : \E row \in M : row.pgc = p
    <2> SUFFICES ASSUME NEW p \in within PROVE \E row \in M : row.pgc = p
      OBVIOUS
    <2>1. PICK d \in Cells("icrs", p) : d \in 0..Reach
      OBVIOUS
    <2>2. PICK row \in Combined(ts, p) : row.at["icrs"] = d
      BY <1>2, CombinedWith
    <2>3. row \in JoinRows /\ row.pgc = p
      BY CombinedOf
    <2>4. p \in Present("icrs")
      BY <2>1 DEF Present
    <2>5. row \in JoinedRows(f, cats)
      BY <1>3, <2>2, <2>4
    <2>6. Matches(f, row)
      BY <1>1, <2>1, <2>2, <2>3
    <2> QED
      BY <2>3, <2>5, <2>6 DEF Matching, f, cats
  <1>11. Expected(q) = within
    <2>1. ASSUME NEW p \in Pgcs, NEW row \in Combined(Tables, p), Matches(f, row)
          PROVE  p \in within
      <3>1. row \in JoinRows /\ row.at["icrs"] \in JoinedCells(Tables, "icrs", p)
        BY <1>2, CombinedOf
      <3>2. row.at["icrs"] \in 0..Reach
        BY <1>1, <2>1, <3>1
      <3> QED
        BY <1>6, <3>1, <3>2 DEF JoinedCells
    <2>2. ASSUME NEW p \in within PROVE p \in Present("icrs") /\ Meets(p, f)
      <3>1. PICK d \in Cells("icrs", p) : d \in 0..Reach
        OBVIOUS
      <3>2. PICK row \in Combined(Tables, p) : row.at["icrs"] = d
        BY <1>2, CombinedWith
      <3>3. row \in JoinRows
        BY CombinedOf
      <3> QED
        BY <1>1, <3>1, <3>2, <3>3 DEF Meets, Present
    <2>3. Expected(q) = {p \in Present("icrs") : Meets(p, f)}
      BY DEF Expected, f
    <2>4. \A p \in Present("icrs") : Meets(p, f) => p \in within
      BY <1>4, <2>1 DEF Meets
    <2> HIDE DEF within
    <2> QED
      BY <2>2, <2>3, <2>4
  <1>12. \A row \in M : \E p \in within : row.pgc = p /\ row.at["icrs"] \in Cells("icrs", p)
    <2> SUFFICES ASSUME NEW row \in M
                 PROVE  \E p \in within : row.pgc = p /\ row.at["icrs"] \in Cells("icrs", p)
      OBVIOUS
    <2>1. PICK p \in within : row \in Combined(ts, p) /\ row.at["icrs"] \in Cells("icrs", p)
      BY <1>9
    <2>2. row.pgc = p
      BY <2>1, CombinedOf
    <2> QED
      BY <2>1, <2>2
  <1>13. \A row \in M : row.pgc \in within /\ row.at["icrs"] = Distance(row.pgc)
    <2>1. \A p \in within : p \in Pgcs
      OBVIOUS
    <2> HIDE DEF within
    <2> QED
      BY <1>8, <1>12, <2>1
  <1>14. ASSUME NEW a \in M, NEW b \in M, a.pgc = b.pgc PROVE a = b
    <2>1. PICK p \in within : a \in Combined(ts, p)
      BY <1>9
    <2>2. PICK p2 \in within : b \in Combined(ts, p2)
      BY <1>9
    <2>3. /\ p \in Pgcs /\ p2 \in Pgcs /\ a.pgc = p /\ b.pgc = p2
          /\ a = [pgc |-> p, at |-> a.at] /\ b = [pgc |-> p2, at |-> b.at]
      BY <2>1, <2>2, CombinedOf
    <2>4. \A t \in Tables : \A v, w \in JoinedCells(ts, t, p) : v = w
      BY <1>5, <2>3, OneCell DEF JoinedCells
    <2>5. \A t \in Tables : a.at[t] = b.at[t]
      <3>1. \A t \in Tables : a.at[t] \in JoinedCells(ts, t, p)
        BY <2>1, <2>3, CombinedOf
      <3>2. \A t \in Tables : b.at[t] \in JoinedCells(ts, t, p2)
        BY <2>2, <2>3, CombinedOf
      <3>3. p = p2
        BY <1>14, <2>3
      <3> QED
        BY <2>4, <3>1, <3>2, <3>3
    <2>6. a.at = b.at
      <3> DEFINE cells == [t \in Tables |-> JoinedCells(ts, t, p)]
      <3>1. a.at \in Columns(cells) /\ b.at \in Columns(cells)
        BY <1>14, <2>1, <2>2, <2>3 DEF Combined
      <3>2. \A x, y \in Columns(cells) : (\A t \in Tables : x[t] = y[t]) => x = y
        BY ColumnsOf
      <3> HIDE DEF cells
      <3> QED
        BY <2>5, <3>1, <3>2
    <2> QED
      BY <1>14, <2>3, <2>6
  <1>15. M \subseteq JoinRows
    <2> SUFFICES ASSUME NEW row \in M PROVE row \in JoinRows
      OBVIOUS
    <2>1. PICK p \in within : row \in Combined(ts, p)
      BY <1>9
    <2> QED
      BY <2>1, CombinedOf
  <1> QED
    BY <1>10, <1>11, <1>13, <1>14, <1>15

\* Nearest first is a total order of the rows found, and of the objects expected.
LEMMA ConeWalk ==
    ASSUME rows \subseteq Rows, Keyed(rows),
           NEW q \in Queries, ResolvableCatalogs(q), q.pgcs = <<>>, HasCenter(q),
           Answerable(BuildFilters(q), ResolveQueryCatalogs(q)),
           NEW M, M = Matching(BuildFilters(q), ResolveQueryCatalogs(q))
    PROVE  /\ Orders(M, q) = {ByDistance(M)}
           /\ ByDistance(M) \in Seq(M)
           /\ Walk(q) = [i \in DOMAIN ByDistance(M) |-> ByDistance(M)[i].pgc]
           /\ Walk(q) \in Seq(Pgcs) /\ Len(Walk(q)) = Len(ByDistance(M))
           /\ \A i, j \in DOMAIN Walk(q) : Walk(q)[i] = Walk(q)[j] => i = j
           /\ NearestFirst(Walk(q), q)
  <1> DEFINE found == ByDistance(M)
             R == {e \in M \X M : Closer(e[1], e[2])}
             n == Cardinality(M)
  <1>1. Orders(M, q) = {found}
    BY DEF Orders
  <1>2. Walk(q) = [i \in DOMAIN found |-> found[i].pgc]
    BY DEF Walk
  <1>3. /\ M \subseteq JoinRows
        /\ \A row \in M : row.pgc \in Expected(q) /\ row.at["icrs"] = Distance(row.pgc)
        /\ \A p \in Expected(q) : \E row \in M : row.pgc = p
        /\ \A a, b \in M : a.pgc = b.pgc => a = b
    BY ConeRows
  <1>4. found = InOrder(M, R) /\ \A a, b \in M : <<a, b>> \in R <=> Closer(a, b)
    BY DEF ByDistance
  <1>5. IsFiniteSet(M)
    BY <1>3, JoinRowsFinite, FS_Subset
  <1>6. \A row \in M : row.at["icrs"] \in 0..Reach /\ row.pgc \in Nat /\ row.pgc \in Pgcs
    <2>1. \A row \in JoinRows : Matches(BuildFilters(q), row) <=> row.at["icrs"] \in 0..Reach
      BY ConeFilter
    <2>2. \A row \in M : Matches(BuildFilters(q), row)
      BY DEF Matching
    <2>3. \A row \in JoinRows : row.pgc \in Pgcs
      BY DEF JoinRows
    <2> QED
      BY <1>3, <2>1, <2>2, <2>3, PgcsAreNumbers
  <1>7. \A row \in M : row.at["icrs"] \in Int /\ row.pgc \in Int
    BY <1>6
  <1> HIDE DEF R, n
  <1>8. /\ n \in Nat /\ found \in Bijection(1..n, M)
        /\ \A i, j \in 1..n : i < j => Closer(found[i], found[j])
    <2>1. \A x \in M : <<x, x>> \notin R
      BY <1>4, <1>7 DEF Closer
    <2>2. \A x, y \in M : x # y => <<x, y>> \in R \/ <<y, x>> \in R
      BY <1>3, <1>4, <1>7 DEF Closer
    <2>3. \A x, y, z \in M : <<x, y>> \in R /\ <<y, z>> \in R => <<x, z>> \in R
      <3> SUFFICES ASSUME NEW x \in M, NEW y \in M, NEW z \in M, Closer(x, y), Closer(y, z)
                   PROVE  Closer(x, z)
        BY <1>4
      <3> QED
        BY <1>7 DEF Closer
    <2>4. /\ n \in Nat /\ found \in Bijection(1..n, M)
          /\ \A i, j \in 1..n : i < j => <<found[i], found[j]>> \in R
      BY <1>4, <1>5, <2>1, <2>2, <2>3, Enumeration DEF n
    <2>5. \A i \in 1..n : found[i] \in M
      BY <2>4 DEF Bijection, Injection
    <2> QED
      BY <1>4, <2>4, <2>5
  <1> HIDE DEF found
  <1>9. /\ found \in [1..n -> M] /\ DOMAIN found = 1..n
        /\ \A i, j \in 1..n : found[i] = found[j] => i = j
        /\ \A row \in M : \E i \in 1..n : found[i] = row
    BY <1>8 DEF Bijection, Injection, Surjection, IsInjective
  <1>10. found \in Seq(M) /\ Len(found) = n
    BY <1>8, <1>9
  <1>11. Walk(q) \in [1..n -> Pgcs] /\ \A i \in 1..n : Walk(q)[i] = found[i].pgc /\ found[i] \in M
    BY <1>2, <1>6, <1>9
  <1>12. Walk(q) \in Seq(Pgcs) /\ Len(Walk(q)) = n /\ DOMAIN Walk(q) = 1..n
    BY <1>8, <1>11
  <1>13. \A i, j \in 1..n : Walk(q)[i] = Walk(q)[j] => i = j
    BY <1>3, <1>9, <1>11
  <1>14. \A i, j \in 1..n : i < j => Nearer(Walk(q)[i], Walk(q)[j])
    <2> SUFFICES ASSUME NEW i \in 1..n, NEW j \in 1..n, i < j
                 PROVE  Nearer(Walk(q)[i], Walk(q)[j])
      OBVIOUS
    <2>1. found[i] \in M /\ found[j] \in M /\ Closer(found[i], found[j])
      BY <1>8, <1>11
    <2> QED
      BY <1>3, <1>11, <2>1 DEF Nearer, Closer
  <1>15. Range(Walk(q)) = Expected(q)
    <2>1. \A i \in 1..n : Walk(q)[i] \in Expected(q)
      BY <1>3, <1>11
    <2>2. \A p \in Expected(q) : \E i \in 1..n : Walk(q)[i] = p
      <3> SUFFICES ASSUME NEW p \in Expected(q) PROVE \E i \in 1..n : Walk(q)[i] = p
        OBVIOUS
      <3>1. PICK row \in M : row.pgc = p
        BY <1>3
      <3>2. PICK i \in 1..n : found[i] = row
        BY <1>9
      <3> QED
        BY <1>11, <3>1, <3>2
    <2> QED
      BY <1>12, <2>1, <2>2 DEF Range
  <1> QED
    BY <1>1, <1>2, <1>10, <1>12, <1>13, <1>14, <1>15 DEF NearestFirst, found

-------------------------------------------------------------------------------
(* Pages *)

\* A slice is what is between its bounds, which are within the sequence.
LEMMA BoundOf ==
    ASSUME NEW s, Len(s) \in Nat, NEW n \in Int
    PROVE  /\ Bound(n, s) \in Nat /\ Bound(n, s) <= Len(s)
           /\ n < 0 => Bound(n, s) = IF Len(s) + n < 0 THEN 0 ELSE Len(s) + n
           /\ n >= 0 => Bound(n, s) = IF n < Len(s) THEN n ELSE Len(s)
  BY DEF Bound, Larger

LEMMA SliceOf ==
    ASSUME NEW X, NEW s \in Seq(X), NEW from \in Int, NEW to \in Int
    PROVE  LET a == Bound(from, s)
               b == Bound(to, s)
           IN  /\ Slice(s, from, to) \in Seq(X)
               /\ Len(Slice(s, from, to)) = IF a < b THEN b - a ELSE 0
               /\ \A i \in 1..Len(Slice(s, from, to)) :
                     a + i \in 1..Len(s) /\ Slice(s, from, to)[i] = s[a + i]
  <1> DEFINE a == Bound(from, s)
             b == Bound(to, s)
             cut == Slice(s, from, to)
  <1>0. Len(s) \in Nat
    OBVIOUS
  <1>1. a \in Nat /\ b \in Nat /\ a <= Len(s) /\ b <= Len(s) /\ Len(s) \in Nat
    BY <1>0, BoundOf
  <1>2. cut = SubSeq(s, a + 1, b)
    BY DEF Slice
  <1> HIDE DEF a, b, cut
  <1>3. /\ SubSeq(s, a + 1, b) \in Seq(X)
        /\ Len(SubSeq(s, a + 1, b)) = IF a + 1 <= b THEN b - (a + 1) + 1 ELSE 0
        /\ \A i \in 1 .. b - (a + 1) + 1 : SubSeq(s, a + 1, b)[i] = s[(a + 1) + i - 1]
    <2>1. \A i \in a + 1 .. b : s[i] \in X
      BY <1>1
    <2>2. a + 1 \in Int /\ b \in Int
      BY <1>1
    <2> QED
      BY <2>1, <2>2, SubSeqProperties
  <1>4. Len(cut) = IF a < b THEN b - a ELSE 0
    BY <1>1, <1>2, <1>3
  <1>5. ASSUME NEW i \in 1..Len(cut)
        PROVE  a + i \in 1..Len(s) /\ cut[i] = s[a + i]
    <2>1. a < b /\ i \in 1 .. b - a
      BY <1>1, <1>4
    <2>2. i \in 1 .. b - (a + 1) + 1 /\ (a + 1) + i - 1 = a + i /\ a + i \in 1..Len(s)
      BY <1>1, <2>1
    <2> QED
      BY <1>2, <1>3, <2>2
  <1>6. cut \in Seq(X)
    BY <1>2, <1>3
  <1> QED
    BY <1>4, <1>5, <1>6 DEF a, b, cut

LEMMA PageOfSequence ==
    ASSUME NEW X, NEW s \in Seq(X), NEW q, q.size \in Int, NEW page \in Nat
    PROVE  /\ PageOf(s, q, page) \in Seq(X)
           /\ Len(PageOf(s, q, page)) \in Nat
           /\ \A i \in 1..Len(PageOf(s, q, page)) :
                 /\ Bound(page * q.size, s) + i \in 1..Len(s)
                 /\ PageOf(s, q, page)[i] = s[Bound(page * q.size, s) + i]
           /\ Len(PageOf(s, q, page)) =
                 IF Bound(page * q.size, s) < Bound((page + 1) * q.size, s)
                 THEN Bound((page + 1) * q.size, s) - Bound(page * q.size, s) ELSE 0
  <1> DEFINE a == page * q.size
             b == (page + 1) * q.size
  <1>1. a \in Int /\ b \in Int /\ Len(s) \in Nat
    OBVIOUS
  <1>2. PageOf(s, q, page) = Slice(s, a, b)
    BY DEF PageOf
  <1> HIDE DEF a, b
  <1>3. Bound(a, s) \in Nat /\ Bound(b, s) \in Nat
    BY <1>1, BoundOf
  <1>4. /\ Slice(s, a, b) \in Seq(X)
        /\ Len(Slice(s, a, b)) = IF Bound(a, s) < Bound(b, s) THEN Bound(b, s) - Bound(a, s) ELSE 0
        /\ \A i \in 1..Len(Slice(s, a, b)) :
              Bound(a, s) + i \in 1..Len(s) /\ Slice(s, a, b)[i] = s[Bound(a, s) + i]
    BY <1>1, SliceOf
  <1>5. Len(Slice(s, a, b)) \in Nat
    BY <1>3, <1>4
  <1> QED
    BY <1>2, <1>4, <1>5 DEF a, b

\* How far the pages go, in terms of the bounds of the last one.
LEMMA ReachedOf ==
    ASSUME NEW X, NEW s \in Seq(X), NEW q, q.size \in Int, NEW page \in Nat
    PROVE  /\ Reached(q, page, s) \in 0..Len(s) /\ Reached(q, 0, s) = 0
           /\ (q.size >= 0 \/ page = 0) => Reached(q, page, s) = Bound(page * q.size, s)
           /\ (q.size >= 0 \/ page = 0) => Reached(q, page + 1, s) = Bound((page + 1) * q.size, s)
           /\ (q.size < 0 /\ page # 0) => Reached(q, page + 1, s) = Reached(q, page, s)
  <1> DEFINE a == page * q.size
             b == (page + 1) * q.size
  <1>1. a \in Int /\ b \in Int /\ Len(s) \in Nat /\ page + 1 # 0
    OBVIOUS
  <1>2. page = 0 => a = 0 /\ b = q.size
    OBVIOUS
  <1>3. Bound(0, s) = 0
    BY <1>1, BoundOf
  <1>4. Bound(a, s) \in Nat /\ Bound(a, s) <= Len(s)
    <2> HIDE DEF a
    <2> QED
      BY <1>1, BoundOf
  <1>5. Bound(q.size, s) \in Nat /\ Bound(q.size, s) <= Len(s)
    BY <1>1, BoundOf
  <1>6. Reached(q, 0, s) = 0
    BY DEF Reached
  <1>7. Reached(q, page, s) = IF page = 0 THEN 0 ELSE Bound(IF q.size < 0 THEN q.size ELSE a, s)
    BY DEF Reached
  <1>8. Reached(q, page + 1, s) = Bound(IF q.size < 0 THEN q.size ELSE b, s)
    BY <1>1 DEF Reached
  <1> HIDE DEF a, b
  <1>9. CASE page = 0
    BY <1>1, <1>2, <1>3, <1>6, <1>7, <1>8, <1>9 DEF a, b
  <1>10. CASE page # 0 /\ q.size >= 0
    BY <1>1, <1>4, <1>6, <1>7, <1>8, <1>10 DEF a, b
  <1>11. CASE page # 0 /\ q.size < 0
    BY <1>1, <1>5, <1>6, <1>7, <1>8, <1>11 DEF a, b
  <1> QED
    BY <1>9, <1>10, <1>11

\* The pages up to one and the one after it are the pages up to that.
LEMMA PagesFollow ==
    ASSUME NEW X, NEW s \in Seq(X), NEW q, q.size \in Int, NEW page \in Nat
    PROVE  SubSeq(s, 1, Reached(q, page, s)) \o PageOf(s, q, page)
               = SubSeq(s, 1, Reached(q, page + 1, s))
  <1> DEFINE a == page * q.size
             b == (page + 1) * q.size
  <1>1. a \in Int /\ b \in Int /\ b = a + q.size /\ Len(s) \in Nat
    OBVIOUS
  <1>2. PageOf(s, q, page) = SubSeq(s, Bound(a, s) + 1, Bound(b, s))
    BY DEF PageOf, Slice
  <1>3. q.size >= 0 => a >= 0
    OBVIOUS
  <1>4. (q.size < 0 /\ page # 0) => a < 0
    OBVIOUS
  <1>5. page = 0 => a = 0
    OBVIOUS
  <1> HIDE DEF a, b
  <1>6. CASE q.size >= 0 \/ page = 0
    <2>1. Reached(q, page, s) = Bound(a, s) /\ Reached(q, page + 1, s) = Bound(b, s)
      BY <1>6, ReachedOf DEF a, b
    <2>2. Bound(a, s) \in 0..Len(s) /\ Bound(b, s) \in Bound(a, s)..Len(s)
      <3>0. a >= 0
        BY <1>3, <1>5, <1>6
      <3>1. a >= 0 /\ Bound(a, s) = IF a < Len(s) THEN a ELSE Len(s)
        BY <1>1, <3>0, BoundOf
      <3>2. /\ Bound(b, s) \in Nat /\ Bound(b, s) <= Len(s)
            /\ b >= 0 => Bound(b, s) = IF b < Len(s) THEN b ELSE Len(s)
        BY <1>1, BoundOf
      <3>3. CASE q.size >= 0
        BY <1>1, <3>1, <3>2, <3>3
      <3>4. CASE page = 0
        BY <1>1, <1>5, <3>1, <3>2, <3>4
      <3> QED
        BY <1>6, <3>3, <3>4
    <2>3. 1 \in 1..Len(s) + 1 /\ Bound(a, s) \in 1 - 1 .. Len(s)
      BY <1>1, <2>2
    <2> QED
      BY <1>2, <2>1, <2>2, <2>3, ConcatAdjacentSubSeq
  <1>7. CASE q.size < 0 /\ page # 0
    <2>1. Reached(q, page + 1, s) = Reached(q, page, s) /\ Reached(q, page, s) \in 0..Len(s)
      BY <1>7, ReachedOf
    <2>2. Bound(a, s) + 1 \in Int /\ Bound(b, s) \in Int /\ Bound(b, s) < Bound(a, s) + 1
      <3>1. a < 0 /\ b < 0
        BY <1>1, <1>4, <1>7
      <3>2. Bound(a, s) = IF Len(s) + a < 0 THEN 0 ELSE Len(s) + a
        BY <1>1, <3>1, BoundOf
      <3>3. Bound(b, s) = IF Len(s) + b < 0 THEN 0 ELSE Len(s) + b
        BY <1>1, <3>1, BoundOf
      <3> QED
        BY <1>1, <1>7, <3>2, <3>3
    <2>3. PageOf(s, q, page) = <<>>
      BY <1>2, <2>2, SubSeqEmpty
    <2>4. SubSeq(s, 1, Reached(q, page, s)) \in Seq(X)
      BY <1>1, <2>1, SubSeqProperties
    <2> QED
      BY <2>1, <2>3, <2>4, ConcatEmptySeq
  <1>8. (q.size >= 0 \/ page = 0) \/ (q.size < 0 /\ page # 0)
    OBVIOUS
  <1> QED
    BY <1>6, <1>7, <1>8

\* Nothing is before the first page, and an empty page comes after everything.
LEMMA PagesBegin ==
    ASSUME NEW X, NEW s \in Seq(X), NEW q, q.size \in Int
    PROVE  SubSeq(s, 1, Reached(q, 0, s)) = <<>>
  <1>1. Reached(q, 0, s) = 0
    BY ReachedOf
  <1> QED
    BY <1>1, SubSeqEmpty

LEMMA PagesEnd ==
    ASSUME NEW X, NEW s \in Seq(X), NEW q, q.size \in Nat, q.size # 0, NEW page \in Nat,
           PageOf(s, q, page) = <<>>
    PROVE  SubSeq(s, 1, Reached(q, page + 1, s)) = s
  <1> DEFINE a == page * q.size
             b == (page + 1) * q.size
  <1>1. a \in Nat /\ b = a + q.size /\ Len(s) \in Nat
    OBVIOUS
  <1>2. Len(PageOf(s, q, page)) = IF Bound(a, s) < Bound(b, s) THEN Bound(b, s) - Bound(a, s) ELSE 0
    BY PageOfSequence
  <1>3. Len(PageOf(s, q, page)) = 0
    OBVIOUS
  <1>4. Reached(q, page + 1, s) = Bound(b, s)
    BY ReachedOf
  <1> HIDE DEF a, b
  <1>5. Bound(b, s) = Len(s)
    <2>1. Bound(a, s) = IF a < Len(s) THEN a ELSE Len(s)
      BY <1>1, BoundOf
    <2>0. b \in Int /\ b >= 0
      BY <1>1
    <2>2. Bound(b, s) = IF b < Len(s) THEN b ELSE Len(s)
      BY <1>1, <2>0, BoundOf
    <2> QED
      BY <1>1, <1>2, <1>3, <2>1, <2>2
  <1> QED
    BY <1>4, <1>5, SubSeqFull

\* Below zero every page leaves the same numbers out.
LEMMA PagesBelowZero ==
    ASSUME NEW X, NEW s \in Seq(X), NEW q, q.size \in Int, q.size < 0, NEW page \in Nat
    PROVE  Reached(q, page + 1, s) = Larger(Len(s) + q.size, 0)
  <1>1. Reached(q, page + 1, s) = Bound(q.size, s)
    BY DEF Reached
  <1> QED
    BY <1>1 DEF Bound

\* The page of a search shows the numbers of the page of the walk: no object is in two rows.
LEMMA NumbersOfSearchPage ==
    ASSUME NEW M, NEW found \in Seq(M), NEW cats, NEW q, q.size \in Nat, NEW page \in Nat,
           NEW X, NEW walk \in Seq(X), Len(walk) = Len(found),
           \A i \in 1..Len(found) : walk[i] = found[i].pgc,
           \A i, j \in DOMAIN walk : walk[i] = walk[j] => i = j
    PROVE  NumbersIn(GroupByPgc(PageOf(found, q, page), cats)) = PageOf(walk, q, page)
  <1> DEFINE a == Bound(page * q.size, found)
             s == PageOf(found, q, page)
             n == Len(s)
             numbers == [i \in DOMAIN s |-> s[i].pgc]
  <1>1. DOMAIN walk = 1..Len(found) /\ DOMAIN found = 1..Len(found)
    OBVIOUS
  <1>2. /\ s \in Seq(M) /\ n \in Nat /\ DOMAIN s = 1..n
        /\ \A i \in 1..n : a + i \in 1..Len(found) /\ s[i] = found[a + i]
    <2>1. /\ s \in Seq(M) /\ n \in Nat
          /\ \A i \in 1..n : a + i \in 1..Len(found) /\ s[i] = found[a + i]
      BY PageOfSequence
    <2> QED
      BY <2>1
  <1>3. /\ PageOf(walk, q, page) \in Seq(X) /\ Len(PageOf(walk, q, page)) = n
        /\ \A i \in 1..n : PageOf(walk, q, page)[i] = walk[a + i]
    <2>1. \A k : Bound(k, walk) = Bound(k, found)
      BY DEF Bound
    <2>2. /\ PageOf(walk, q, page) \in Seq(X)
          /\ \A i \in 1..Len(PageOf(walk, q, page)) : PageOf(walk, q, page)[i] = walk[a + i]
      <3>1. Bound(page * q.size, walk) = a
        BY <2>1
      <3>2. /\ PageOf(walk, q, page) \in Seq(X)
            /\ \A i \in 1..Len(PageOf(walk, q, page)) :
                  PageOf(walk, q, page)[i] = walk[Bound(page * q.size, walk) + i]
        BY PageOfSequence
      <3> HIDE DEF a
      <3> QED
        BY <3>1, <3>2
    <2>3. Len(PageOf(walk, q, page)) =
              IF a < Bound((page + 1) * q.size, found)
              THEN Bound((page + 1) * q.size, found) - a ELSE 0
      BY <2>1, PageOfSequence
    <2>4. n = IF a < Bound((page + 1) * q.size, found)
              THEN Bound((page + 1) * q.size, found) - a ELSE 0
      BY PageOfSequence
    <2> QED
      BY <2>2, <2>3, <2>4
  <1>4. a \in Nat
    <2>1. Len(found) \in Nat /\ page * q.size \in Int
      OBVIOUS
    <2> QED
      BY <2>1, BoundOf
  <1>5. GroupByPgc(s, cats) = [k \in DOMAIN FirstPlaces(numbers) |-> ObjectOfRow(s[FirstPlaces(numbers)[k]], cats)]
    BY DEF GroupByPgc
  <1>6. numbers = [i \in 1..n |-> s[i].pgc]
    BY <1>2
  <1> HIDE DEF a, s, n, numbers
  <1>7. \A i \in 1..n : numbers[i] = walk[a + i] /\ a + i \in DOMAIN walk
    BY <1>1, <1>2, <1>6
  <1>8. \A i, j \in 1..n : numbers[i] = numbers[j] => i = j
    <2> SUFFICES ASSUME NEW i \in 1..n, NEW j \in 1..n, numbers[i] = numbers[j] PROVE i = j
      OBVIOUS
    <2>1. walk[a + i] = walk[a + j] /\ a + i \in DOMAIN walk /\ a + j \in DOMAIN walk
      BY <1>7
    <2>2. a + i = a + j
      BY <2>1
    <2> QED
      BY <1>2, <1>4, <2>2
  <1>9. FirstPlaces(numbers) = [i \in 1..n |-> i]
    <2>1. DOMAIN numbers = 1..n
      BY <1>6
    <2> QED
      BY <1>2, <1>8, <2>1, DistinctFirstPlaces
  <1>10. GroupByPgc(s, cats) = [k \in 1..n |-> ObjectOfRow(s[k], cats)]
    BY <1>5, <1>9
  <1>11. NumbersIn(GroupByPgc(s, cats)) = [k \in 1..n |-> s[k].pgc]
    BY <1>10 DEF NumbersIn, ObjectOfRow
  <1>12. PageOf(walk, q, page) = [k \in 1..n |-> PageOf(walk, q, page)[k]]
    BY <1>3
  <1>13. \A k \in 1..n : PageOf(walk, q, page)[k] = s[k].pgc
    <2>1. \A k \in 1..n : numbers[k] = s[k].pgc
      BY <1>6
    <2> QED
      BY <1>3, <1>7, <2>1
  <1> QED
    BY <1>11, <1>12, <1>13 DEF s

-------------------------------------------------------------------------------
(* Answers *)

\* Every object of a search is shown from one row of the join.
LEMMA ObjectsOfPage ==
    ASSUME NEW M, NEW s \in Seq(M), NEW cats,
           NEW Y, \A row \in M : ObjectOfRow(row, cats) \in Y
    PROVE  /\ GroupByPgc(s, cats) \in Seq(Y)
           /\ \A i \in DOMAIN GroupByPgc(s, cats) :
                 \E row \in M : GroupByPgc(s, cats)[i] = ObjectOfRow(row, cats)
  <1> DEFINE n == Len(s)
             numbers == [i \in DOMAIN s |-> s[i].pgc]
             places == FirstPlaces(numbers)
  <1>1. n \in Nat /\ DOMAIN s = 1..n /\ \A i \in 1..n : s[i] \in M
    OBVIOUS
  <1>2. DOMAIN numbers = 1..n
    BY <1>1
  <1>3. GroupByPgc(s, cats) = [k \in DOMAIN places |-> ObjectOfRow(s[places[k]], cats)]
    BY DEF GroupByPgc
  <1> HIDE DEF n, numbers
  <1>4. PICK m \in 0..n : places \in [1..m -> 1..n]
    BY <1>1, <1>2, FirstPlacesOf
  <1> HIDE DEF places
  <1>5. /\ m \in Nat /\ DOMAIN GroupByPgc(s, cats) = 1..m
        /\ \A k \in 1..m : s[places[k]] \in M /\ GroupByPgc(s, cats)[k] = ObjectOfRow(s[places[k]], cats)
    BY <1>1, <1>3, <1>4
  <1>6. GroupByPgc(s, cats) \in [1..m -> Y]
    <2>1. \A k \in 1..m : ObjectOfRow(s[places[k]], cats) \in Y
      BY <1>5
    <2> QED
      BY <1>3, <1>4, <2>1
  <1>7. GroupByPgc(s, cats) \in Seq(Y)
    BY <1>5, <1>6
  <1> QED
    BY <1>5, <1>7

\* The object of a row of a search shows what is in the tables, and all of it.
LEMMA SearchedObject ==
    ASSUME rows \subseteq Rows, Keyed(rows),
           NEW q \in Queries, ResolvableCatalogs(q), q.pgcs = <<>>, NEW f, NEW cats,
           cats = ResolveQueryCatalogs(q), NEW row \in Matching(f, cats)
    PROVE  /\ ObjectOfRow(row, cats) \in Objects
           /\ ObjectOfRow(row, cats).shown \subseteq rows
           /\ {r \in rows : r.pgc = ObjectOfRow(row, cats).pgc /\ r.table \in Range(cats)}
                 \subseteq ObjectOfRow(row, cats).shown
  <1> DEFINE o == ObjectOfRow(row, cats)
             first == IF DrivingTable(f) = None THEN cats[1] ELSE DrivingTable(f)
             ts == Range(cats) \cup {first}
  <1>0. row \in UNION {Combined(ts, p) : p \in Present(first)}
    BY DEF Matching, JoinedRows
  <1>1. Range(cats) \subseteq Tables \ Views /\ Range(cats) \subseteq ts
    BY ResolvedCatalogs, TableNames DEF Views
  <1>2. PICK p \in Pgcs : row \in Combined(ts, p)
    BY <1>0 DEF Present
  <1> HIDE DEF ts
  <1>3. row.pgc = p /\ \A t \in Tables : row.at[t] \in JoinedCells(ts, t, p)
    BY <1>2, CombinedOf
  <1>4. \A t \in Range(cats) : row.at[t] # None => row.at[t] \in Cells(t, p)
    BY <1>1, <1>3 DEF JoinedCells
  <1>5. \A t \in Range(cats) : \A v \in Cells(t, p) : row.at[t] = v
    <2> SUFFICES ASSUME NEW t \in Range(cats), NEW v \in Cells(t, p) PROVE row.at[t] = v
      OBVIOUS
    <2>1. row.at[t] \in Cells(t, p)
      BY <1>1, <1>3 DEF JoinedCells
    <2> QED
      BY <1>1, <2>1, OneCell
  <1>6. o.pgc = p
    BY <1>3 DEF ObjectOfRow
  <1>7. o.shown = {[table |-> t, pgc |-> p, value |-> row.at[t]] : t \in {u \in Range(cats) : row.at[u] # None}}
    BY <1>3 DEF ObjectOfRow
  <1>8. o.shown \subseteq rows
    <2>1. \A t \in Range(cats) : row.at[t] # None => [table |-> t, pgc |-> p, value |-> row.at[t]] \in rows
      BY <1>1, <1>4, CellsOf
    <2> HIDE DEF o
    <2> QED
      BY <1>7, <2>1
  <1>9. {r \in rows : r.pgc = p /\ r.table \in Range(cats)} \subseteq o.shown
    <2> HIDE DEF o
    <2> SUFFICES ASSUME NEW r \in rows, r.pgc = p, r.table \in Range(cats) PROVE r \in o.shown
      OBVIOUS
    <2>1. r = [table |-> r.table, pgc |-> p, value |-> r.value]
      BY RowShape
    <2>2. r.value \in Cells(r.table, p)
      BY <1>1, <2>1, CellsOf
    <2>3. row.at[r.table] = r.value /\ row.at[r.table] # None
      BY <1>1, <1>5, <2>2, CellsOf
    <2> QED
      BY <1>7, <2>1, <2>3
  <1>10. o \in Objects
    <2>1. o.pgc \in Numbers
      BY <1>6 DEF Numbers
    <2>2. o = [pgc |-> o.pgc, shown |-> o.shown]
      BY DEF ObjectOfRow
    <2> HIDE DEF o
    <2> QED
      BY <1>8, <2>1, <2>2 DEF Objects
  <1> QED
    BY <1>6, <1>8, <1>9, <1>10

\* The numbers of a page are among those asked for.
LEMMA NumbersOfQuery ==
    ASSUME NEW q \in Queries, NEW page \in Nat
    PROVE  /\ SortedPgcs(q) \in Seq(Numbers) /\ Ascends(SortedPgcs(q), q.pgcs)
           /\ SortedPgcs(q) \in [DOMAIN q.pgcs -> Range(q.pgcs)]
           /\ Len(SortedPgcs(q)) = Len(q.pgcs)
           /\ PageOf(SortedPgcs(q), q, page) \in Seq(Numbers)
  <1>1. q.pgcs \in Seq(Nat) /\ q.size \in Int
    BY QueriesFit
  <1>2. /\ SortedPgcs(q) \in Seq(Range(q.pgcs)) /\ Ascends(SortedPgcs(q), q.pgcs)
        /\ Len(SortedPgcs(q)) = Len(q.pgcs)
    BY <1>1, SortedPgcsOf
  <1>3. Range(q.pgcs) \subseteq Numbers
    BY DEF Numbers
  <1>4. SortedPgcs(q) \in Seq(Numbers)
    <2> HIDE DEF Numbers
    <2> QED
      BY <1>2, <1>3
  <1>5. SortedPgcs(q) \in [DOMAIN q.pgcs -> Range(q.pgcs)]
    BY <1>1, <1>2
  <1> QED
    BY <1>1, <1>2, <1>4, <1>5, PageOfSequence

-------------------------------------------------------------------------------
(* Frames *)

\* The parts of the invariant about one client.
AnswerFits(c) ==
    client[c].pc = "built" =>
        \A o \in Range(client[c].answer) :
            /\ o.shown \subseteq held[c]
            /\ {r \in stable[c] : /\ r.pgc = o.pgc
                                  /\ r.table \in Range(ResolveQueryCatalogs(client[c].query))}
                   \subseteq o.shown
SchemaFits(c) == (client[c].pc = "sent" /\ NeedsUnits(client[c].answer)) => client[c].schema = Apexes
ClientFits(c) ==
    /\ RequestFits(c) /\ HistoryFits(c) /\ ReadSoFar(c) /\ SeenSoFar(c) /\ UnitsReady(c)
    /\ AnswerFits(c) /\ SchemaFits(c)

LEMMA IInvByClient ==
    /\ IInv <=> TypeOK /\ Keyed(rows) /\ \A c \in Clients : ClientFits(c)
    /\ IInv' <=> TypeOK' /\ Keyed(rows') /\ \A c \in Clients : ClientFits(c)'
  BY DEF IInv, ClientFits, AnswerFits, SchemaFits, AnswerWithinHistory, SchemaCoversVelocities

LEMMA WalkStays ==
    ASSUME rows' = rows, NEW q
    PROVE  Walk(q)' = Walk(q)
  <1>1. \A t, p : Cells(t, p)' = Cells(t, p)
    BY DEF Cells
  <1>2. \A t : Present(t)' = Present(t)
    BY <1>1 DEF Present
  <1>3. \A ts, p : Combined(ts, p)' = Combined(ts, p)
    BY <1>1 DEF Combined, JoinedCells
  <1>4. \A f, cats : Matching(f, cats)' = Matching(f, cats)
    BY <1>2, <1>3 DEF Matching, JoinedRows
  <1> QED
    BY <1>4 DEF Walk

LEMMA OneClient ==
    ASSUME IInv, NEW c \in Clients, rows' = rows, TypeOK', ClientFits(c)',
           velocityUnits' = velocityUnits \/ velocityUnits' = Apexes,
           \A d \in Clients \ {c} : /\ client'[d] = client[d] /\ held'[d] = held[d]
                                    /\ stable'[d] = stable[d] /\ quiet'[d] = quiet[d]
    PROVE  IInv'
  <1> SUFFICES ASSUME NEW d \in Clients \ {c} PROVE ClientFits(d)'
    BY IInvByClient
  <1>1. /\ client'[d] = client[d] /\ held'[d] = held[d]
        /\ stable'[d] = stable[d] /\ quiet'[d] = quiet[d]
    OBVIOUS
  <1>2. ClientFits(d)
    BY IInvByClient
  <1>3. RequestFits(d)' /\ HistoryFits(d)' /\ ReadSoFar(d)'
    BY <1>1, <1>2 DEF ClientFits, RequestFits, HistoryFits, ReadSoFar, Served, Waiting, NumbersOfPage
  <1>4. SeenSoFar(d)'
    BY <1>1, <1>2, WalkStays DEF ClientFits, SeenSoFar, Served
  <1>5. UnitsReady(d)' /\ AnswerFits(d)' /\ SchemaFits(d)'
    BY <1>1, <1>2 DEF ClientFits, UnitsReady, AnswerFits, SchemaFits
  <1> QED
    BY <1>3, <1>4, <1>5 DEF ClientFits

LEMMA ClientChanges ==
    ASSUME TypeOK, NEW c \in Clients, NEW e \in ClientStates, client' = [client EXCEPT ![c] = e]
    PROVE  /\ client' \in [Clients -> ClientStates] /\ client'[c] = e
           /\ \A d \in Clients \ {c} : client'[d] = client[d]
  BY DEF TypeOK

LEMMA ClientShape ==
    ASSUME TypeOK, NEW c \in Clients
    PROVE  /\ client[c] \in ClientStates
           /\ client[c].pc \in {"idle", "reading", "searching", "built", "sent", "ended"}
           /\ client[c].query \in Queries \cup {None} /\ client[c].page \in Nat
           /\ client[c].todo \subseteq Tables /\ client[c].got \subseteq Rows
           /\ client[c].status \in Statuses /\ client[c].answer \in Seq(Objects)
           /\ client[c].schema \in {{}, Apexes} /\ client[c].seen \in Seq(Numbers)
           /\ held[c] \subseteq Rows /\ stable[c] \subseteq Rows /\ quiet[c] \in BOOLEAN
  <1>1. /\ client[c] \in ClientStates /\ held[c] \subseteq Rows /\ stable[c] \subseteq Rows
        /\ quiet[c] \in BOOLEAN
    BY DEF TypeOK
  <1> QED
    BY <1>1 DEF ClientStates

LEMMA RowsTyped == TypeOK => rows \subseteq Rows
  BY DEF TypeOK

-------------------------------------------------------------------------------
(* Steps of the clients *)

LEMMA MatchingRows ==
    ASSUME rows \subseteq Rows, NEW f, NEW cats
    PROVE  /\ Matching(f, cats) \subseteq JoinRows /\ IsFiniteSet(Matching(f, cats))
           /\ Cardinality(Matching(f, cats)) \in Nat
  <1>1. \A t : Present(t) \subseteq Pgcs
    BY DEF Present
  <1>2. \A ts : \A p \in Pgcs : Combined(ts, p) \subseteq JoinRows
    BY CombinedOf
  <1>3. Matching(f, cats) \subseteq JoinRows
    BY <1>1, <1>2 DEF Matching, JoinedRows
  <1> QED
    BY <1>3, JoinRowsFinite, FS_Subset, FS_CardinalityType

LEMMA WalkIsSequence ==
    ASSUME rows \subseteq Rows, NEW q \in Queries
    PROVE  \E X : Walk(q) \in Seq(X)
  <1> DEFINE M == Matching(BuildFilters(q), ResolveQueryCatalogs(q))
             found == ByDistance(M)
             X == {found[i].pgc : i \in DOMAIN found}
  <1>1. CASE q.pgcs # <<>>
    <2>1. SortedPgcs(q) \in Seq(Numbers)
      BY NumbersOfQuery
    <2> QED
      BY <1>1, <2>1 DEF Walk
  <1>2. CASE q.pgcs = <<>>
    <2>1. Cardinality(M) \in Nat
      BY MatchingRows
    <2>2. DOMAIN found = 1..Cardinality(M)
      BY DEF ByDistance, InOrder
    <2>3. Walk(q) = [i \in DOMAIN found |-> found[i].pgc]
      BY <1>2 DEF Walk
    <2> HIDE DEF found, M
    <2>4. Walk(q) \in [1..Cardinality(M) -> X]
      BY <2>2, <2>3
    <2>5. Walk(q) \in Seq(X)
      BY <2>1, <2>4
    <2> QED
      BY <2>5
  <1> QED
    BY <1>1, <1>2

LEMMA PageAskedOf ==
    ASSUME NEW old \in ClientStates, NEW q \in Queries, NEW n \in Nat, ResolvableCatalogs(q),
           NEW e, e = PageAsked(old, q, n)
    PROVE  /\ e \in ClientStates
           /\ e.query = q /\ e.page = n /\ e.got = {} /\ e.answer = <<>> /\ e.status = "none"
           /\ e.seen = old.seen
           /\ e.pc = IF q.pgcs # <<>> THEN "reading" ELSE "searching"
           /\ e.todo = IF q.pgcs # <<>> /\ PageOf(SortedPgcs(q), q, n) # <<>>
                       THEN Range(ResolveQueryCatalogs(q)) ELSE {}
  <1> DEFINE byNumber == q.pgcs # <<>>
             none == byNumber /\ PageOf(SortedPgcs(q), q, n) = <<>>
             todo == IF byNumber /\ ~none THEN Range(ResolveQueryCatalogs(q)) ELSE {}
             pc == IF byNumber THEN "reading" ELSE "searching"
  <1>1. e = [old EXCEPT !.query = q, !.page = n, !.got = {}, !.answer = <<>>, !.status = "none",
                        !.pc = pc, !.todo = todo]
    BY DEF PageAsked
  <1>2. todo \subseteq Tables
    BY ResolvedCatalogs
  <1>3. pc \in {"reading", "searching"} /\ <<>> \in Seq(Objects)
    OBVIOUS
  <1>4. todo = IF q.pgcs # <<>> /\ PageOf(SortedPgcs(q), q, n) # <<>>
               THEN Range(ResolveQueryCatalogs(q)) ELSE {}
    OBVIOUS
  <1>5. pc = IF q.pgcs # <<>> THEN "reading" ELSE "searching"
    OBVIOUS
  <1> HIDE DEF todo, pc
  <1>6. e \in ClientStates
    BY <1>1, <1>2, <1>3 DEF ClientStates, Statuses
  <1>7. /\ e.query = q /\ e.page = n /\ e.got = {} /\ e.answer = <<>> /\ e.status = "none"
        /\ e.seen = old.seen /\ e.pc = pc /\ e.todo = todo
    BY <1>1 DEF ClientStates
  <1> QED
    BY <1>4, <1>5, <1>6, <1>7

\* A page that is asked begins with what the tables hold, and after the pages before it.
LEMMA AskPreserves ==
    ASSUME IInv, NEW c \in Clients, NEW q \in Queries, ValidParameters(q), ResolvableCatalogs(q),
           NEW n \in Nat, client' = [client EXCEPT ![c] = PageAsked(@, q, n)], StartHistory(c),
           quiet' \in [Clients -> BOOLEAN], \A d \in Clients \ {c} : quiet'[d] = quiet[d],
           UNCHANGED <<rows, velocityUnits, edits>>,
           (quiet'[c] /\ Ordered(q)) =>
               client[c].seen = SubSeq(Walk(q), 1, Reached(q, n, Walk(q)))
    PROVE  IInv'
  <1> DEFINE e == PageAsked(client[c], q, n)
  <1>1. TypeOK
    BY IInvByClient
  <1>2. /\ e \in ClientStates
        /\ e.query = q /\ e.page = n /\ e.got = {} /\ e.answer = <<>> /\ e.status = "none"
        /\ e.seen = client[c].seen
        /\ e.pc = IF q.pgcs # <<>> THEN "reading" ELSE "searching"
        /\ e.todo = IF q.pgcs # <<>> /\ PageOf(SortedPgcs(q), q, n) # <<>>
                    THEN Range(ResolveQueryCatalogs(q)) ELSE {}
    BY <1>1, ClientShape, PageAskedOf
  <1>3. client' = [client EXCEPT ![c] = e]
    BY <1>1 DEF TypeOK
  <1> HIDE DEF e
  <1>4. /\ client' \in [Clients -> ClientStates] /\ client'[c] = e
        /\ \A d \in Clients \ {c} : client'[d] = client[d]
    BY <1>1, <1>2, <1>3, ClientChanges
  <1>5. /\ held' \in [Clients -> SUBSET Rows] /\ stable' \in [Clients -> SUBSET Rows]
        /\ held'[c] = rows /\ stable'[c] = rows
        /\ \A d \in Clients \ {c} : held'[d] = held[d] /\ stable'[d] = stable[d]
    BY <1>1 DEF TypeOK, StartHistory
  <1>6. TypeOK'
    BY <1>1, <1>4, <1>5 DEF TypeOK
  <1>7. RequestFits(c)' /\ HistoryFits(c)'
    BY <1>2, <1>4, <1>5 DEF RequestFits, HistoryFits, Served, Waiting
  <1>8. ReadSoFar(c)'
    <2>1. NumbersOfPage(c)' = PageOf(SortedPgcs(q), q, n)
      BY <1>2, <1>4 DEF NumbersOfPage
    <2>2. Range(<<>>) = {}
      BY DEF Range
    <2>3. \A t \in Range(ResolveQueryCatalogs(q)) :
             q.pgcs # <<>> /\ PageOf(SortedPgcs(q), q, n) # <<>> => t \in e.todo
      BY <1>2
    <2>4. e.pc = "reading" => q.pgcs # <<>>
      BY <1>2
    <2>5. e.pc = "reading" => {r \in rows : /\ r.pgc \in Range(PageOf(SortedPgcs(q), q, n))
                       /\ r.table \in Range(ResolveQueryCatalogs(q)) /\ r.table \notin e.todo} = {}
      BY <2>2, <2>3, <2>4
    <2> QED
      BY <1>2, <1>4, <1>5, <2>1, <2>5 DEF ReadSoFar
  <1>9. SeenSoFar(c)'
    <2>1. Walk(q)' = Walk(q)
      BY WalkStays
    <2>2. (client'[c].page + IF client'[c].pc = "sent" THEN 1 ELSE 0) = n
      BY <1>2, <1>4
    <2>3. client'[c].pc \notin {"built", "sent"} /\ client'[c].query = q /\ client'[c].seen = client[c].seen
      BY <1>2, <1>4
    <2> QED
      BY <2>1, <2>2, <2>3 DEF SeenSoFar
  <1>10. UnitsReady(c)' /\ AnswerFits(c)' /\ SchemaFits(c)'
    BY <1>2, <1>4 DEF UnitsReady, AnswerFits, SchemaFits
  <1>11. ClientFits(c)'
    BY <1>7, <1>8, <1>9, <1>10 DEF ClientFits
  <1> QED
    BY <1>4, <1>5, <1>6, <1>11, OneClient

LEMMA QuerySimplePreserves ==
    ASSUME IInv, NEW c \in Clients, NEW q \in Queries, QuerySimple(c, q)
    PROVE  IInv'
  <1>1. TypeOK /\ RequestFits(c)
    BY IInvByClient DEF ClientFits
  <1>2. client[c].seen = <<>>
    BY <1>1 DEF QuerySimple, RequestFits
  <1>3. quiet' \in [Clients -> BOOLEAN] /\ \A d \in Clients \ {c} : quiet'[d] = quiet[d]
    BY <1>1 DEF QuerySimple, TypeOK
  <1>4. SubSeq(Walk(q), 1, Reached(q, 0, Walk(q))) = <<>>
    <2>1. PICK X : Walk(q) \in Seq(X)
      BY <1>1, RowsTyped, WalkIsSequence
    <2> QED
      BY <2>1, QueriesFit, PagesBegin
  <1> QED
    BY <1>2, <1>3, <1>4, AskPreserves DEF QuerySimple

\* Nothing is promised to a client whose walk has ended.
LEMMA EndPreserves ==
    ASSUME IInv, NEW c \in Clients, NEW left \in ClientStates, NEW status \in Statuses,
           End(c, left, status)
    PROVE  IInv'
  <1> DEFINE e == [left EXCEPT !.pc = "ended", !.status = status]
  <1>1. TypeOK
    BY IInvByClient
  <1>2. e \in ClientStates /\ e.pc = "ended"
    BY DEF ClientStates
  <1>3. client' = [client EXCEPT ![c] = e] /\ UNCHANGED <<rows, velocityUnits, edits, quiet>>
    BY DEF End
  <1> HIDE DEF e
  <1>4. /\ client' \in [Clients -> ClientStates] /\ client'[c] = e
        /\ \A d \in Clients \ {c} : client'[d] = client[d]
    BY <1>1, <1>2, <1>3, ClientChanges
  <1>5. /\ held' \in [Clients -> SUBSET Rows] /\ stable' \in [Clients -> SUBSET Rows]
        /\ \A d \in Clients \ {c} : held'[d] = held[d] /\ stable'[d] = stable[d]
    BY <1>1 DEF TypeOK, End
  <1>6. TypeOK'
    BY <1>1, <1>3, <1>4, <1>5 DEF TypeOK
  <1>7. client'[c].pc = "ended"
    BY <1>2, <1>4
  <1>8. RequestFits(c)' /\ HistoryFits(c)' /\ ReadSoFar(c)' /\ SeenSoFar(c)'
    BY <1>7 DEF RequestFits, HistoryFits, ReadSoFar, SeenSoFar, Served, Waiting
  <1>9. ClientFits(c)'
    BY <1>7, <1>8 DEF ClientFits, UnitsReady, AnswerFits, SchemaFits
  <1> QED
    BY <1>3, <1>4, <1>5, <1>6, <1>9, OneClient

LEMMA NewClientFits == NewClient \in ClientStates
  <1>1. <<>> \in Seq(Objects) /\ <<>> \in Seq(Numbers)
    OBVIOUS
  <1> QED
    BY <1>1 DEF NewClient, ClientStates, Statuses

LEMMA EndsPreserve ==
    ASSUME IInv, NEW c \in Clients,
           \/ \E q \in Queries : Reject(c, q)
           \/ CollectFails(c) \/ SearchError(c) \/ SearchFails(c) \/ LastPage(c)
    PROVE  IInv'
  <1>1. TypeOK
    BY IInvByClient
  <1>2. client[c] \in ClientStates
    BY <1>1, ClientShape
  <1>3. \/ \E status \in Statuses : End(c, NewClient, status)
        \/ \E status \in Statuses : End(c, client[c], status)
    BY DEF Reject, CollectFails, SearchError, SearchFails, LastPage, Statuses
  <1> QED
    BY <1>2, <1>3, NewClientFits, EndPreserves

\* A worker that has read its catalog has read what was there all the time.
LEMMA QueryCatalogPreserves ==
    ASSUME IInv, NEW c \in Clients, NEW k \in Tables, QueryCatalog(c, k)
    PROVE  IInv'
  <1> DEFINE read == {r \in rows : r.table = k /\ r.pgc \in Range(NumbersOfPage(c))}
             e == [client[c] EXCEPT !.todo = @ \ {k}, !.got = @ \cup read]
  <1>1. TypeOK /\ ClientFits(c) /\ rows \subseteq Rows
    BY IInvByClient, RowsTyped
  <1>2. /\ client[c] \in ClientStates /\ client[c].todo \subseteq Tables
        /\ client[c].got \subseteq Rows /\ client[c].pc = "reading"
    BY <1>1, ClientShape DEF QueryCatalog
  <1>3. client' = [client EXCEPT ![c] = e] /\ UNCHANGED <<rows, velocityUnits, edits, held, stable, quiet>>
    BY <1>1 DEF QueryCatalog, TypeOK
  <1>4. read \subseteq Rows
    BY <1>1
  <1>5. \A r \in rows : r \in read <=> r.table = k /\ r.pgc \in Range(NumbersOfPage(c))
    OBVIOUS
  <1>10. read \subseteq rows
    OBVIOUS
  <1> HIDE DEF read
  <1>6. /\ e \in ClientStates /\ e.todo = client[c].todo \ {k} /\ e.got = client[c].got \cup read
        /\ e.pc = client[c].pc /\ e.query = client[c].query /\ e.page = client[c].page
        /\ e.status = client[c].status /\ e.seen = client[c].seen /\ e.answer = client[c].answer
    BY <1>2, <1>4 DEF ClientStates
  <1> HIDE DEF e
  <1>7. /\ client' \in [Clients -> ClientStates] /\ client'[c] = e
        /\ \A d \in Clients \ {c} : client'[d] = client[d]
    BY <1>1, <1>3, <1>6, ClientChanges
  <1>8. TypeOK'
    BY <1>1, <1>3, <1>7 DEF TypeOK
  <1>9. RequestFits(c)' /\ HistoryFits(c)'
    BY <1>1, <1>2, <1>3, <1>6, <1>7 DEF ClientFits, RequestFits, HistoryFits, Served, Waiting
  <1>11. ReadSoFar(c)'
    <2>1. NumbersOfPage(c)' = NumbersOfPage(c)
      BY <1>6, <1>7 DEF NumbersOfPage
    <2>2. stable[c] \subseteq rows /\ rows \subseteq held[c]
      BY <1>1, <1>2 DEF ClientFits, HistoryFits, Waiting
    <2>3. ASSUME e.status = "none"
          PROVE  /\ e.got \subseteq held[c]
                 /\ \A r \in stable[c] :
                      (/\ r.pgc \in Range(NumbersOfPage(c))
                       /\ r.table \in Range(ResolveQueryCatalogs(client[c].query))
                       /\ r.table \notin e.todo) => r \in e.got
      <3>1. /\ client[c].got \subseteq held[c]
            /\ \A r \in stable[c] :
                 (/\ r.pgc \in Range(NumbersOfPage(c))
                  /\ r.table \in Range(ResolveQueryCatalogs(client[c].query))
                  /\ r.table \notin client[c].todo) => r \in client[c].got
        BY <1>1, <1>2, <1>6, <2>3 DEF ClientFits, ReadSoFar
      <3>2. e.got \subseteq held[c]
        BY <1>6, <1>10, <2>2, <3>1
      <3> QED
        BY <1>5, <1>6, <2>2, <3>1, <3>2
    <2> QED
      BY <1>3, <1>6, <1>7, <2>1, <2>3 DEF ReadSoFar
  <1>12. SeenSoFar(c)'
    BY <1>1, <1>2, <1>3, <1>6, <1>7, WalkStays DEF ClientFits, SeenSoFar, Served
  <1>13. UnitsReady(c)' /\ AnswerFits(c)' /\ SchemaFits(c)'
    BY <1>2, <1>6, <1>7 DEF UnitsReady, AnswerFits, SchemaFits
  <1>14. ClientFits(c)'
    BY <1>9, <1>11, <1>12, <1>13 DEF ClientFits
  <1> QED
    BY <1>3, <1>7, <1>8, <1>14, OneClient

LEMMA QueryCatalogFailsPreserves ==
    ASSUME IInv, NEW c \in Clients, NEW k \in Tables, QueryCatalogFails(c, k)
    PROVE  IInv'
  <1> DEFINE e == [client[c] EXCEPT !.todo = @ \ {k}, !.status = "lost"]
  <1>1. TypeOK /\ ClientFits(c)
    BY IInvByClient
  <1>2. /\ client[c] \in ClientStates /\ client[c].todo \subseteq Tables
        /\ client[c].pc = "reading"
    BY <1>1, ClientShape DEF QueryCatalogFails
  <1>3. client' = [client EXCEPT ![c] = e] /\ UNCHANGED <<rows, velocityUnits, edits, held, stable, quiet>>
    BY <1>1 DEF QueryCatalogFails, TypeOK
  <1>4. /\ e \in ClientStates /\ e.status = "lost"
        /\ e.pc = client[c].pc /\ e.query = client[c].query /\ e.page = client[c].page
        /\ e.seen = client[c].seen /\ e.answer = client[c].answer
    BY <1>2 DEF ClientStates, Statuses
  <1> HIDE DEF e
  <1>5. /\ client' \in [Clients -> ClientStates] /\ client'[c] = e
        /\ \A d \in Clients \ {c} : client'[d] = client[d]
    BY <1>1, <1>3, <1>4, ClientChanges
  <1>6. TypeOK'
    BY <1>1, <1>3, <1>5 DEF TypeOK
  <1>7. RequestFits(c)' /\ HistoryFits(c)'
    BY <1>1, <1>2, <1>3, <1>4, <1>5 DEF ClientFits, RequestFits, HistoryFits, Served, Waiting
  <1>8. ReadSoFar(c)'
    BY <1>4, <1>5 DEF ReadSoFar
  <1>9. SeenSoFar(c)'
    BY <1>1, <1>2, <1>3, <1>4, <1>5, WalkStays DEF ClientFits, SeenSoFar, Served
  <1>10. UnitsReady(c)' /\ AnswerFits(c)' /\ SchemaFits(c)'
    BY <1>2, <1>4, <1>5 DEF UnitsReady, AnswerFits, SchemaFits
  <1>11. ClientFits(c)'
    BY <1>7, <1>8, <1>9, <1>10 DEF ClientFits
  <1> QED
    BY <1>3, <1>5, <1>6, <1>11, OneClient

\* A response is built from objects within the history, with the numbers of its page,
\* and its units join the shared schema.
LEMMA BuildPreserves ==
    ASSUME IInv, NEW c \in Clients, Waiting(c), NEW objects \in Seq(Objects),
           BuildResponse(c, objects),
           client[c].query.pgcs = <<>> =>
               /\ Answerable(BuildFilters(client[c].query), ResolveQueryCatalogs(client[c].query))
               /\ client[c].query.size >= 0,
           \A o \in Range(objects) :
               /\ o.shown \subseteq held[c]
               /\ {r \in stable[c] : /\ r.pgc = o.pgc
                                     /\ r.table \in Range(ResolveQueryCatalogs(client[c].query))}
                      \subseteq o.shown,
           Ordered(client[c].query) =>
               NumbersIn(objects) = PageOf(Walk(client[c].query), client[c].query, client[c].page)
    PROVE  IInv'
  <1> DEFINE e == [client[c] EXCEPT !.pc = "built", !.status = "ok", !.answer = objects]
  <1>1. TypeOK /\ ClientFits(c)
    BY IInvByClient
  <1>2. client[c] \in ClientStates /\ client[c].pc \in {"reading", "searching"}
    BY <1>1, ClientShape DEF Waiting
  <1>3. /\ client' = [client EXCEPT ![c] = e] /\ UNCHANGED <<rows, edits, held, stable, quiet>>
        /\ velocityUnits' = velocityUnits \cup (IF NeedsUnits(objects) THEN Apexes ELSE {})
    BY <1>1 DEF BuildResponse, UnitsAfter, TypeOK
  <1>4. /\ e \in ClientStates /\ e.pc = "built" /\ e.answer = objects
        /\ e.query = client[c].query /\ e.page = client[c].page /\ e.seen = client[c].seen
    BY <1>2 DEF ClientStates, Statuses
  <1> HIDE DEF e
  <1>5. /\ client' \in [Clients -> ClientStates] /\ client'[c] = e
        /\ \A d \in Clients \ {c} : client'[d] = client[d]
    BY <1>1, <1>3, <1>4, ClientChanges
  <1>6. velocityUnits \in {{}, Apexes}
    BY <1>1 DEF TypeOK
  <1>7. /\ velocityUnits' \in {{}, Apexes}
        /\ velocityUnits' = velocityUnits \/ velocityUnits' = Apexes
        /\ NeedsUnits(objects) => velocityUnits' = Apexes
    <2>1. CASE NeedsUnits(objects)
      BY <1>3, <1>6, <2>1
    <2>2. CASE ~NeedsUnits(objects)
      BY <1>3, <1>6, <2>2
    <2> QED
      BY <2>1, <2>2
  <1>8. TypeOK'
    BY <1>1, <1>3, <1>5, <1>7 DEF TypeOK
  <1>9. RequestFits(c)' /\ HistoryFits(c)' /\ ReadSoFar(c)'
    BY <1>1, <1>2, <1>4, <1>5 DEF ClientFits, RequestFits, HistoryFits, ReadSoFar, Served, Waiting
  <1>10. SeenSoFar(c)'
    BY <1>1, <1>2, <1>3, <1>4, <1>5, WalkStays DEF ClientFits, SeenSoFar, Served
  <1>11. UnitsReady(c)' /\ SchemaFits(c)'
    BY <1>4, <1>5, <1>7 DEF UnitsReady, SchemaFits
  <1>12. AnswerFits(c)'
    BY <1>3, <1>4, <1>5 DEF AnswerFits
  <1>13. ClientFits(c)'
    BY <1>9, <1>10, <1>11, <1>12 DEF ClientFits
  <1> QED
    BY <1>3, <1>5, <1>7, <1>8, <1>13, OneClient

LEMMA CollectPreserves ==
    ASSUME IInv, NEW c \in Clients, Collect(c)
    PROVE  IInv'
  <1> DEFINE q == client[c].query
             numbers == NumbersOfPage(c)
             objects == [i \in DOMAIN numbers |-> ObjectFromMaps(c, numbers[i])]
  <1>1. TypeOK /\ ClientFits(c) /\ Waiting(c)
    BY IInvByClient DEF Collect, Waiting
  <1>2. /\ client[c].pc = "reading" /\ client[c].todo = {} /\ client[c].status = "none"
        /\ BuildResponse(c, objects)
    BY DEF Collect
  <1>3. q \in Queries /\ q.pgcs # <<>>
    BY <1>1, <1>2 DEF ClientFits, RequestFits, Served
  <1>4. client[c].page \in Nat /\ client[c].got \subseteq Rows
    BY <1>1, ClientShape
  <1>5. numbers \in Seq(Numbers) /\ numbers = PageOf(SortedPgcs(q), q, client[c].page)
    BY <1>3, <1>4, NumbersOfQuery DEF NumbersOfPage
  <1>6. /\ client[c].got \subseteq held[c]
        /\ \A r \in stable[c] :
             (r.pgc \in Range(numbers) /\ r.table \in Range(ResolveQueryCatalogs(q))) => r \in client[c].got
    BY <1>1, <1>2 DEF ClientFits, ReadSoFar
  <1> HIDE DEF numbers, q
  <1>7. /\ DOMAIN numbers = 1..Len(numbers) /\ Len(numbers) \in Nat
        /\ \A i \in DOMAIN numbers : numbers[i] \in Numbers /\ numbers[i] \in Range(numbers)
    BY <1>5 DEF Range
  <1>8. \A p : /\ ObjectFromMaps(c, p).pgc = p
               /\ \A r : r \in ObjectFromMaps(c, p).shown <=> r \in client[c].got /\ r.pgc = p
    BY DEF ObjectFromMaps
  <1>9. \A p \in Numbers : ObjectFromMaps(c, p) \in Objects
    BY <1>4 DEF ObjectFromMaps, Objects
  <1>10. objects \in Seq(Objects)
    <2>1. objects \in [1..Len(numbers) -> Objects]
      BY <1>7, <1>9
    <2> HIDE DEF objects
    <2> QED
      BY <1>7, <2>1
  <1>11. \A o \in Range(objects) : \E p \in Range(numbers) : o = ObjectFromMaps(c, p)
    BY <1>7 DEF Range
  <1>12. \A o \in Range(objects) :
            /\ o.shown \subseteq held[c]
            /\ {r \in stable[c] : r.pgc = o.pgc /\ r.table \in Range(ResolveQueryCatalogs(q))}
                   \subseteq o.shown
    <2> HIDE DEF objects
    <2> SUFFICES ASSUME NEW p \in Range(numbers)
                 PROVE  LET o == ObjectFromMaps(c, p)
                        IN  /\ o.shown \subseteq held[c]
                            /\ {r \in stable[c] : r.pgc = o.pgc /\ r.table \in Range(ResolveQueryCatalogs(q))}
                                 \subseteq o.shown
      BY <1>11
    <2> QED
      BY <1>6, <1>8
  <1>13. NumbersIn(objects) = numbers
    <2>1. NumbersIn(objects) = [i \in DOMAIN numbers |-> objects[i].pgc]
      BY DEF NumbersIn
    <2>2. \A i \in DOMAIN numbers : objects[i].pgc = numbers[i]
      BY <1>8
    <2>3. numbers = [i \in DOMAIN numbers |-> numbers[i]]
      BY <1>5
    <2> QED
      BY <2>1, <2>2, <2>3
  <1>14. NumbersIn(objects) = PageOf(Walk(q), q, client[c].page)
    BY <1>3, <1>5, <1>13 DEF Walk
  <1> HIDE DEF objects
  <1> QED
    BY <1>1, <1>2, <1>3, <1>10, <1>12, <1>14, BuildPreserves DEF q

LEMMA SearchPreserves ==
    ASSUME IInv, NEW c \in Clients, Search(c)
    PROVE  IInv'
  <1> DEFINE q == client[c].query
             cats == ResolveQueryCatalogs(q)
             f == BuildFilters(q)
             M == Matching(f, cats)
             page == client[c].page
  <1>1. TypeOK /\ Keyed(rows) /\ rows \subseteq Rows /\ ClientFits(c) /\ Waiting(c)
    BY IInvByClient, RowsTyped DEF Search, Waiting
  <1>2. client[c].pc = "searching" /\ Answerable(f, cats) /\ q.size >= 0
    BY DEF Search
  <1>3. q \in Queries /\ q.pgcs = <<>> /\ ResolvableCatalogs(q) /\ q.size \in Nat
    BY <1>1, <1>2, QueriesFit DEF ClientFits, RequestFits, Served
  <1>4. page \in Nat
    BY <1>1, ClientShape
  <1>5. PICK s \in Orders(M, q) : BuildResponse(c, GroupByPgc(PageOf(s, q, page), cats))
    BY DEF Search
  <1>6. HistoryFits(c)
    BY <1>1 DEF ClientFits
  <1>7. stable[c] \subseteq rows /\ rows \subseteq held[c]
    BY <1>1, <1>6 DEF HistoryFits
  <1> HIDE DEF q, page
  <1>8. s \in Seq(M) /\ (HasCenter(q) => s = ByDistance(M))
    <2>1. CASE HasCenter(q)
      BY <1>1, <1>2, <1>3, <1>5, <2>1, ConeWalk
    <2>2. CASE ~HasCenter(q)
      <3>1. Cardinality(M) \in Nat
        BY <1>1, MatchingRows
      <3>2. s \in Injection(1..Cardinality(M), M)
        BY <1>5, <2>2 DEF Orders
      <3> HIDE DEF M
      <3> QED
        BY <2>2, <3>1, <3>2 DEF Injection
    <2> QED
      BY <2>1, <2>2
  <1> DEFINE cut == PageOf(s, q, page)
             objects == GroupByPgc(cut, cats)
  <1>9. \A row \in M :
          /\ ObjectOfRow(row, cats) \in Objects /\ ObjectOfRow(row, cats).shown \subseteq rows
          /\ {r \in rows : r.pgc = ObjectOfRow(row, cats).pgc /\ r.table \in Range(cats)}
                 \subseteq ObjectOfRow(row, cats).shown
    BY <1>1, <1>3, SearchedObject
  <1>10. HasCenter(q) => NumbersIn(objects) = PageOf(Walk(q), q, page)
    <2> SUFFICES ASSUME HasCenter(q) PROVE NumbersIn(objects) = PageOf(Walk(q), q, page)
      OBVIOUS
    <2>1. /\ Walk(q) = [i \in DOMAIN s |-> s[i].pgc]
          /\ Walk(q) \in Seq(Pgcs) /\ Len(Walk(q)) = Len(s)
          /\ \A i, j \in DOMAIN Walk(q) : Walk(q)[i] = Walk(q)[j] => i = j
      BY <1>1, <1>2, <1>3, <1>8, ConeWalk
    <2> HIDE DEF M
    <2>2. \A i \in 1..Len(s) : Walk(q)[i] = s[i].pgc
      BY <1>8, <2>1
    <2> QED
      BY <1>3, <1>4, <1>8, <2>1, <2>2, NumbersOfSearchPage
  <1> HIDE DEF M, cats, f
  <1>11. cut \in Seq(M)
    BY <1>3, <1>4, <1>8, PageOfSequence
  <1> HIDE DEF cut
  <1>12. \A row \in M : ObjectOfRow(row, cats) \in Objects
    BY <1>9
  <1>13. /\ objects \in Seq(Objects)
         /\ \A i \in DOMAIN objects : \E row \in M : objects[i] = ObjectOfRow(row, cats)
    BY <1>11, <1>12, ObjectsOfPage
  <1> HIDE DEF objects
  <1>14. \A o \in Range(objects) :
            /\ o.shown \subseteq held[c]
            /\ {r \in stable[c] : r.pgc = o.pgc /\ r.table \in Range(cats)} \subseteq o.shown
    <2> SUFFICES ASSUME NEW o \in Range(objects)
                 PROVE  /\ o.shown \subseteq held[c]
                        /\ {r \in stable[c] : r.pgc = o.pgc /\ r.table \in Range(cats)} \subseteq o.shown
      OBVIOUS
    <2>1. PICK row \in M : o = ObjectOfRow(row, cats)
      BY <1>13 DEF Range
    <2> QED
      BY <1>7, <1>9, <2>1
  <1>15. Ordered(q) => HasCenter(q)
    BY <1>3 DEF Ordered
  <1> QED
    BY <1>1, <1>2, <1>5, <1>10, <1>13, <1>14, <1>15, BuildPreserves DEF objects, cut, cats, f, q, page

\* A page that is sent extends what the client has seen of the walk.
LEMMA SendPreserves ==
    ASSUME IInv, NEW c \in Clients, Send(c)
    PROVE  IInv'
  <1> DEFINE page == client[c].page
             sent == [i \in DOMAIN client[c].answer |-> client[c].answer[i].pgc]
             e == [client[c] EXCEPT !.pc = "sent", !.schema = velocityUnits, !.seen = @ \o sent]
  <1>1. TypeOK /\ rows \subseteq Rows /\ ClientFits(c)
    BY IInvByClient, RowsTyped
  <1>2. /\ client[c] \in ClientStates /\ client[c].pc = "built" /\ page \in Nat
        /\ client[c].seen \in Seq(Numbers) /\ client[c].answer \in Seq(Objects)
    BY <1>1, ClientShape DEF Send
  <1>3. PICK q \in Queries : q = client[c].query
    BY <1>1, <1>2 DEF ClientFits, RequestFits, Served
  <1>4. client' = [client EXCEPT ![c] = e] /\ UNCHANGED <<rows, velocityUnits, edits, held, stable, quiet>>
    BY <1>1 DEF Send, TypeOK
  <1>5. sent = NumbersIn(client[c].answer) /\ sent \in Seq(Numbers)
    <2>1. /\ DOMAIN client[c].answer = 1..Len(client[c].answer) /\ Len(client[c].answer) \in Nat
          /\ \A i \in 1..Len(client[c].answer) : client[c].answer[i] \in Objects
      BY <1>2
    <2>2. \A o \in Objects : o.pgc \in Numbers
      BY DEF Objects
    <2>3. sent \in [1..Len(client[c].answer) -> Numbers]
      BY <2>1, <2>2
    <2> QED
      BY <2>1, <2>3 DEF NumbersIn
  <1>6. velocityUnits \in {{}, Apexes}
    BY <1>1 DEF TypeOK
  <1> HIDE DEF sent
  <1>7. client[c].seen \o sent \in Seq(Numbers)
    BY <1>2, <1>5
  <1>8. /\ e \in ClientStates /\ e.pc = "sent" /\ e.schema = velocityUnits
        /\ e.seen = client[c].seen \o sent /\ e.query = q /\ e.page = page
        /\ e.answer = client[c].answer
    BY <1>2, <1>3, <1>6, <1>7 DEF ClientStates
  <1> HIDE DEF e
  <1>9. /\ client' \in [Clients -> ClientStates] /\ client'[c] = e
        /\ \A d \in Clients \ {c} : client'[d] = client[d]
    BY <1>1, <1>4, <1>8, ClientChanges
  <1>10. TypeOK'
    BY <1>1, <1>4, <1>9 DEF TypeOK
  <1>11. RequestFits(c)' /\ HistoryFits(c)' /\ ReadSoFar(c)'
    BY <1>1, <1>2, <1>3, <1>8, <1>9 DEF ClientFits, RequestFits, HistoryFits, ReadSoFar, Served, Waiting
  <1>12. SeenSoFar(c)'
    <2> DEFINE walk == Walk(q)
    <2>1. Walk(q)' = walk
      BY <1>4, WalkStays
    <2>2. ASSUME quiet[c], Ordered(q)
          PROVE  /\ e.seen = SubSeq(walk, 1, Reached(q, page + 1, walk))
                 /\ NumbersIn(e.answer) = PageOf(walk, q, page)
      <3>1. client[c].page + (IF client[c].pc = "sent" THEN 1 ELSE 0) = page
        BY <1>2
      <3>2. /\ client[c].seen = SubSeq(walk, 1, Reached(q, page, walk))
            /\ NumbersIn(client[c].answer) = PageOf(walk, q, page)
        BY <1>1, <1>2, <1>3, <2>2, <3>1 DEF ClientFits, SeenSoFar, Served
      <3>3. PICK X : walk \in Seq(X)
        BY <1>1, <1>3, WalkIsSequence
      <3> HIDE DEF walk
      <3>4. SubSeq(walk, 1, Reached(q, page, walk)) \o PageOf(walk, q, page)
               = SubSeq(walk, 1, Reached(q, page + 1, walk))
        BY <1>2, <1>3, <3>3, QueriesFit, PagesFollow
      <3> QED
        BY <1>5, <1>8, <3>2, <3>4
    <2>3. (client'[c].page + IF client'[c].pc = "sent" THEN 1 ELSE 0) = page + 1
      BY <1>8, <1>9
    <2>4. client'[c] = e /\ e.query = q /\ quiet'[c] = quiet[c] /\ e.page = page
      BY <1>4, <1>8, <1>9
    <2> QED
      BY <2>1, <2>2, <2>3, <2>4 DEF SeenSoFar
  <1>13. UnitsReady(c)' /\ AnswerFits(c)'
    BY <1>8, <1>9 DEF UnitsReady, AnswerFits
  <1>14. SchemaFits(c)'
    BY <1>1, <1>2, <1>8, <1>9 DEF ClientFits, UnitsReady, SchemaFits
  <1>15. ClientFits(c)'
    BY <1>11, <1>12, <1>13, <1>14 DEF ClientFits
  <1> QED
    BY <1>4, <1>9, <1>10, <1>15, OneClient

LEMMA NextPagePreserves ==
    ASSUME IInv, NEW c \in Clients, NextPage(c)
    PROVE  IInv'
  <1> DEFINE q == client[c].query
             n == client[c].page + 1
  <1>1. TypeOK /\ ClientFits(c) /\ client[c].pc = "sent"
    BY IInvByClient DEF NextPage
  <1>2. q \in Queries /\ ValidParameters(q) /\ ResolvableCatalogs(q)
    BY <1>1 DEF ClientFits, RequestFits, Served
  <1>3. n \in Nat
    BY <1>1, ClientShape
  <1>4. client' = [client EXCEPT ![c] = PageAsked(@, q, n)]
    BY <1>1 DEF NextPage, TypeOK
  <1>5. quiet' = quiet /\ quiet \in [Clients -> BOOLEAN]
    BY <1>1 DEF TypeOK, NextPage
  <1>6. (quiet[c] /\ Ordered(q)) => client[c].seen = SubSeq(Walk(q), 1, Reached(q, n, Walk(q)))
    <2>1. client[c].page + (IF client[c].pc = "sent" THEN 1 ELSE 0) = n
      BY <1>1
    <2> QED
      BY <1>1, <2>1 DEF ClientFits, SeenSoFar, Served
  <1> HIDE DEF q, n
  <1> QED
    BY <1>2, <1>3, <1>4, <1>5, <1>6, AskPreserves DEF NextPage

-------------------------------------------------------------------------------
(* Steps of the writers *)

LEMMA ChangePreserves ==
    ASSUME IInv, NEW new, new \subseteq Rows, Keyed(new), Change(new)
    PROVE  IInv'
  <1>1. TypeOK /\ \A c \in Clients : ClientFits(c)
    BY IInvByClient
  <1>2. /\ rows' = new /\ edits' = edits + 1 /\ edits < EditLimit
        /\ client' = client /\ velocityUnits' = velocityUnits
        /\ held' = [c \in Clients |-> IF Waiting(c) THEN held[c] \cup new ELSE held[c]]
        /\ stable' = [c \in Clients |-> IF Waiting(c) THEN stable[c] \cap new ELSE stable[c]]
        /\ quiet' = [c \in Clients |-> client[c].pc = "idle"]
    BY DEF Change
  <1>3. TypeOK'
    <2>1. edits' \in 0..EditLimit
      BY <1>1, <1>2, BoundsAreNumbers DEF TypeOK
    <2>2. held' \in [Clients -> SUBSET Rows] /\ stable' \in [Clients -> SUBSET Rows]
      BY <1>1, <1>2 DEF TypeOK
    <2>3. quiet' \in [Clients -> BOOLEAN]
      BY <1>2
    <2> QED
      BY <1>1, <1>2, <2>1, <2>2, <2>3 DEF TypeOK
  <1>4. ASSUME NEW c \in Clients PROVE ClientFits(c)'
    <2>1. /\ client'[c] = client[c] /\ quiet'[c] = (client[c].pc = "idle")
          /\ held[c] \subseteq held'[c] /\ stable'[c] \subseteq stable[c]
          /\ Waiting(c) => new \subseteq held'[c] /\ stable'[c] \subseteq new
          /\ ~Waiting(c) => held'[c] = held[c] /\ stable'[c] = stable[c]
      BY <1>2
    <2>2. ClientFits(c)
      BY <1>1
    <2>3. RequestFits(c)' /\ HistoryFits(c)'
      BY <1>2, <2>1, <2>2 DEF ClientFits, RequestFits, HistoryFits, Served, Waiting
    <2>4. ReadSoFar(c)'
      <3>1. NumbersOfPage(c)' = NumbersOfPage(c)
        BY <1>2 DEF NumbersOfPage
      <3> QED
        BY <2>1, <2>2, <3>1 DEF ClientFits, ReadSoFar
    <2>5. SeenSoFar(c)'
      <3>1. ~(Served(c)' /\ quiet'[c])
        BY <2>1 DEF Served
      <3> QED
        BY <3>1 DEF SeenSoFar
    <2>6. UnitsReady(c)' /\ SchemaFits(c)'
      BY <1>2, <2>2 DEF ClientFits, UnitsReady, SchemaFits
    <2>7. AnswerFits(c)'
      BY <2>1, <2>2 DEF ClientFits, AnswerFits, Waiting
    <2> QED
      BY <2>3, <2>4, <2>5, <2>6, <2>7 DEF ClientFits
  <1> QED
    BY <1>2, <1>3, <1>4, IInvByClient

LEMMA WritersPreserve ==
    ASSUME IInv, \/ \E row \in Saves : Save(row)
                 \/ \E p \in Pgcs, t \in Tables \ Views : RemovePgc(p, t)
    PROVE  IInv'
  <1>1. rows \subseteq Rows /\ Keyed(rows)
    BY IInvByClient, RowsTyped
  <1>2. ASSUME NEW row \in Saves, Save(row) PROVE IInv'
    <2> DEFINE replaced == IF row.table \in Views THEN {}
                           ELSE {r \in rows : r.table = row.table /\ r.pgc = row.pgc}
               new == (rows \ replaced) \cup {row}
    <2>1. Change(new)
      BY <1>2 DEF Save
    <2>2. new \subseteq Rows
      BY <1>1, SavesFit
    <2>3. Keyed(new)
      <3> SUFFICES ASSUME NEW r \in new, NEW x \in new,
                          r.table \notin Views, r.table = x.table, r.pgc = x.pgc
                   PROVE  r = x
        BY DEF Keyed
      <3>1. CASE r \in rows /\ x \in rows
        BY <1>1, <3>1 DEF Keyed
      <3>2. CASE r = row \/ x = row
        BY <3>2
      <3> QED
        BY <3>1, <3>2
    <2> HIDE DEF new
    <2> QED
      BY <2>1, <2>2, <2>3, ChangePreserves
  <1>3. ASSUME NEW p \in Pgcs, NEW t \in Tables \ Views, RemovePgc(p, t) PROVE IInv'
    <2> DEFINE new == {r \in rows : r.pgc # p \/ r.table # t}
    <2>1. Change(new)
      BY <1>3 DEF RemovePgc
    <2>2. new \subseteq Rows /\ Keyed(new)
      BY <1>1 DEF Keyed
    <2> HIDE DEF new
    <2> QED
      BY <2>1, <2>2, ChangePreserves
  <1> QED
    BY <1>2, <1>3

-------------------------------------------------------------------------------
(* The invariant and what follows from it *)

LEMMA InitIInv == Init => IInv
  <1> SUFFICES ASSUME Init PROVE IInv
    OBVIOUS
  <1>1. rows \subseteq Rows /\ Keyed(rows)
    BY StoresFit DEF Init
  <1>2. TypeOK
    <2>1. client \in [Clients -> ClientStates]
      BY NewClientFits DEF Init
    <2> QED
      BY <1>1, <2>1, BoundsAreNumbers DEF Init, TypeOK
  <1>3. ASSUME NEW c \in Clients PROVE ClientFits(c)
    <2>1. client[c].pc = "idle" /\ client[c].seen = <<>>
      BY DEF Init, NewClient
    <2> QED
      BY <2>1 DEF ClientFits, RequestFits, HistoryFits, ReadSoFar, SeenSoFar, UnitsReady,
                  AnswerFits, SchemaFits, Served, Waiting
  <1> QED
    BY <1>1, <1>2, <1>3, IInvByClient

LEMMA NextIInv == IInv /\ [Next]_vars => IInv'
  <1> SUFFICES ASSUME IInv, [Next]_vars PROVE IInv'
    OBVIOUS
  <1>1. CASE UNCHANGED vars
    BY <1>1, WalkStays DEF vars, IInv, TypeOK, RequestFits, HistoryFits, ReadSoFar, SeenSoFar,
       UnitsReady, AnswerWithinHistory, SchemaCoversVelocities, Served, Waiting, NumbersOfPage
  <1>2. ASSUME NEW c \in Clients, NEW q \in Queries, QuerySimple(c, q) \/ Reject(c, q) PROVE IInv'
    BY <1>2, QuerySimplePreserves, EndsPreserve
  <1>3. ASSUME NEW c \in Clients, NEW k \in Tables, QueryCatalog(c, k) \/ QueryCatalogFails(c, k)
        PROVE  IInv'
    BY <1>3, QueryCatalogPreserves, QueryCatalogFailsPreserves
  <1>4. ASSUME NEW c \in Clients,
               \/ Collect(c) \/ CollectFails(c)
               \/ Search(c) \/ SearchError(c) \/ SearchFails(c)
               \/ Send(c) \/ NextPage(c) \/ LastPage(c)
        PROVE  IInv'
    BY <1>4, CollectPreserves, SearchPreserves, SendPreserves, NextPagePreserves, EndsPreserve
  <1>5. CASE \/ \E row \in Saves : Save(row)
             \/ \E p \in Pgcs, t \in Tables \ Views : RemovePgc(p, t)
    BY <1>5, WritersPreserve
  <1> QED
    BY <1>1, <1>2, <1>3, <1>4, <1>5 DEF Next

\* What is true of requests, walks and answers in every reachable state.
THEOREM InductiveInvariant == Spec => []IInv
  BY InitIInv, NextIInv, PTL DEF Spec

\* The shape of the state.
THEOREM TypeCorrect == Spec => []TypeOK
  BY InductiveInvariant, PTL DEF IInv

\* An answer shows every row that was there all the time it was prepared, and no row
\* that never was, however the reads of the catalogs and the writers are interleaved.
THEOREM AnswersAreWithinHistory == Spec => []AnswerWithinHistory
  BY InductiveInvariant, PTL DEF IInv

\* The units of the velocities sent are in the schema sent with them.
THEOREM SchemasCoverVelocities == Spec => []SchemaCoversVelocities
  BY InductiveInvariant, PTL DEF IInv

\* While the tables do not change, the pages of a walk in a total order hold every
\* object once, nearest first; of the numbers, all but the last -size if the page size
\* is below zero.
THEOREM WalksAreComplete == Spec => []WalkComplete
  <1>1. IInv => WalkComplete
    <2> SUFFICES ASSUME IInv, NEW c \in Clients,
                        client[c].pc = "sent", client[c].answer = <<>>, quiet[c],
                        client[c].query.size # 0
                 PROVE  LET q == client[c].query
                        IN  IF q.pgcs # <<>> THEN NumbersWalked(client[c].seen, q)
                            ELSE HasCenter(q) => NearestFirst(client[c].seen, q)
      BY DEF WalkComplete
    <2> DEFINE q == client[c].query
               page == client[c].page
    <2>1. TypeOK /\ Keyed(rows) /\ rows \subseteq Rows /\ ClientFits(c)
      BY IInvByClient, RowsTyped
    <2>2. q \in Queries /\ ResolvableCatalogs(q) /\ q.size \in Int /\ page \in Nat
      BY <2>1, QueriesFit, ClientShape DEF ClientFits, RequestFits, Served
    <2>3. q.pgcs = <<>> => Answerable(BuildFilters(q), ResolveQueryCatalogs(q)) /\ q.size >= 0
      BY <2>1 DEF ClientFits, RequestFits, Served
    <2>4. ASSUME Ordered(q)
          PROVE  client[c].seen = SubSeq(Walk(q), 1, Reached(q, page + 1, Walk(q)))
      <3>1. client[c].page + (IF client[c].pc = "sent" THEN 1 ELSE 0) = page + 1
        OBVIOUS
      <3> QED
        BY <2>1, <2>4, <3>1 DEF ClientFits, SeenSoFar, Served
    <2>5. ASSUME Ordered(q), q.size > 0 PROVE client[c].seen = Walk(q)
      <3>1. NumbersIn(client[c].answer) = PageOf(Walk(q), q, page)
        BY <2>1, <2>5 DEF ClientFits, SeenSoFar, Served
      <3>2. NumbersIn(client[c].answer) = <<>>
        BY DEF NumbersIn
      <3>3. PICK X : Walk(q) \in Seq(X)
        BY <2>1, <2>2, WalkIsSequence
      <3>4. q.size \in Nat /\ q.size # 0 /\ PageOf(Walk(q), q, page) = <<>>
        BY <2>2, <2>5, <3>1, <3>2
      <3>5. client[c].seen = SubSeq(Walk(q), 1, Reached(q, page + 1, Walk(q)))
        BY <2>4, <2>5
      <3> HIDE DEF q, page
      <3>6. SubSeq(Walk(q), 1, Reached(q, page + 1, Walk(q))) = Walk(q)
        BY <2>2, <3>3, <3>4, PagesEnd
      <3> QED
        BY <3>5, <3>6
    <2>6. CASE q.pgcs # <<>>
      <3>1. Ordered(q) /\ Walk(q) = SortedPgcs(q)
        BY <2>6 DEF Ordered, Walk
      <3>2. /\ SortedPgcs(q) \in Seq(Numbers) /\ Ascends(SortedPgcs(q), q.pgcs)
            /\ SortedPgcs(q) \in [DOMAIN q.pgcs -> Range(q.pgcs)]
            /\ Len(SortedPgcs(q)) = Len(q.pgcs)
        BY <2>2, NumbersOfQuery
      <3>3. client[c].seen = SubSeq(SortedPgcs(q), 1, NumbersKept(q))
        <4>1. CASE q.size > 0
          <5>1. client[c].seen = SortedPgcs(q)
            BY <2>5, <3>1, <4>1
          <5>2. NumbersKept(q) = Len(SortedPgcs(q))
            BY <3>2, <4>1 DEF NumbersKept
          <5> QED
            BY <3>2, <5>1, <5>2, SubSeqFull
        <4>2. CASE q.size < 0
          <5>1. Reached(q, page + 1, SortedPgcs(q)) = Larger(Len(SortedPgcs(q)) + q.size, 0)
            BY <2>2, <3>2, <4>2, PagesBelowZero
          <5>2. NumbersKept(q) = Larger(Len(SortedPgcs(q)) + q.size, 0)
            BY <2>2, <3>2, <4>2 DEF NumbersKept
          <5> QED
            BY <2>4, <3>1, <5>1, <5>2
        <4> QED
          BY <2>2, <4>1, <4>2
      <3> QED
        BY <2>6, <3>2, <3>3 DEF NumbersWalked
    <2>7. CASE q.pgcs = <<>> /\ HasCenter(q)
      <3>1. q.size > 0
        BY <2>2, <2>3, <2>7
      <3>2. client[c].seen = Walk(q)
        BY <2>5, <2>7, <3>1 DEF Ordered
      <3> QED
        BY <2>1, <2>2, <2>3, <2>7, <3>2, ConeWalk
    <2> QED
      BY <2>6, <2>7
  <1> QED
    BY <1>1, InductiveInvariant, PTL

\* Left joins onto the table a filter is strict on find what a full join would.
THEOREM DrivingJoinsAreEquivalent == Spec => []DrivingJoinEquivalent
  <1>1. TypeOK => DrivingJoinEquivalent
    BY RowsTyped, JoinEquivalence DEF DrivingJoinEquivalent
  <1> QED
    BY <1>1, TypeCorrect, PTL
===============================================================================
