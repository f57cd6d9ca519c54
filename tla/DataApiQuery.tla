----------------------------- MODULE DataApiQuery -----------------------------
(***************************************************************************)
(* /v1/query/simple of the data API.  A client validates into a request    *)
(* and walks through its pages.  A list of PGC numbers is answered by one  *)
(* concurrent read per catalog, each on its own connection; any other      *)
(* request by one statement that joins the catalogs, driven by the table   *)
(* its filter is strict on.  The import tasks and the writers of layer 1   *)
(* change the tables between any two statements.                           *)
(*                                                                         *)
(* A position is its distance to the centre searched, a name the set of    *)
(* designations its pattern matches; values are not converted.             *)
(***************************************************************************)
EXTENDS Integers, FiniteSets, Sequences, Functions

CONSTANTS Pgcs,          \* numbers objects have
          Clients,
          Queries,       \* parameters the clients may send
          Reach,         \* positions up to here are within the radius
          Designations,  \* names objects carry
          Apexes,        \* apexes of the configuration
          Plain,         \* a value nothing depends on
          Stores,        \* contents the tables may start with
          Saves,         \* rows the writers may store
          EditLimit,     \* bound: changes of the tables
          None

\* A filter is a tree; what its methods return is defined by recursion in FilterTrees
\* and known here by the equations of FiltersUnfold and MatchesUnfold.
CONSTANTS Filters,           \* filters there may be
          Height(_),
          Matches(_, _),     \* does a row meet the condition of a filter?
          TablesOf(_),       \* tables the condition refers to
          DrivingTable(_)    \* the table the filter is strict on

VARIABLES rows,          \* rows of layer 2: [table, pgc, value]
          client,        \* state of each client's walk
          velocityUnits, \* DATA_SCHEMA.units.velocity, shared by all requests
          edits,         \* changes so far
          held,          \* history: rows there were since the page was asked
          stable,        \* history: rows there have been all the time since
          quiet          \* history: no change since the first page was asked

vars == <<rows, client, velocityUnits, edits, held, stable, quiet>>

ASSUME PgcsAreNumbers == Pgcs \subseteq Nat /\ IsFiniteSet(Pgcs)
ASSUME NoneIsNoNumber == None \notin Nat
ASSUME NoneIsNoValue == None # Plain /\ None \notin Designations
ASSUME BoundsAreNumbers == Reach \in Nat /\ EditLimit \in Nat
ASSUME NamesAreFinite == IsFiniteSet(Designations)

\* Tables filled by the import tasks hold a row per object; views of layer 1 several.
EnabledCatalogs == <<"designation", "icrs", "redshift", "nature">>
Views == {"additional_designations", "note", "photometry_total"}
CatalogsForPgcQuery == <<"designation", "additional_designations", "icrs",
                         "redshift", "nature", "note", "photometry_total">>
Tables == Range(CatalogsForPgcQuery)
ASSUME NoneIsNoTable == None \notin Tables

ValuesOf(t) == IF t = "icrs" THEN 0..Reach + 1
               ELSE IF t \in {"designation", "additional_designations"} THEN Designations
               ELSE {Plain}
Rows == UNION {[table : {t}, pgc : Pgcs, value : ValuesOf(t)] : t \in Tables}

\* A table that is not a view has pgc for its key.
Keyed(store) ==
    \A r, x \in store :
        (r.table \notin Views /\ r.table = x.table /\ r.pgc = x.pgc) => r = x

ASSUME StoresFit == Stores \subseteq SUBSET Rows /\ \A S \in Stores : Keyed(S)
ASSUME SavesFit == Saves \subseteq Rows

\* The size of a page has no lower bound.
ASSUME QueriesFit ==
    \A q \in Queries : /\ q.pgcs \in Seq(Nat) /\ q.size \in Int
                       /\ q.catalogs # None => q.catalogs \in Seq(Tables)
ASSUME NoneIsNoQuery == None \notin Queries

\* The elements of S, ordered by the pairs of a strict total order: the one at place i
\* comes after i - 1 others.
InOrder(S, before) ==
    [i \in 1..Cardinality(S) |->
        CHOOSE x \in S : Cardinality({y \in S : <<y, x>> \in before}) = i - 1]

\* The elements of a sequence, each at its first place.
FirstPlaces(s) ==
    LET new == {i \in DOMAIN s : \A j \in 1..i - 1 : s[j] # s[i]}
    IN  InOrder(new, {e \in new \X new : e[1] < e[2]})
Firsts(s) == [k \in DOMAIN FirstPlaces(s) |-> s[FirstPlaces(s)[k]]]

-------------------------------------------------------------------------------
(* Validation of the parameters *)

Systems == {<<"ra", "dec">>, <<"glon", "glat">>, <<"sgl", "sgb">>}
SystemsOf(q) == {s \in Systems : Range(s) \subseteq q.given}

\* Each value in its range, coordinates in pairs of one system, a radius only with
\* a centre, and numbers without any other condition.
ValidParameters(q) ==
    /\ q.outOfRange = {}
    /\ \A s \in Systems : s[1] \in q.given <=> s[2] \in q.given
    /\ Cardinality(SystemsOf(q)) <= 1
    /\ "radius" \in q.given => SystemsOf(q) # {}
    /\ q.pgcs # <<>> => q.given = {} /\ q.name = None

DefaultCatalogs(q) == IF q.pgcs # <<>> THEN CatalogsForPgcQuery ELSE EnabledCatalogs
ResolvableCatalogs(q) ==
    q.catalogs # None => /\ q.catalogs # <<>>
                         /\ Range(q.catalogs) \subseteq Range(DefaultCatalogs(q))
ResolveQueryCatalogs(q) ==
    IF q.catalogs = None THEN DefaultCatalogs(q) ELSE Firsts(q.catalogs)

-------------------------------------------------------------------------------
(* Filters.  A leaf accepts the objects whose value in a table is one of a    *)
(* set; the leaf without a table accepts numbers.                             *)

Leaf(t, accepted) == [kind |-> "leaf", on |-> t, accepts |-> accepted, parts |-> <<>>]
Pair(kind, fs) == [kind |-> kind, on |-> None, accepts |-> {}, parts |-> fs]

PGCOneOf(ps) == Leaf(None, ps)
DesignationIn(ns) == Leaf("designation", ns)
DesignationLike(ns) == Leaf("additional_designations", ns)
CoordinatesInRadius == Leaf("icrs", 0..Reach)

\* The condition of a filter, of whose parts those in met hold.
Holds(f, row, met) ==
    \/ f.kind = "leaf" /\ (IF f.on = None THEN row.pgc ELSE row.at[f.on]) \in f.accepts
    \/ f.kind = "and" /\ met = DOMAIN f.parts
    \/ f.kind = "or" /\ (f.parts = <<>> \/ met # {})

\* The tables in the condition of a filter, of the tables of its parts.
Mentions(f, of) == IF f.kind = "leaf" THEN {f.on} \ {None} ELSE UNION Range(of)

\* Mutant: a disjunction is driven by any of its parts too.
DrivesAny(f, of) ==
    IF f.kind = "leaf" THEN f.on
    ELSE LET strict == {i \in DOMAIN of : of[i] # None}
         IN  IF strict = {} THEN None ELSE of[CHOOSE i \in strict : \A j \in strict : i <= j]

\* The table a filter is strict on, of those of its parts: the first of a conjunction,
\* the common one of a disjunction.
Drives(f, of) ==
    IF f.kind = "leaf" THEN f.on
    ELSE IF f.kind = "and"
    THEN LET strict == {i \in DOMAIN of : of[i] # None}
         IN  IF strict = {} THEN None ELSE of[CHOOSE i \in strict : \A j \in strict : i <= j]
    ELSE IF of # <<>> /\ \A i \in DOMAIN of : of[i] = of[1] THEN of[1] ELSE None

HasCenter(q) == "radius" \in q.given /\ SystemsOf(q) # {}

\* An empty list of numbers, which a query string cannot express, is no list.
BuildFilters(q) ==
    Pair("and", (IF HasCenter(q) THEN <<CoordinatesInRadius>> ELSE <<>>)
                \o (IF q.name = None THEN <<>> ELSE <<DesignationLike(q.name)>>))

-------------------------------------------------------------------------------
(* The statement of a search.  A row of a join has NULL, that is None, for a  *)
(* table the object is not in and for one the statement does not join.        *)

Cells(t, p) == {r.value : r \in {x \in rows : x.table = t /\ x.pgc = p}}
Present(t) == {p \in Pgcs : Cells(t, p) # {}}
JoinedCells(ts, t, p) == IF t \notin ts \/ Cells(t, p) = {} THEN {None} ELSE Cells(t, p)

\* The rows that have one of the given values in each table.
Columns(values) ==
    [designation : values["designation"],
     additional_designations : values["additional_designations"],
     icrs : values["icrs"], redshift : values["redshift"], nature : values["nature"],
     note : values["note"], photometry_total : values["photometry_total"]]
JoinRows == [pgc : Pgcs, at : Columns([t \in Tables |-> ValuesOf(t) \cup {None}])]
Combined(ts, p) == [pgc : {p}, at : Columns([t \in Tables |-> JoinedCells(ts, t, p)])]

ASSUME FiltersUnfold ==
    \A f \in Filters :
        /\ f.kind \in {"leaf", "and", "or"} /\ f.on \in Tables \cup {None}
        /\ None \notin f.accepts /\ f.parts \in Seq(Filters)
        /\ Height(f) \in Nat /\ \A i \in DOMAIN f.parts : Height(f.parts[i]) < Height(f)
        /\ TablesOf(f) = Mentions(f, [i \in DOMAIN f.parts |-> TablesOf(f.parts[i])])
        /\ DrivingTable(f) = Drives(f, [i \in DOMAIN f.parts |-> DrivingTable(f.parts[i])])
ASSUME MatchesUnfold ==
    \A f \in Filters : \A row \in JoinRows :
        Matches(f, row) <=> Holds(f, row, {i \in DOMAIN f.parts : Matches(f.parts[i], row)})
ASSUME FiltersOfQueries == \A q \in Queries : BuildFilters(q) \in Filters

\* The search parameters are cross joined to the first table alone: a FULL JOIN row
\* without it has no parameters and meets no condition.
JoinedRows(f, cats) ==
    LET driving == DrivingTable(f)
        first == IF driving = None THEN cats[1] ELSE driving
    IN  UNION {Combined(Range(cats) \cup {first}, p) : p \in Present(first)}

\* A condition on a table that is not joined is an error of the statement.
Answerable(f, cats) ==
    TablesOf(f) \subseteq Range(cats) \cup {DrivingTable(f)}

Matching(f, cats) == {row \in JoinedRows(f, cats) : Matches(f, row)}

\* ORDER BY distance, pgc when there is a centre, no order otherwise.
Closer(a, b) ==
    \/ a.at["icrs"] < b.at["icrs"]
    \/ a.at["icrs"] = b.at["icrs"] /\ a.pgc < b.pgc
ByDistance(S) == InOrder(S, {e \in S \X S : Closer(e[1], e[2])})
Orders(S, q) == IF HasCenter(q) THEN {ByDistance(S)} ELSE Injection(1..Cardinality(S), S)

\* The slice s[from : to] of Python: a bound below zero counts from the end.
Larger(m, n) == IF m < n THEN n ELSE m
Bound(n, s) == IF n < 0 THEN Larger(Len(s) + n, 0)
               ELSE IF n < Len(s) THEN n ELSE Len(s)
Slice(s, from, to) == SubSeq(s, Bound(from, s) + 1, Bound(to, s))

\* Mutant: pages overlap by one.
OverlappingPages(s, q, page) == Slice(s, page * q.size, (page + 1) * q.size + 1)

\* The slice of the numbers asked for, or LIMIT and OFFSET, which a slice with bounds
\* from zero on is too.
PageOf(s, q, page) == Slice(s, page * q.size, (page + 1) * q.size)

\* Mutant: catalogs the object is absent from are shown too.
ShowAbsentToo(row, cats) ==
    [pgc |-> row.pgc,
     shown |-> {[table |-> t, pgc |-> row.pgc, value |-> row.at[t]] : t \in Range(cats)}]

\* Only catalogs the object is present in are shown,
ObjectOfRow(row, cats) ==
    [pgc |-> row.pgc,
     shown |-> {[table |-> t, pgc |-> row.pgc, value |-> row.at[t]] :
                   t \in {u \in Range(cats) : row.at[u] # None}}]

\* and only the first row of an object is looked at.
GroupByPgc(s, cats) ==
    LET places == FirstPlaces([i \in DOMAIN s |-> s[i].pgc])
    IN  [k \in DOMAIN places |-> ObjectOfRow(s[places[k]], cats)]

-------------------------------------------------------------------------------
(* Requests *)

NewClient == [pc |-> "idle", query |-> None, page |-> 0, todo |-> {}, got |-> {},
              status |-> "none", answer |-> <<>>, schema |-> {}, seen |-> <<>>]

Init ==
    /\ rows \in Stores
    /\ client = [c \in Clients |-> NewClient]
    /\ velocityUnits = {}
    /\ edits = 0
    /\ held = [c \in Clients |-> {}]
    /\ stable = [c \in Clients |-> {}]
    /\ quiet = [c \in Clients |-> TRUE]

SortedPgcs(q) ==
    LET s == q.pgcs
        all == DOMAIN s
        places == InOrder(all, {e \in all \X all : \/ s[e[1]] < s[e[2]]
                                                   \/ s[e[1]] = s[e[2]] /\ e[1] < e[2]})
    IN  [k \in DOMAIN places |-> s[places[k]]]
NumbersOfPage(c) == PageOf(SortedPgcs(client[c].query), client[c].query, client[c].page)

\* The handler gets page n of query q: numbers go to the concurrent reads, unless
\* the page is empty, conditions to the search.
PageAsked(old, q, n) ==
    LET byNumber == q.pgcs # <<>>
        none == byNumber /\ PageOf(SortedPgcs(q), q, n) = <<>>
    IN  [old EXCEPT !.query = q, !.page = n, !.got = {}, !.answer = <<>>, !.status = "none",
                    !.pc = IF byNumber THEN "reading" ELSE "searching",
                    !.todo = IF byNumber /\ ~none THEN Range(ResolveQueryCatalogs(q)) ELSE {}]

StartHistory(c) ==
    /\ held' = [held EXCEPT ![c] = rows]
    /\ stable' = [stable EXCEPT ![c] = rows]

End(c, left, status) ==
    /\ client' = [client EXCEPT ![c] = [left EXCEPT !.pc = "ended", !.status = status]]
    /\ held' = [held EXCEPT ![c] = {}] /\ stable' = [stable EXCEPT ![c] = {}]
    /\ UNCHANGED <<rows, velocityUnits, edits, quiet>>

QuerySimple(c, q) ==
    /\ client[c].pc = "idle"
    /\ ValidParameters(q) /\ ResolvableCatalogs(q)
    /\ client' = [client EXCEPT ![c] = PageAsked(@, q, 0)]
    /\ StartHistory(c)
    /\ quiet' = [quiet EXCEPT ![c] = TRUE]
    /\ UNCHANGED <<rows, velocityUnits, edits>>

Reject(c, q) ==
    /\ client[c].pc = "idle"
    /\ ~(ValidParameters(q) /\ ResolvableCatalogs(q))
    /\ End(c, NewClient, "rejected")

\* One worker of the error group reads its catalog.
QueryCatalog(c, k) ==
    /\ client[c].pc = "reading" /\ k \in client[c].todo
    /\ client' = [client EXCEPT ![c].todo = @ \ {k},
                     ![c].got = @ \cup {r \in rows : r.table = k /\ r.pgc \in Range(NumbersOfPage(c))}]
    /\ UNCHANGED <<rows, velocityUnits, edits, held, stable, quiet>>

\* Mutant: the error of a worker is dropped.
QueryCatalogSkips(c, k) ==
    /\ client[c].pc = "reading" /\ k \in client[c].todo
    /\ client' = [client EXCEPT ![c].todo = @ \ {k}]
    /\ UNCHANGED <<rows, velocityUnits, edits, held, stable, quiet>>

\* A worker fails; wait() raises its error when all of them are done.
QueryCatalogFails(c, k) ==
    /\ client[c].pc = "reading" /\ k \in client[c].todo
    /\ client' = [client EXCEPT ![c].todo = @ \ {k}, ![c].status = "lost"]
    /\ UNCHANGED <<rows, velocityUnits, edits, held, stable, quiet>>

\* Which units the answer needs: an object with a position and a redshift gets its
\* velocities, and their units are added to the shared schema.
HasVelocity(o) == {"icrs", "redshift"} \subseteq {r.table : r \in o.shown}
NeedsUnits(objects) == \E i \in DOMAIN objects : HasVelocity(objects[i])

\* Mutant: every response starts with an empty schema.
UnitsAfresh(objects) == IF NeedsUnits(objects) THEN Apexes ELSE {}

UnitsAfter(objects) == velocityUnits \cup (IF NeedsUnits(objects) THEN Apexes ELSE {})

BuildResponse(c, objects) ==
    /\ client' = [client EXCEPT ![c].pc = "built", ![c].status = "ok", ![c].answer = objects]
    /\ velocityUnits' = UnitsAfter(objects)
    /\ UNCHANGED <<rows, edits, held, stable, quiet>>

ObjectFromMaps(c, p) == [pgc |-> p, shown |-> {r \in client[c].got : r.pgc = p}]

Collect(c) ==
    /\ client[c].pc = "reading" /\ client[c].todo = {} /\ client[c].status = "none"
    /\ LET numbers == NumbersOfPage(c)
       IN  BuildResponse(c, [i \in DOMAIN numbers |-> ObjectFromMaps(c, numbers[i])])

CollectFails(c) ==
    /\ client[c].pc = "reading" /\ client[c].todo = {} /\ client[c].status = "lost"
    /\ End(c, NewClient, "lost")

Search(c) ==
    LET q == client[c].query
        cats == ResolveQueryCatalogs(q)
        f == BuildFilters(q)
    IN  /\ client[c].pc = "searching" /\ Answerable(f, cats) /\ q.size >= 0
        /\ \E s \in Orders(Matching(f, cats), q) :
               BuildResponse(c, GroupByPgc(PageOf(s, q, client[c].page), cats))

\* The statement cannot be executed: a LIMIT below zero is an error as well.
SearchError(c) ==
    LET q == client[c].query
    IN  /\ client[c].pc = "searching"
        /\ ~Answerable(BuildFilters(q), ResolveQueryCatalogs(q)) \/ q.size < 0
        /\ End(c, client[c], "error")

SearchFails(c) == client[c].pc = "searching" /\ End(c, NewClient, "lost")

\* The response is serialized after the handler has returned.
Send(c) ==
    /\ client[c].pc = "built"
    /\ client' = [client EXCEPT ![c].pc = "sent", ![c].schema = velocityUnits,
                     ![c].seen = @ \o [i \in DOMAIN client[c].answer |-> client[c].answer[i].pgc]]
    /\ UNCHANGED <<rows, velocityUnits, edits, held, stable, quiet>>

\* The client asks for the next page until one is empty.
NextPage(c) ==
    /\ client[c].pc = "sent" /\ client[c].answer # <<>>
    /\ client' = [client EXCEPT ![c] = PageAsked(@, @.query, @.page + 1)]
    /\ StartHistory(c)
    /\ UNCHANGED <<rows, velocityUnits, edits, quiet>>

LastPage(c) ==
    /\ client[c].pc = "sent" /\ client[c].answer = <<>>
    /\ End(c, NewClient, "ok")

-------------------------------------------------------------------------------
(* The writers of the tables *)

Waiting(c) == client[c].pc \in {"reading", "searching"}

Change(new) ==
    /\ edits < EditLimit /\ new # rows
    /\ rows' = new /\ edits' = edits + 1
    /\ held' = [c \in Clients |-> IF Waiting(c) THEN held[c] \cup new ELSE held[c]]
    /\ stable' = [c \in Clients |-> IF Waiting(c) THEN stable[c] \cap new ELSE stable[c]]
    /\ quiet' = [c \in Clients |-> client[c].pc = "idle"]
    /\ UNCHANGED <<client, velocityUnits>>

\* An import task stores one row of an object, or removes the object from a catalog,
\* each catalog in a statement of its own; a view gains a row.
Save(row) ==
    LET replaced == IF row.table \in Views THEN {}
                    ELSE {r \in rows : r.table = row.table /\ r.pgc = row.pgc}
    IN  Change((rows \ replaced) \cup {row})
RemovePgc(p, t) == Change({r \in rows : r.pgc # p \/ r.table # t})

Next ==
    \/ \E c \in Clients :
          \/ \E q \in Queries : QuerySimple(c, q) \/ Reject(c, q)
          \/ \E k \in Tables : QueryCatalog(c, k) \/ QueryCatalogFails(c, k)
          \/ Collect(c) \/ CollectFails(c)
          \/ Search(c) \/ SearchError(c) \/ SearchFails(c)
          \/ Send(c) \/ NextPage(c) \/ LastPage(c)
    \/ \E row \in Saves : Save(row)
    \/ \E p \in Pgcs, t \in Tables \ Views : RemovePgc(p, t)

Spec == Init /\ [][Next]_vars

-------------------------------------------------------------------------------
(* Properties *)

Statuses == {"none", "ok", "rejected", "lost", "error"}
Numbers == Pgcs \cup UNION {Range(q.pgcs) : q \in Queries}
Objects == [pgc : Numbers, shown : SUBSET Rows]
ClientStates ==
    [pc : {"idle", "reading", "searching", "built", "sent", "ended"},
     query : Queries \cup {None}, page : Nat, todo : SUBSET Tables, got : SUBSET Rows,
     status : Statuses, answer : Seq(Objects), schema : {{}, Apexes}, seen : Seq(Numbers)]

\* The shape of the state.
TypeOK ==
    /\ rows \subseteq Rows
    /\ client \in [Clients -> ClientStates]
    /\ velocityUnits \in {{}, Apexes}
    /\ edits \in 0..EditLimit
    /\ held \in [Clients -> SUBSET Rows] /\ stable \in [Clients -> SUBSET Rows]
    /\ quiet \in [Clients -> BOOLEAN]

\* The catalogs of an answer are read at different moments, but each object shows
\* every row that was there all the time the page was prepared, and no row that never
\* was: a catalog that is missing from a 200 was missing from the table.
AnswerWithinHistory ==
    \A c \in Clients : client[c].pc = "built" =>
        \A o \in Range(client[c].answer) :
            /\ o.shown \subseteq held[c]
            /\ {r \in stable[c] : /\ r.pgc = o.pgc
                                  /\ r.table \in Range(ResolveQueryCatalogs(client[c].query))}
                   \subseteq o.shown

\* The objects that meet every condition of a request, read off the tables one by one.
Meets(p, f) ==
    \E row \in Combined(Tables, p) : Matches(f, row)
Expected(q) == {p \in Present("icrs") : Meets(p, BuildFilters(q))}

Distance(p) == CHOOSE d \in Cells("icrs", p) : TRUE
Nearer(a, b) == Distance(a) < Distance(b) \/ (Distance(a) = Distance(b) /\ a < b)

\* The numbers asked for, each as often as it was asked for, in ascending order.
Ascends(s, pgcs) ==
    /\ \A i, j \in DOMAIN s : i < j => s[i] <= s[j]
    /\ \E b \in Bijection(DOMAIN s, DOMAIN pgcs) : \A i \in DOMAIN s : s[i] = pgcs[b[i]]

\* The objects that are expected, each once, nearest first.
NearestFirst(s, q) ==
    Range(s) = Expected(q) /\ \A i, j \in DOMAIN s : i < j => Nearer(s[i], s[j])

\* Numbers come in ascending order and all of them, except for a page size below zero,
\* which is accepted: then the last -size ones are on no page.
NumbersKept(q) == IF q.size > 0 THEN Len(q.pgcs) ELSE Larger(Len(q.pgcs) + q.size, 0)
NumbersWalked(s, q) ==
    \E all \in [DOMAIN q.pgcs -> Range(q.pgcs)] :
        Ascends(all, q.pgcs) /\ s = SubSeq(all, 1, NumbersKept(q))

\* Numbers, and searches around a centre, have a total order: while the tables do not
\* change, the pages up to the first empty one hold every object once, nearest first,
\* and every number unless the page size is below zero.
WalkComplete ==
    \A c \in Clients :
        LET q == client[c].query
        IN  (client[c].pc = "sent" /\ client[c].answer = <<>> /\ quiet[c] /\ q.size # 0)
                => IF q.pgcs # <<>> THEN NumbersWalked(client[c].seen, q)
                   ELSE HasCenter(q) => NearestFirst(client[c].seen, q)

\* LEFT JOINs onto the driving table find exactly the rows the FULL JOIN of all tables
\* would, for conjunctions and disjunctions of every kind of filter.  Only the tables
\* matter, so it is looked at while no client has begun.
FullJoin(ts) ==
    UNION {Combined(ts, p) : p \in UNION {Present(t) : t \in ts}}
DrivingJoinEquivalent ==
    (\A c \in Clients : client[c].pc = "idle") =>
    \A f \in Filters : (DrivingTable(f) # None /\ Answerable(f, EnabledCatalogs)) =>
        Matching(f, EnabledCatalogs) =
            {row \in FullJoin(Range(EnabledCatalogs) \cup {DrivingTable(f)}) : Matches(f, row)}

\* The schema sent with velocities has their units, although it is read from the shared
\* object only when the response is serialized.
SchemaCoversVelocities ==
    \A c \in Clients :
        (client[c].pc = "sent" /\ NeedsUnits(client[c].answer)) => client[c].schema = Apexes

\* The inductive invariant.  A client that begins has seen nothing; one that is served
\* sent a valid request, of numbers or of conditions; what was there all the time is
\* there, and what is there was there.
Served(c) == client[c].pc \notin {"idle", "ended"}
RequestFits(c) ==
    LET q == client[c].query
    IN  /\ client[c].pc = "idle" => client[c].seen = <<>>
        /\ Served(c) =>
            /\ q \in Queries /\ ValidParameters(q) /\ ResolvableCatalogs(q)
            /\ client[c].pc = "reading" => q.pgcs # <<>>
            /\ client[c].pc = "searching" => q.pgcs = <<>>
            /\ (client[c].pc \in {"built", "sent"} /\ q.pgcs = <<>>) =>
                  Answerable(BuildFilters(q), ResolveQueryCatalogs(q)) /\ q.size >= 0
HistoryFits(c) == Waiting(c) => stable[c] \subseteq rows /\ rows \subseteq held[c]

\* The workers that are through, all well, have read what was there all the time.
ReadSoFar(c) ==
    (client[c].pc = "reading" /\ client[c].status = "none") =>
        /\ client[c].got \subseteq held[c]
        /\ {r \in stable[c] : /\ r.pgc \in Range(NumbersOfPage(c))
                              /\ r.table \in Range(ResolveQueryCatalogs(client[c].query))
                              /\ r.table \notin client[c].todo} \subseteq client[c].got

\* What the pages of a walk are cut from: the numbers, or the rows of the search.
Walk(q) ==
    IF q.pgcs # <<>> THEN SortedPgcs(q)
    ELSE LET found == ByDistance(Matching(BuildFilters(q), ResolveQueryCatalogs(q)))
         IN  [i \in DOMAIN found |-> found[i].pgc]
Ordered(q) == q.pgcs # <<>> \/ HasCenter(q)
NumbersIn(objects) == [i \in DOMAIN objects |-> objects[i].pgc]

\* How far the first n pages go: below zero no page after the first has anything.
Reached(q, n, walk) ==
    IF n = 0 THEN 0 ELSE Bound(IF q.size < 0 THEN q.size ELSE n * q.size, walk)

\* The pages so far are the beginning of the walk.
SeenSoFar(c) ==
    LET q == client[c].query
        walk == Walk(q)
        past == client[c].page + IF client[c].pc = "sent" THEN 1 ELSE 0
    IN  (Served(c) /\ quiet[c] /\ Ordered(q)) =>
            /\ client[c].seen = SubSeq(walk, 1, Reached(q, past, walk))
            /\ client[c].pc \in {"built", "sent"} =>
                   NumbersIn(client[c].answer) = PageOf(walk, q, client[c].page)

\* The units of an answer that is not sent yet are in the shared schema.
UnitsReady(c) ==
    (client[c].pc = "built" /\ NeedsUnits(client[c].answer)) => velocityUnits = Apexes

IInv ==
    /\ TypeOK /\ Keyed(rows)
    /\ \A c \in Clients : /\ RequestFits(c) /\ HistoryFits(c) /\ ReadSoFar(c)
                          /\ SeenSoFar(c) /\ UnitsReady(c)
    /\ AnswerWithinHistory /\ SchemaCoversVelocities

\* dataapi/presentation/server.py:60: "All of the conditions are combined with the
\* logical AND operator."  A search the service accepts shows, page by page, the objects
\* that meet its conditions; it is not answered with an error.
SearchFindsAll ==
    \A c \in Clients :
        LET q == client[c].query
        IN  (client[c].pc = "ended" /\ client[c].status = "error" /\ quiet[c])
                => \A p \in Pgcs : ~Meets(p, BuildFilters(q))
===============================================================================
