---------------------------- MODULE MCDataApiQuery ----------------------------
(***************************************************************************)
(* Small instances of DataApiQuery: three objects, one of them without a   *)
(* designation, one beyond the radius, one with two names.                 *)
(***************************************************************************)
EXTENDS FilterTrees, TLC

CONSTANTS m31, ugc

Row(t, p, v) == [table |-> t, pgc |-> p, value |-> v]
Full ==
    {Row("designation", 1, m31), Row("icrs", 1, 1), Row("redshift", 1, Plain),
     Row("additional_designations", 1, m31), Row("additional_designations", 1, ugc),
     Row("icrs", 2, 0), Row("designation", 3, ugc), Row("icrs", 3, 1)}
Sparse == {Row("icrs", 1, Reach + 1), Row("redshift", 2, Plain),
           Row("additional_designations", 2, ugc)}
FullAndSparse == {Full, Sparse}
OnlyFull == {Full}
SomeSaves == {Row("icrs", 2, Reach + 1), Row("redshift", 3, Plain),
              Row("additional_designations", 3, m31)}

Ask(pgcs, given, name, size, catalogs) ==
    [pgcs |-> pgcs, given |-> given, outOfRange |-> {}, name |-> name, size |-> size,
     catalogs |-> catalogs]
Cone == {"ra", "dec", "radius"}

Menu ==
    {Ask(<<3, 1, 3>>, {}, None, 2, <<"icrs", "redshift", "icrs">>),
     Ask(<<>>, {"glon", "glat", "radius"}, None, 2, <<"redshift", "icrs">>),
     Ask(<<>>, {}, {ugc}, 1, <<"icrs">>),
     Ask(<<>>, {"ra", "dec"}, None, 2, <<"designation", "icrs">>),
     Ask(<<2, 3, 1>>, {}, None, -1, <<"icrs">>),
     Ask(<<>>, Cone, None, -1, <<"icrs">>),
     Ask(<<1>>, Cone, None, 1, None),
     Ask(<<>>, Cone, {ugc}, 2, None)}

ConeWithName == {Ask(<<>>, Cone, {ugc}, 2, None), Ask(<<1, 2>>, {}, None, 1, <<"icrs">>)}

\* The filters of the service, and the pairs of filters of every kind, inside one another
\* once.
Leaves == {PGCOneOf({1}), DesignationIn(Designations), DesignationLike(Designations),
           CoordinatesInRadius}
Kinds == {"and", "or"}
Pairs == {Pair(k, <<a, b>>) : k \in Kinds, a \in Leaves, b \in Leaves}
Nested == {Pair(k, <<f, a>>) : k \in Kinds, a \in Leaves,
                               f \in {Pair(j, <<CoordinatesInRadius, b>>) : j \in Kinds, b \in Leaves}}
ServiceFilters(queries) == {DesignationLike({ugc})} \cup {BuildFilters(q) : q \in queries}
Trees == Leaves \cup Pairs \cup Nested \cup ServiceFilters(Menu) \cup {Pair(k, <<>>) : k \in Kinds}
ConeFilters == {CoordinatesInRadius} \cup ServiceFilters(ConeWithName)

Symmetry == Permutations(Clients)
===============================================================================
