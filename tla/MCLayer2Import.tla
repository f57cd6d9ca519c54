---------------------------- MODULE MCLayer2Import ----------------------------
(***************************************************************************)
(* Small instances of Layer2Import: two records of two tables, two         *)
(* objects, a weighted catalog and one that is voted on.                   *)
(***************************************************************************)
EXTENDS Layer2Import, TLC

CONSTANTS r1, r2, t1, t2, icrs, nature, v1, v2

OwnTables == r1 :> t1 @@ r2 :> t2
OneTable  == r1 :> t1 @@ r2 :> t1

TwoObjects == {r1 :> 1 @@ r2 :> 2}
SomeAssigned == TwoObjects \cup {r1 :> 1 @@ r2 :> None}

FullRow == r1 :> v1 @@ r2 :> v1
HalfRow == r1 :> v1 @@ r2 :> None
OneCatalog == {[c \in Catalogs |-> row] : row \in {FullRow, HalfRow}}
TwoCatalogs == {icrs :> FullRow @@ nature :> HalfRow}

PlanOne  == {<<icrs>>}
PlanBoth == {<<nature, icrs>>}
NoSweep == <<>>
Sweep   == <<icrs, nature>>
LastUpdateOnly == {None}
AnySince == {None, 3}

Symmetry == Permutations(Edits) \cup Permutations(Jobs)
===============================================================================
