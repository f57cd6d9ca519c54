----------------------------- MODULE FilterTrees ------------------------------
(***************************************************************************)
(* The methods of the filters as recursions over their parts.  DataApiQuery *)
(* knows them by the equations they satisfy.                               *)
(***************************************************************************)
EXTENDS DataApiQuery

RECURSIVE HeightOf(_)
HeightOf(f) ==
    IF f.parts = <<>> THEN 0
    ELSE LET of == {HeightOf(f.parts[i]) : i \in DOMAIN f.parts}
         IN  1 + CHOOSE h \in of : \A g \in of : g <= h

RECURSIVE GetQuery(_, _)
GetQuery(f, row) == Holds(f, row, {i \in DOMAIN f.parts : GetQuery(f.parts[i], row)})

RECURSIVE TablesInQuery(_)
TablesInQuery(f) == Mentions(f, [i \in DOMAIN f.parts |-> TablesInQuery(f.parts[i])])

RECURSIVE DrivingTableOf(_)
DrivingTableOf(f) == Drives(f, [i \in DOMAIN f.parts |-> DrivingTableOf(f.parts[i])])
===============================================================================
