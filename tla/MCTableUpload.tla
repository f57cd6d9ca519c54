---------------------------- MODULE MCTableUpload ----------------------------
(***************************************************************************)
(* Small instances of TableUpload: one content, a table that exists        *)
(* already, and two tables that an earlier rename has split.               *)
(***************************************************************************)
EXTENDS TableUpload, TLC

CONSTANTS A, B, C, D, E, F, x, ads, internal, initiated, archived

OneTable == [t \in TableIds |-> IF t = 1 THEN A ELSE None]

\* Table 1 is whole. Table 2 was D; a rename of D to E overlapped another of D to F,
\* and table 3 was created as D between them: the second rename gave F to the row of
\* table 2 and to the relation of table 3.
SplitNames     == (2 :> F) @@ (3 :> D) @@ OneTable
SplitRelations == (2 :> E) @@ (3 :> F) @@ OneTable

Create(n, s) == [op |-> "create", name |-> n, source |-> s]
Patch(n, new, s) == [op |-> "patch", name |-> n, new |-> new, status |-> s]
Add(n, fits) == [op |-> "add", name |-> n, rows |-> {x}, fits |-> fits]

\* Uploads, creations of a new, an existing and a freed name, and renames that
\* cross them; a creation that meets a split table.
FullMenu == {Create(A, ads), Create(B, ads), Create(A, internal), Create(E, ads),
             Add(A, TRUE), Add(A, FALSE),
             Patch(A, B, archived), Patch(A, C, None), Patch(A, None, archived)}
\* The opposite lock orders, and what meets them.
RenameMenu == {Create(A, ads), Patch(A, B, None), Patch(A, C, None)}
Symmetry == Permutations(Calls)
===============================================================================
