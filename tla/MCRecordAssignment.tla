-------------------------- MODULE MCRecordAssignment --------------------------
(***************************************************************************)
(* Small instances of RecordAssignment: two records, two legacy objects,   *)
(* and menus that pit the handlers against each other.                     *)
(***************************************************************************)
EXTENDS RecordAssignment, TLC

CONSTANTS r1, r2

Row(triage, candidates) == [triage |-> triage, candidates |-> candidates]
New       == Row("resolved", <<>>)
Existing  == Row("resolved", <<1>>)
Unknown   == Row("resolved", <<99>>)   \* a candidate that is not registered
Collided  == Row("resolved", <<1, 2>>)
Pending   == Row("pending", <<>>)

Assign(ids) == [op |-> "assign", ids |-> ids]
Merge(target, sources) == [op |-> "merge", target |-> target, sources |-> sources]
SetRows(rows) == [op |-> "crossmatch", rows |-> rows]

\* Assignments of overlapping sets of records.
Assigns == {Assign({r1}), Assign({r1, r2})}
\* Opposite merges of the two legacy objects.
Merges == {Merge(1, {2}), Merge(2, {1})}
\* Later crossmatch results of r1, and one call that writes both records, the second
\* with a candidate that is not registered.
Rematches == {SetRows(r1 :> row) : row \in {New, Existing, Collided, Pending}}
                 \cup {SetRows(r1 :> New @@ r2 :> Unknown)}

FullMenu == Assigns \cup Merges \cup Rematches \cup {Merge(1, {99})}
EarlierRows == {None, New, Existing, Collided}
===============================================================================
