---------------------------- MODULE MCRecordBrowser ----------------------------
(***************************************************************************)
(* A small instance of RecordBrowser: a table of two records, one of them  *)
(* crossmatched, and a table of one.                                       *)
(***************************************************************************)
EXTENDS RecordBrowser, TLC

CONSTANTS t1, t2, t3, a, b, c, p1, p2, icrs, nature, note

Tables3 == 1 :> t1 @@ 2 :> t1 @@ 3 :> t2
Named == t1 :> a @@ t2 :> b @@ t3 :> None
Loaded == {1, 3}
FirstResult == [triage |-> "resolved", candidates |-> {p1}]
Matched == 1 :> FirstResult @@ 2 :> None @@ 3 :> None
Numbered == 1 :> p1 @@ 2 :> None @@ 3 :> None
Structured == icrs :> {} @@ nature :> {1} @@ note :> {1}

Empty == [r \in {} |-> {}]
Sent ==
    {[new |-> 3 :> {}, existing |-> Empty, collided |-> 1 :> {p1, p2}, triage |-> None],
     [new |-> 1 :> {}, existing |-> 1 :> {p2}, collided |-> Empty, triage |-> "pending"]}

Records3(upload, number, triage, page) ==
    [kind |-> "records", name |-> a, upload |-> upload, pgc |-> number, triage |-> triage,
     size |-> 2, page |-> page]
Menu == {Records3("any", None, "any", 0), Records3("uploaded", p1, "resolved", 0),
         Records3("pending", None, "unprocessed", 0),
         [kind |-> "table", name |-> a], [kind |-> "table", name |-> c], [kind |-> "list"], [kind |-> "tap"],
         [kind |-> "crossmatch", record |-> 1], [kind |-> "crossmatch", record |-> 2]}
===============================================================================
