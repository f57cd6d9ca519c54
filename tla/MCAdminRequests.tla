---------------------------- MODULE MCAdminRequests ----------------------------
(***************************************************************************)
(* Small instances of AdminRequests: three requests of one user with two   *)
(* tokens, and a name somebody else's database role has.                   *)
(***************************************************************************)
EXTENDS AdminRequests, TLC

CONSTANTS k1, ann, bob, dba, mail, post

OneUser == {[login |-> ann, email |-> mail]}

FirstExpiry == k1 :> 1
To(route) == [route |-> route, login |-> None, email |-> None]
Menu == {To("create_table"), To("get_table"), To("logout"),
         [route |-> "login", login |-> ann, email |-> None],
         [route |-> "register", login |-> bob, email |-> post],
         [route |-> "register", login |-> dba, email |-> post]}

Symmetry == Permutations(Requests)
===============================================================================
