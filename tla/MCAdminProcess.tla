----------------------------- MODULE MCAdminProcess -----------------------------
(***************************************************************************)
(* Two handlers that may both upload, with two workers each, and a pool of *)
(* one connection more than handlers.                                      *)
(***************************************************************************)
EXTENDS AdminProcess

CONSTANTS h1, h2, c1, c2, c3, r1, r2
===============================================================================
