------------------------------ MODULE PgcLedger ------------------------------
(***************************************************************************)
(* What layer 0 promises its readers about the column layer0.records.pgc   *)
(* and the registry common.pgc, seen only through committed data: a batch  *)
(* of unassigned records receives PGC numbers at once, or all the records  *)
(* that change move to one target at once; nothing else ever happens to    *)
(* the two tables.                                                         *)
(***************************************************************************)
EXTENDS Naturals

CONSTANTS Records,      \* record ids of layer0.records
          None,         \* SQL NULL
          InitialPgcs   \* PGC numbers registered before the behaviour starts

VARIABLES recordPgc,    \* layer0.records.pgc, as committed
          registry      \* ids of common.pgc, as committed

ledgerVars == <<recordPgc, registry>>

LedgerInit ==
    /\ registry = InitialPgcs
    /\ recordPgc \in [Records -> InitialPgcs \cup {None}]

Changed == {r \in Records : recordPgc'[r] # recordPgc[r]}

\* A batch of unassigned records is assigned. A number that was not
\* registered before is registered with this batch and is given to exactly one
\* of its records.
AssignBatch ==
    /\ \A r \in Changed : recordPgc[r] = None
    /\ registry' = registry \cup {recordPgc'[r] : r \in Changed}
    /\ \A r, s \in Changed :
          r # s /\ recordPgc'[r] = recordPgc'[s] => recordPgc'[r] \in registry

\* Records that already have a number move together to a registered target;
\* no number is ever retired.
MoveBatch ==
    /\ \E target \in registry :
          \A r \in Changed : recordPgc[r] # None /\ recordPgc'[r] = target
    /\ registry' = registry

LedgerNext ==
    /\ recordPgc' \in [Records -> Nat \cup {None}]
    /\ AssignBatch \/ MoveBatch

LedgerSpec == LedgerInit /\ [][LedgerNext]_ledgerVars
==============================================================================
