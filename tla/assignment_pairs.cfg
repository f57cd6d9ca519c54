\* Two concurrent calls of any kind, over every mix of earlier crossmatch rows.
CONSTANTS
    r1 = r1
    r2 = r2
    None = None
    Records = {r1, r2}
    Requests = {q1, q2}
    Menu <- FullMenu
    InitialPgcs = {1, 2}
    FirstPgc = 3
    InitialRows <- EarlierRows
SPECIFICATION FairSpec
INVARIANTS
    TypeOK
    NoOrphanObject
PROPERTIES
    NoSilentReassignment
    AssignmentFollowsCrossmatch
    ChangeIsTouched
    AllAssignedUnlessCollided
    LedgerSpec
    EveryRequestEnds
\* Every request is served once: the system stops when all are finished.
CHECK_DEADLOCK FALSE
