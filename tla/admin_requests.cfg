\* Three requests of one user who has two tokens; the limit is one below the code's.
CONSTANTS
    k1 = k1
    ann = ann
    bob = bob
    dba = dba
    mail = mail
    post = post
    None = None
    Requests = {q1, q2, q3}
    Sendable <- Menu
    Logins = {ann, bob, dba}
    Emails = {mail, post}
    InitialUsers <- OneUser
    InitialTokens = {k1}
    InitialExpiry <- FirstExpiry
    OtherRoles = {dba}
    Lifetime = 2
    TokenLimit = 2
    AuthEnabled = TRUE
    MaxClock = 3
    MaxCrashes = 1
SYMMETRY Symmetry
SPECIFICATION Spec
INVARIANTS
    TypeOK
    AuditAccounts
    HandledWithToken
    RegisteredWithRole
PROPERTIES
    SolitaryLoginPrunes
\* Every request is sent once: the system stops.
CHECK_DEADLOCK FALSE
