\* Three concurrent calls of any kind around a table that exists, beside two that a rename has split.
CONSTANTS
    A = A
    B = B
    C = C
    D = D
    E = E
    F = F
    x = x
    ads = ads
    internal = internal
    initiated = initiated
    archived = archived
    None = None
    Names = {A, B, C, D, E, F}
    Rows = {x}
    Statuses = {initiated, archived}
    Default = initiated
    Sources = {ads, internal}
    Bibcodes = {ads}
    TableIds = {1, 2, 3, 4, 5, 6}
    FirstTable = 4
    Calls = {c1, c2, c3}
    Menu <- FullMenu
    InitialNames <- SplitNames
    InitialRelations <- SplitRelations
SPECIFICATION FairSpec
INVARIANTS
    TypeOK
    NamesAgree
    RecordIsLocated
    OnlyRenamesMoveNames
PROPERTIES
    EveryCallEnds
\* Every call is served once: the system stops when all are finished.
CHECK_DEADLOCK FALSE
