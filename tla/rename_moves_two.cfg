\* Two renames of a name around its creation.
CONSTANTS
    A = A
    B = B
    C = C
    D = D
    E = E
    F = F
    x = x
    ads = ads
    internal = internal
    initiated = initiated
    archived = archived
    None = None
    Names = {A, B, C}
    Rows = {x}
    Statuses = {initiated, archived}
    Default = initiated
    Sources = {ads, internal}
    Bibcodes = {ads}
    TableIds = {1, 2, 3, 4}
    FirstTable = 2
    Calls = {c1, c2, c3}
    Menu <- RenameMenu
    InitialNames <- OneTable
    InitialRelations <- OneTable
SYMMETRY Symmetry
SPECIFICATION Spec
PROPERTIES
    RenameUpdatesBoth
\* Every call is served once: the system stops when all are finished.
CHECK_DEADLOCK FALSE
