\* Two clients walk through pages while a row changes.
CONSTANTS
    m31 = m31
    ugc = ugc
    None = None
    Plain = Plain
    Pgcs = {1, 2, 3}
    Clients = {c1, c2}
    Queries <- Menu
    Reach = 1
    Designations = {m31, ugc}
    Apexes = {"lg"}
    Stores <- FullAndSparse
    Saves <- SomeSaves
    EditLimit = 1
    Filters <- Trees
    Height <- HeightOf
    Matches <- GetQuery
    TablesOf <- TablesInQuery
    DrivingTable <- DrivingTableOf
SYMMETRY Symmetry
SPECIFICATION Spec
INVARIANTS
    TypeOK
    AnswerWithinHistory
    WalkComplete
    DrivingJoinEquivalent
    SchemaCoversVelocities
\* Clients end their walks and edits are bounded: the system stops.
CHECK_DEADLOCK FALSE
