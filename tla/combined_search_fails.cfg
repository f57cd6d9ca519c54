\* A search around a centre for a name.
CONSTANTS
    m31 = m31
    ugc = ugc
    None = None
    Plain = Plain
    Pgcs = {1, 2, 3}
    Clients = {c1}
    Queries <- ConeWithName
    Reach = 1
    Designations = {m31, ugc}
    Apexes = {"lg"}
    Stores <- OnlyFull
    Saves <- SomeSaves
    EditLimit = 0
    Filters <- ConeFilters
    Height <- HeightOf
    Matches <- GetQuery
    TablesOf <- TablesInQuery
    DrivingTable <- DrivingTableOf
SPECIFICATION Spec
INVARIANTS
    SearchFindsAll
\* Clients end their walks and edits are bounded: the system stops.
CHECK_DEADLOCK FALSE
