\* Two runs of one task around an edit that commits between them.
CONSTANTS
    r1 = r1
    r2 = r2
    t1 = t1
    t2 = t2
    icrs = icrs
    nature = nature
    v1 = v1
    v2 = v2
    None = None
    Records = {r1, r2}
    Pgcs = {1, 2}
    Catalogs = {icrs}
    Weighted = {}
    Tables = {t1, t2}
    TableOf <- OwnTables
    Values = {v1, v2}
    Edits = {e1}
    Jobs = {j1}
    Plans <- PlanOne
    Since <- LastUpdateOnly
    Cleanup = {TRUE}
    MaxRuns = 2
    BatchSize = 1
    SweepOrder <- NoSweep
    InitialPgc <- SomeAssigned
    InitialLayer1 <- OneCatalog
SYMMETRY Symmetry
SPECIFICATION Spec
PROPERTIES
    UpdatedIsAggregated
\* Edits and runs are bounded: the system stops when all are used.
CHECK_DEADLOCK FALSE
