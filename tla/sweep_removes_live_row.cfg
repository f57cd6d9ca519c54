\* The orphan cleanup task after two edits.
CONSTANTS
    r1 = r1
    r2 = r2
    t1 = t1
    t2 = t2
    icrs = icrs
    nature = nature
    v1 = v1
    v2 = v2
    None = None
    Records = {r1, r2}
    Pgcs = {1, 2}
    Catalogs = {icrs, nature}
    Weighted = {icrs}
    Tables = {t1, t2}
    TableOf <- OneTable
    Values = {v1}
    Edits = {e1, e2}
    Jobs = {j1}
    Plans <- PlanOne
    Since <- LastUpdateOnly
    Cleanup = {TRUE}
    MaxRuns = 1
    BatchSize = 1
    SweepOrder <- Sweep
    InitialPgc <- SomeAssigned
    InitialLayer1 <- TwoCatalogs
SYMMETRY Symmetry
SPECIFICATION Spec
PROPERTIES
    SweepRemovesOrphans
\* Edits and runs are bounded: the system stops when all are used.
CHECK_DEADLOCK FALSE
