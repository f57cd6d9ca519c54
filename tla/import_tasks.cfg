\* Two processes that run tasks, and the orphan cleanup task, around one edit: what
\* they leave behind, and that a task that is started ends, whoever dies.
CONSTANTS
    r1 = r1
    r2 = r2
    t1 = t1
    t2 = t2
    icrs = icrs
    nature = nature
    v1 = v1
    v2 = v2
    None = None
    Records = {r1, r2}
    Pgcs = {1, 2}
    Catalogs = {icrs, nature}
    Weighted = {icrs}
    Tables = {t1, t2}
    TableOf <- OwnTables
    Values = {v1, v2}
    Edits = {e1}
    Jobs = {j1, j2}
    Plans <- PlanBoth
    Since <- LastUpdateOnly
    Cleanup = {TRUE}
    MaxRuns = 2
    BatchSize = 1
    SweepOrder <- Sweep
    InitialPgc <- TwoObjects
    InitialLayer1 <- TwoCatalogs
SPECIFICATION FairSpec
INVARIANTS
    LastUpdateAccounts
PROPERTIES
    TasksEnd
\* Edits and runs are bounded: the system stops when all are used.
CHECK_DEADLOCK FALSE
