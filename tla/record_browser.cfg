\* Two changes of the database, one refresh of the statistics and one request.
CONSTANTS
    t1 = t1
    t2 = t2
    t3 = t3
    a = a
    b = b
    c = c
    p1 = p1
    p2 = p2
    icrs = icrs
    nature = nature
    note = note
    None = None
    Records = {1, 2, 3}
    Tables = {t1, t2, t3}
    Names = {a, b, c}
    Pgcs = {p1, p2}
    Catalogs = {icrs, nature, note}
    Shown = {icrs, nature}
    Home <- Tables3
    Payloads <- Sent
    Requests <- Menu
    FirstName <- Named
    FirstRecords <- Loaded
    FirstCrossmatch <- Matched
    FirstPgc <- Numbered
    FirstLayer1 <- Structured
    MaxEdits = 2
    MaxRefreshes = 1
    MaxCalls = 1
SPECIFICATION Spec
INVARIANTS
    TypeOK
    RowsAligned
    ProgressAccounts
    OneTablePerAnswer
PROPERTIES
    CountedStayCounted
    CrossmatchAnswered
\* The changes, refreshes and requests are bounded.
CHECK_DEADLOCK FALSE
