\* Two handlers, their four workers, three connections.
CONSTANTS
    h1 = h1
    h2 = h2
    c1 = c1
    c2 = c2
    c3 = c3
    r1 = r1
    r2 = r2
    None = None
    Conns = {c1, c2, c3}
    Handlers = {h1, h2}
    Refreshers = {r1, r2}
SPECIFICATION FairSpec
INVARIANTS
    TypeOK
    ConnectionsApart
    ReadOnlyReturned
    NoConvoy
    OneRefreshAtATime
    RolesAreRead
PROPERTIES
    RefresherEnds
\* The process ends.
CHECK_DEADLOCK FALSE
