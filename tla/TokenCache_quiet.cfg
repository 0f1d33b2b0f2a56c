SPECIFICATION FairSpec
CONSTANTS
    Threads = {t1, t2}
    Caches = {c1, c2}
    Delegates = {d1}
    None = None
    Users = {u1, u2}
    Clients = {a}
    WhileInUse = FALSE
INVARIANTS
    LockIsLetGo
PROPERTIES
    WritesAreSaved
    ImplementsTokenStore
    EveryAccessEnds
