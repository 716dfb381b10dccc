\* Two queries and the daemon, with failing ioctls and handlers that may stall.
SPECIFICATION PipelineSpec
CONSTANTS
    T1 = T1
    Entries = {a1}
    Tables = {T1}
    TableOf <- MCTableOf
    TTLs = {0, 3}
    MaxBatch = 2
    Conns = {c1, c2}
    Commands = {"ADD"}
    Faults = {"add"}
    Restarts = FALSE
    Stalls = TRUE
    Queries = {q1, q2}
    NoConn = NoConn
    MinTTL = 1
    MaxTTL = 3
    PoolCap = 1
INVARIANT CacheBacked
INVARIANT PooledConnsIdle
