\* ADD-only clients, as the DNS plugins are: the collector against the handlers.
SPECIFICATION FairDaemonSpec
CONSTANTS
    a1 = a1
    a2 = a2
    b1 = b1
    T1 = T1
    T2 = T2
    Entries = {a1, b1}
    Tables = {T1, T2}
    TableOf <- MCTableOf
    TTLs = {1, 2}
    MaxBatch = 2
    Conns = {c1, c2}
    Commands = {"ADD"}
    Faults = {}
    Restarts = FALSE
    Stalls = FALSE
INVARIANT NoOrphan
INVARIANT SingleInstaller
PROPERTY EventuallyEvicted
PROPERTY EveryRequestAcked
