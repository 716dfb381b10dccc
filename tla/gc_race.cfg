\* One client, nothing fails, nothing stalls: the collector against a renewal.
SPECIFICATION DaemonSpec
CONSTANTS
    a1 = a1
    a2 = a2
    b1 = b1
    T1 = T1
    T2 = T2
    Entries = {a1}
    Tables = {T1}
    TableOf <- MCTableOf
    TTLs = {1, 2}
    MaxBatch = 1
    Conns = {c1}
    Commands = {"ADD"}
    Faults = {}
    Restarts = FALSE
    Stalls = FALSE
PROPERTY OnlyExpiredEvicted
