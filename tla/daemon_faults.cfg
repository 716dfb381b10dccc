\* Everything at once: all commands, failing ioctls, restarts, stalled handlers.
SPECIFICATION DaemonSpec
CONSTANTS
    a1 = a1
    a2 = a2
    b1 = b1
    T1 = T1
    T2 = T2
    Entries = {a1, a2}
    Tables = {T1}
    TableOf <- MCTableOf
    TTLs = {0, 2}
    MaxBatch = 1
    Conns = {c1, c2}
    Commands = {"ADD", "DEL", "FLUSH"}
    Faults = {"add", "del"}
    Restarts = TRUE
    Stalls = TRUE
SYMMETRY ConnSymmetry
PROPERTY NoSilentLeak
PROPERTY NoSilentLoss
