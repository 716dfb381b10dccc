\* Six addresses in two tables: a heap of three levels, in which the entry that takes
\* the place of a removed one may have to go up.
SPECIFICATION HeapSpec
CONSTANTS
    b1 = b1
    T1 = T1
    T2 = T2
    Entries = {a1, a2, a3, a4, a5, b1}
    Tables = {T1, T2}
    TableOf <- MCTableOf
    TTLs = {0, 1}
    MaxBatch = 2
    MaxTime = 1
    MaxCalls = 7
SYMMETRY MCSymmetry
CHECK_DEADLOCK FALSE
INVARIANT HeapConsistent
INVARIANT MetricsConserved
PROPERTY OldestFirst
PROPERTY ImplementsTracker
