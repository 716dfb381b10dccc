\* Three queries and a pool of one, with Close at any moment.
SPECIFICATION FairPoolSpec
CONSTANTS
    Queries = {q1, q2, q3}
    Conns = {c1, c2, c3, c4}
    Nil = Nil
    PoolCap = 1
CHECK_DEADLOCK FALSE
INVARIANT OneOwner
PROPERTY ClosedReleasesAll
