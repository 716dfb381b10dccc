------------------------------- MODULE ConnPool -------------------------------
(***************************************************************************)
(* The connection pool of pkg/plugin/pf_alias.go while the plugin is being *)
(* closed.  getConn, putConn and Close take no lock: they meet only in the *)
(* atomic flag closed and in the buffered channel connPool, and each load, *)
(* store or channel operation is a step of its own.                        *)
(***************************************************************************)
EXTENDS Integers, FiniteSets

CONSTANTS
    Queries,    \* goroutines in sendToAddDaemon
    Conns,      \* the sockets; the name of a closed one is used again
    Nil,        \* a nil net.Conn
    PoolCap     \* the capacity of connPool

ASSUME ConnPoolAssumption == Nil \notin Conns /\ PoolCap \in Nat

VARIABLES
    closed,     \* the flag
    chanOpen,   \* whether connPool is still open
    pool,       \* the connections in the channel
    open,       \* the connections whose socket is open
    qpc,        \* where each query is in sendToAddDaemon
    conn,       \* the connection it has
    closer      \* where Close is

poolVars == <<closed, chanOpen, pool, open, qpc, conn, closer>>

PoolTypeOK ==
    /\ closed \in BOOLEAN /\ chanOpen \in BOOLEAN
    /\ pool \subseteq Conns /\ Cardinality(pool) <= PoolCap
    /\ open \subseteq Conns
    /\ qpc \in [Queries -> {"idle", "get", "use", "put", "panic"}]
    /\ conn \in [Queries -> Conns \cup {Nil}]
    /\ closer \in {"none", "flagged", "draining", "done"}

PoolInit ==
    /\ closed = FALSE /\ chanOpen = TRUE
    /\ pool = {} /\ open = {}
    /\ qpc = [q \in Queries |-> "idle"]
    /\ conn = [q \in Queries |-> Nil]
    /\ closer = "none"

-----------------------------------------------------------------------------
At(q, here) == qpc[q] = here

Goto(q, there) == qpc' = [qpc EXCEPT ![q] = there]

Hold(q, c) == conn' = [conn EXCEPT ![q] = c]

\* The query is over: the error, if any, is logged and Exec returns nil.
Leave(q) == Goto(q, "idle") /\ Hold(q, Nil)

Panic(q) == Goto(q, "panic") /\ UNCHANGED conn

\* getConn: the flag is read; "plugin is closed" ends the query at once, which
\* changes nothing.
Enter(q) ==
    /\ At(q, "idle") /\ ~closed
    /\ Goto(q, "get")
    /\ UNCHANGED <<closed, chanOpen, pool, open, conn, closer>>

\* getConn: the select.  A closed channel is always ready to be received from
\* and, once it is empty, gives nil.
FromPool(q) ==
    /\ At(q, "get")
    /\ \E c \in pool : pool' = pool \ {c} /\ Hold(q, c)
    /\ Goto(q, "use")
    /\ UNCHANGED <<closed, chanOpen, open, closer>>

NilFromClosed(q) ==
    /\ At(q, "get") /\ pool = {} /\ ~chanOpen
    /\ Hold(q, Nil)
    /\ Goto(q, "use")
    /\ UNCHANGED <<closed, chanOpen, pool, open, closer>>

Dial(q) ==
    /\ At(q, "get") /\ pool = {} /\ chanOpen
    /\ \E c \in Conns \ open :
         /\ open' = open \cup {c}
         /\ Hold(q, c)
    /\ Goto(q, "use")
    /\ UNCHANGED <<closed, chanOpen, pool, closer>>

DialFails(q) ==
    /\ At(q, "get") /\ pool = {} /\ chanOpen
    /\ Leave(q)
    /\ UNCHANGED <<closed, chanOpen, pool, open, closer>>

\* The exchange.  SetDeadline on a nil connection panics.
UseNil(q) ==
    /\ At(q, "use") /\ conn[q] = Nil
    /\ Panic(q)
    /\ UNCHANGED <<closed, chanOpen, pool, open, closer>>

\* putConn(conn, false), and putConn(conn, true) once the flag is set.
KeepUnhealthy(q) ==
    /\ At(q, "use") /\ conn[q] # Nil
    /\ open' = open \ {conn[q]}
    /\ Goto(q, "put")
    /\ UNCHANGED <<closed, chanOpen, pool, conn, closer>>

Discard(q) ==
    /\ At(q, "use") /\ conn[q] # Nil
    /\ open' = open \ {conn[q]}
    /\ Leave(q)
    /\ UNCHANGED <<closed, chanOpen, pool, closer>>

\* putConn(conn, true): the flag is read, then the select sends.
Keep(q) ==
    /\ At(q, "use") /\ conn[q] # Nil /\ ~closed
    /\ Goto(q, "put")
    /\ UNCHANGED <<closed, chanOpen, pool, open, conn, closer>>

Room == Cardinality(pool) < PoolCap

ToPool(q) ==
    /\ At(q, "put") /\ chanOpen /\ Room
    /\ pool' = pool \cup {conn[q]}
    /\ Leave(q)
    /\ UNCHANGED <<closed, chanOpen, open, closer>>

DropOverflow(q) ==
    /\ At(q, "put") /\ chanOpen /\ ~Room
    /\ Leave(q)
    /\ UNCHANGED <<closed, chanOpen, pool, open, closer>>

Overflow(q) ==
    /\ At(q, "put") /\ chanOpen /\ ~Room
    /\ open' = open \ {conn[q]}
    /\ Leave(q)
    /\ UNCHANGED <<closed, chanOpen, pool, closer>>

\* A send on a closed channel panics, in a select too.
SendOnClosed(q) ==
    /\ At(q, "put") /\ ~chanOpen
    /\ Panic(q)
    /\ UNCHANGED <<closed, chanOpen, pool, open, closer>>

-----------------------------------------------------------------------------
\* Close: the flag, the channel, then every connection still in it.
SetClosed ==
    /\ closer = "none"
    /\ closed' = TRUE /\ closer' = "flagged"
    /\ UNCHANGED <<chanOpen, pool, open, qpc, conn>>

CloseChannel ==
    /\ closer = "flagged"
    /\ chanOpen' = FALSE /\ closer' = "draining"
    /\ UNCHANGED <<closed, pool, open, qpc, conn>>

Drain ==
    /\ closer = "draining"
    /\ \E c \in pool : pool' = pool \ {c} /\ open' = open \ {c}
    /\ UNCHANGED <<closed, chanOpen, qpc, conn, closer>>

CloseReturns ==
    /\ closer = "draining" /\ pool = {}
    /\ closer' = "done"
    /\ UNCHANGED <<closed, chanOpen, pool, open, qpc, conn>>

QueryStep(q) ==
    \/ FromPool(q) \/ NilFromClosed(q) \/ Dial(q) \/ DialFails(q)
    \/ UseNil(q) \/ Discard(q) \/ Keep(q)
    \/ ToPool(q) \/ Overflow(q) \/ SendOnClosed(q)

CloseStep == CloseChannel \/ Drain \/ CloseReturns

PoolNext ==
    \/ \E q \in Queries : Enter(q) \/ QueryStep(q)
    \/ SetClosed \/ CloseStep

PoolSpec == PoolInit /\ [][PoolNext]_poolVars

\* The goroutines run, and the deadline ends every exchange that was begun.
FairPoolSpec ==
    /\ PoolSpec
    /\ \A q \in Queries : WF_poolVars(QueryStep(q))
    /\ WF_poolVars(CloseStep)

-----------------------------------------------------------------------------
Alive(q) == qpc[q] # "panic"

(***************************************************************************)
(* Every connection in use or in the pool is open, and has one owner: a    *)
(* query or the pool, whatever Close and its drain do meanwhile.           *)
(***************************************************************************)
OneOwner ==
    /\ pool \subseteq open
    /\ \A q \in Queries : conn[q] # Nil => conn[q] \in open \ pool
    /\ \A q, r \in Queries : q # r /\ conn[q] = conn[r] => conn[q] = Nil

(***************************************************************************)
(* Close releases the pooled connections: when it has been called, every   *)
(* socket is closed in the end, the ones of queries that were under way    *)
(* too, unless such a query panicked with it.                              *)
(***************************************************************************)
Orphaned == {c \in open : \A q \in Queries : conn[q] = c => Alive(q)}

ClosedReleasesAll == closed ~> [](Orphaned = {})
=============================================================================
