----------------------------- MODULE AliasPipeline ----------------------------
(***************************************************************************)
(* The DNS side, pkg/plugin/pf_alias.go, composed with the daemon: every   *)
(* query goroutine of MosDNS extracts addresses and a TTL from its answer, *)
(* consults the plugin's local cache, sends an ADD over a pooled           *)
(* connection, waits for the ACK up to the timeout, and records what was   *)
(* acknowledged in the cache.  The plugin runs in sync mode, as QuickSetup *)
(* and the generated configuration set it, and sends nothing but ADD.      *)
(*                                                                         *)
(* Whatever happens, the query then returns nil and the DNS answer goes    *)
(* out (fail-open), so a query that is over is simply idle again.          *)
(***************************************************************************)
EXTENDS AliasDaemon

CONSTANTS
    Queries,    \* the DNS queries in flight, each a goroutine in Exec
    NoConn,     \* what a query without a connection holds
    MinTTL,     \* the clamp of the plugin's configuration
    MaxTTL,
    PoolCap     \* the capacity of connPool

ASSUME PipelineAssumption ==
    /\ NoConn \notin Conns
    /\ MinTTL \in Nat \ {0} /\ MaxTTL \in Nat /\ MinTTL <= MaxTTL
    /\ PoolCap \in Nat

VARIABLES
    qpc,        \* where each query is in Exec
    wanted,     \* uncachedIPs of the query
    qttl,       \* the clamped TTL it asks for
    life,       \* now + ttlDuration, seen from the present: it started as qttl
    qconn,      \* the connection it took
    answer,     \* the status of the ACK it read
    cache,      \* localCache: the ticks left of each entry, 0 for none or stale
    pool        \* connPool

queryVars == <<qpc, wanted, qttl, life, qconn, answer>>
pluginVars == <<qpc, wanted, qttl, life, qconn, answer, cache, pool>>
pipelineVars == <<daemonVars, pluginVars>>

PipelineTypeOK ==
    /\ DaemonTypeOK
    /\ qpc \in [Queries -> {"idle", "send", "wait", "acked"}]
    /\ wanted \in [Queries -> SUBSET Entries]
    /\ qttl \in [Queries -> Nat]
    /\ life \in [Queries -> Nat]
    /\ qconn \in [Queries -> Conns \cup {NoConn}]
    /\ answer \in [Queries -> {"OK", "ERR"}]
    /\ cache \in [Entries -> Nat]
    /\ pool \subseteq Conns

PipelineInit ==
    /\ DaemonInit
    /\ qpc = [q \in Queries |-> "idle"]
    /\ wanted = [q \in Queries |-> {}]
    /\ qttl = [q \in Queries |-> 0]
    /\ life = [q \in Queries |-> 0]
    /\ qconn = [q \in Queries |-> NoConn]
    /\ answer = [q \in Queries |-> "OK"]
    /\ cache = [a \in Entries |-> 0]
    /\ pool = {}

-----------------------------------------------------------------------------
Clamp(t) == IF t < MinTTL THEN MinTTL ELSE IF t > MaxTTL THEN MaxTTL ELSE t

\* More than a fifth of the TTL window is left: the query need not be sent.
Fresh(a, t) == 5 * cache[a] >= t

\* A query is over: Exec returns nil.
Finish(q) ==
    /\ qpc' = [qpc EXCEPT ![q] = "idle"]
    /\ wanted' = [wanted EXCEPT ![q] = {}]
    /\ qttl' = [qttl EXCEPT ![q] = 0]
    /\ life' = [life EXCEPT ![q] = 0]
    /\ qconn' = [qconn EXCEPT ![q] = NoConn]
    /\ answer' = [answer EXCEPT ![q] = "OK"]

\* An answer with addresses S of one table and smallest TTL t comes in, now is
\* read and the cache is consulted.  A query all of whose addresses are fresh
\* ends here and changes nothing, so only the others are a step.
Exec(q) ==
    /\ qpc[q] = "idle"
    /\ \E S \in SUBSET Entries, t \in TTLs :
         LET stale == {a \in S : ~Fresh(a, Clamp(t))}
         IN  /\ OneTable(S) /\ stale # {}
             /\ wanted' = [wanted EXCEPT ![q] = stale]
             /\ qttl' = [qttl EXCEPT ![q] = Clamp(t)]
             /\ life' = [life EXCEPT ![q] = Clamp(t)]
    /\ qpc' = [qpc EXCEPT ![q] = "send"]
    /\ UNCHANGED <<daemonVars, qconn, answer, cache, pool>>

Held == {c \in Conns : \E q \in Queries : qconn[q] = c}

\* getConn: a pooled connection, or a new one when the pool is empty.  The name
\* of a closed connection is used again once its handler has gone.
Available == IF pool # {} THEN pool ELSE {c \in Conns \ Held : pc[c] = "read"}

\* The request is written in one packet; the handler's read of it is merged
\* with the write, since until its first tracker call it touches nothing shared.
Send(q) ==
    /\ qpc[q] = "send"
    /\ \E c \in Available :
         /\ Receive(c, "ADD", wanted[q], qttl[q])
         /\ qconn' = [qconn EXCEPT ![q] = c]
         /\ pool' = pool \ {c}
    /\ qpc' = [qpc EXCEPT ![q] = "wait"]
    /\ UNCHANGED <<wanted, qttl, life, answer, cache>>

\* The dial, the encoding or the write fails: the query goes out unsynchronised.
SendFails(q) ==
    /\ qpc[q] = "send"
    /\ Finish(q)
    /\ UNCHANGED <<daemonVars, cache, pool>>

Give(c) == IF Cardinality(pool) < PoolCap THEN pool \cup {c} ELSE pool

\* The handler writes the ACK.  If a query still waits on the connection it
\* reads the ACK; after a timeout the write goes to a closed socket.
Acknowledge(c) ==
    /\ Reply(c)
    /\ qpc' = [q \in Queries |->
                 IF qconn[q] = c /\ qpc[q] = "wait" THEN "acked" ELSE qpc[q]]
    /\ answer' = [q \in Queries |->
                 IF qconn[q] = c /\ qpc[q] = "wait" THEN status[c] ELSE answer[q]]
    /\ UNCHANGED <<wanted, qttl, life, qconn, cache, pool>>

\* The deadline passes before the ACK: the connection is closed, not pooled, and
\* its handler works on.
TimeoutPooled(q) ==
    /\ qpc[q] = "wait"
    /\ Finish(q)
    /\ pool' = Give(qconn[q])
    /\ UNCHANGED <<daemonVars, cache>>

Timeout(q) ==
    /\ qpc[q] = "wait"
    /\ Finish(q)
    /\ UNCHANGED <<daemonVars, cache, pool>>

\* The ACK was read: the connection goes back to the pool, or is closed when the
\* pool is full, and an OK enters now + ttlDuration for every address sent.
ExpiryFromAck(q, a) == qttl[q]

NewExpiry(q, a) == life[q]

Update(q) ==
    /\ qpc[q] = "acked"
    /\ pool' = Give(qconn[q])
    /\ cache' = IF answer[q] = "OK"
                THEN [a \in Entries |-> IF a \in wanted[q] THEN NewExpiry(q, a)
                                                          ELSE cache[a]]
                ELSE cache
    /\ Finish(q)
    /\ UNCHANGED daemonVars

\* One tick of the clock both processes read.
Sooner(n) == IF n > 0 THEN n - 1 ELSE 0

PassTime ==
    /\ Tick
    /\ life' = [q \in Queries |-> Sooner(life[q])]
    /\ cache' = [a \in Entries |-> Sooner(cache[a])]
    /\ UNCHANGED <<qpc, wanted, qttl, qconn, answer, pool>>

DaemonWork ==
    /\ \/ \E c \in Conns : Register(c) \/ Install(c)
       \/ Collect
    /\ UNCHANGED pluginVars

QueryStep(q) == Send(q) \/ SendFails(q) \/ Timeout(q) \/ Update(q)

PipelineNext ==
    \/ \E q \in Queries : Exec(q) \/ QueryStep(q)
    \/ \E c \in Conns : Acknowledge(c)
    \/ DaemonWork
    \/ PassTime

PipelineSpec == PipelineInit /\ [][PipelineNext]_pipelineVars

-----------------------------------------------------------------------------
(***************************************************************************)
(* What the plugin believes is never newer than what the daemon knows: an  *)
(* address fresh in the plugin's cache is tracked by the daemon, for at    *)
(* least as long.  So skipping the ADD never lets an entry expire that the *)
(* plugin still counts on, whatever the delays, timeouts, late ACKs and    *)
(* overlapping queries for the same address with other TTLs.               *)
(***************************************************************************)
CacheBacked == \A a \in Entries : cache[a] > 0 => left[a] >= cache[a]

(***************************************************************************)
(* A connection in the pool has no request under way, and nobody holds it: *)
(* the next query that takes it cannot read the ACK of an earlier one,     *)
(* although no sequence number is ever compared.                           *)
(***************************************************************************)
PooledConnsIdle ==
    /\ \A c \in pool : pc[c] = "read" /\ c \notin Held
    /\ \A q, r \in Queries : qconn[q] = qconn[r] /\ q # r => qconn[q] = NoConn
=============================================================================
