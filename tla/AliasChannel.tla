----------------------------- MODULE AliasChannel -----------------------------
(***************************************************************************)
(* The sockets between the plugin (pkg/plugin and pkg/plugin_mosdns_x) and *)
(* the daemon: buffers of bounded size, packets longer than the receiver's *)
(* buffer, requests whose ACK nobody reads (async mode), a daemon that     *)
(* shuts down, dies and comes back, and the C daemon, which answers one    *)
(* request of each connection.                                             *)
(*                                                                         *)
(* Lifetimes are the subject of AliasPipeline: here they are so long that  *)
(* no entry expires, neither in the cache nor in the table.                *)
(***************************************************************************)
EXTENDS Integers, FiniteSets, Sequences

CONSTANTS
    Queries,        \* the DNS queries in flight
    Conns,          \* connections; the name of a closed one is used again
    NoConn,
    Addrs, V6,      \* addresses, and those of them that are IPv6
    Requests,       \* what a query may ask for: sets of addresses
    TableLen,       \* the length of the table's name
    MaxIPs,         \* MaxIPsPerPacket
    GoBuffer, CBuffer, \* the bytes each daemon receives at most
    BufCap,         \* the packets a socket buffer holds
    PoolCap

ASSUME ChannelAssumption ==
    /\ NoConn \notin Conns
    /\ IsFiniteSet(Addrs) /\ V6 \subseteq Addrs /\ Requests \subseteq SUBSET Addrs
    /\ TableLen \in Nat /\ MaxIPs \in Nat /\ GoBuffer \in Nat /\ CBuffer \in Nat
    /\ BufCap \in Nat \ {0} /\ PoolCap \in Nat

VARIABLES
    sync,       \* the plugin's option, for good
    engine,     \* which daemon it is, for good
    phase,      \* where the daemon's main is
    told,       \* what the Go daemon's tracker knows
    pf,         \* the kernel's table
    mine,       \* connections whose plugin end is open
    theirs,     \* connections whose daemon end is open
    inbox,      \* the packets the daemon has not read
    outbox,     \* the ACKs the plugin has not read, each its status
    hand,       \* where the handler of each connection is
    job,        \* the addresses it has in hand
    reply,      \* the status it will send
    qpc, want, qconn,   \* where each query is, what it asks for and over what
    pool, cache,
    lost        \* history: counted on although their request came to nothing

daemonSide == <<phase, told, pf, theirs, inbox, hand, job, reply, lost>>
pluginSide == <<mine, qpc, want, qconn, pool, cache>>
channelVars == <<sync, engine, daemonSide, pluginSide, outbox>>

Status == {"OK", "ERR"}

BuffersFit ==
    /\ inbox \in [Conns -> Seq(Requests)] /\ outbox \in [Conns -> Seq(Status)]
    /\ \A c \in Conns : Len(inbox[c]) <= BufCap /\ Len(outbox[c]) <= BufCap

ChannelTypeOK ==
    /\ BuffersFit
    /\ sync \in BOOLEAN /\ engine \in {"go", "c"}
    /\ phase \in {"up", "closing", "shut", "down"}
    /\ told \subseteq Addrs /\ pf \subseteq Addrs
    /\ mine \subseteq Conns /\ theirs \subseteq Conns
    /\ hand \in [Conns -> {"none", "read", "add", "install", "ack"}]
    /\ job \in [Conns -> SUBSET Addrs] /\ reply \in [Conns -> Status]
    /\ qpc \in [Queries -> {"idle", "get", "write", "wait", "done"}]
    /\ want \in [Queries -> SUBSET Addrs]
    /\ qconn \in [Queries -> Conns \cup {NoConn}]
    /\ pool \subseteq Conns /\ cache \subseteq Addrs /\ lost \subseteq Addrs

ChannelInit ==
    /\ sync \in BOOLEAN /\ engine \in {"go", "c"}
    /\ phase = "up" /\ told = {} /\ pf = {}
    /\ mine = {} /\ theirs = {}
    /\ inbox = [c \in Conns |-> <<>>] /\ outbox = [c \in Conns |-> <<>>]
    /\ hand = [c \in Conns |-> "none"]
    /\ job = [c \in Conns |-> {}] /\ reply = [c \in Conns |-> "OK"]
    /\ qpc = [q \in Queries |-> "idle"]
    /\ want = [q \in Queries |-> {}] /\ qconn = [q \in Queries |-> NoConn]
    /\ pool = {} /\ cache = {} /\ lost = {}

-----------------------------------------------------------------------------
(***************************************************************************)
(* Packets                                                                 *)
(***************************************************************************)
HeaderSize == 10

MaxTableNameLen == 31

\* Header, length and name of the table, TTL, count, and one byte of family before
\* each address.
AddSize(S) ==
    HeaderSize + 1 + TableLen + 4 + 2 + 5 * Cardinality(S \ V6) + 17 * Cardinality(S \cap V6)

Encodable(S) == TableLen <= MaxTableNameLen /\ Cardinality(S) <= MaxIPs

Buffer == IF engine = "go" THEN GoBuffer ELSE CBuffer

\* A SEQPACKET socket gives the reader what fits and throws the rest away.
Cut(S) == AddSize(S) > Buffer

-----------------------------------------------------------------------------
(***************************************************************************)
(* The plugin                                                              *)
(***************************************************************************)
Goto(q, there) == qpc' = [qpc EXCEPT ![q] = there]

Finish(q) ==
    /\ Goto(q, "idle")
    /\ want' = [want EXCEPT ![q] = {}]
    /\ qconn' = [qconn EXCEPT ![q] = NoConn]

\* An answer comes in whose addresses are not all fresh.
Exec(q) ==
    /\ qpc[q] = "idle"
    /\ Goto(q, "get")
    /\ \E S \in Requests \ {{}} : want' = [want EXCEPT ![q] = S]
    /\ UNCHANGED <<sync, engine, daemonSide, outbox, mine, qconn, pool, cache>>

FromPool(q) ==
    /\ qpc[q] = "get"
    /\ \E c \in pool :
         /\ pool' = pool \ {c}
         /\ qconn' = [qconn EXCEPT ![q] = c]
    /\ Goto(q, "write")
    /\ UNCHANGED <<sync, engine, daemonSide, outbox, mine, want, cache>>

\* The connection waits to be accepted.
Dial(q) ==
    /\ qpc[q] = "get" /\ pool = {} /\ phase = "up"
    /\ \E c \in Conns \ (mine \cup theirs) :
         /\ mine' = mine \cup {c} /\ theirs' = theirs \cup {c}
         /\ qconn' = [qconn EXCEPT ![q] = c]
    /\ Goto(q, "write")
    /\ UNCHANGED <<sync, engine, phase, told, pf, inbox, hand, job, reply, lost, outbox, want,
                   pool, cache>>

DialFails(q) ==
    /\ qpc[q] = "get" /\ pool = {}
    /\ Finish(q)
    /\ UNCHANGED <<sync, engine, daemonSide, outbox, mine, pool, cache>>

\* putConn of a connection that is not healthy.
Discard(c) ==
    /\ mine' = mine \ {c}
    /\ outbox' = [outbox EXCEPT ![c] = <<>>]
    /\ UNCHANGED pool

\* putConn of a healthy one, which the pool may have no room for.
Give(c, unread) ==
    IF Cardinality(pool) < PoolCap
    THEN pool' = pool \cup {c} /\ outbox' = unread /\ UNCHANGED mine
    ELSE Discard(c)

Full(c) == Len(inbox[c]) = BufCap

\* In async mode nobody waits for the ACK.
Write(q) ==
    LET c == qconn[q]
    IN  /\ qpc[q] = "write" /\ Encodable(want[q]) /\ c \in theirs /\ ~Full(c)
        /\ inbox' = [inbox EXCEPT ![c] = Append(@, want[q])]
        /\ Goto(q, IF sync THEN "wait" ELSE "done")
        /\ UNCHANGED <<sync, engine, phase, told, pf, theirs, hand, job, reply, lost, outbox,
                       mine, want, qconn, pool, cache>>

\* The packet cannot be encoded, or the other end is closed.
WriteFails(q) ==
    /\ qpc[q] = "write"
    /\ ~Encodable(want[q]) \/ qconn[q] \notin theirs
    /\ Finish(q) /\ Discard(qconn[q])
    /\ UNCHANGED <<sync, engine, daemonSide, cache>>

\* The deadline passes: before the write when the buffer is full, before the ACK at
\* any time.
TimeoutPooled(q) ==
    /\ \/ qpc[q] = "write" /\ Full(qconn[q])
       \/ qpc[q] = "wait"
    /\ Finish(q) /\ Give(qconn[q], outbox)
    /\ UNCHANGED <<sync, engine, daemonSide, cache>>

TimeoutOfRead(q) ==
    /\ qpc[q] = "wait"
    /\ Finish(q) /\ Discard(qconn[q])
    /\ UNCHANGED <<sync, engine, daemonSide, cache>>

Timeout(q) ==
    /\ \/ qpc[q] = "write" /\ Full(qconn[q])
       \/ qpc[q] = "wait"
    /\ Finish(q) /\ Discard(qconn[q])
    /\ UNCHANGED <<sync, engine, daemonSide, cache>>

Read(c) == [outbox EXCEPT ![c] = Tail(@)]

ReadAnyAck(q) ==
    /\ qpc[q] = "wait" /\ outbox[qconn[q]] # <<>>
    /\ outbox' = Read(qconn[q]) /\ Goto(q, "done")
    /\ UNCHANGED <<sync, engine, daemonSide, mine, want, qconn, pool, cache>>

\* An error ACK ends the query; the connection is as good as before.
ReadAck(q) ==
    LET c == qconn[q]
    IN  /\ qpc[q] = "wait" /\ outbox[c] # <<>>
        /\ IF Head(outbox[c]) = "OK"
           THEN outbox' = Read(c) /\ Goto(q, "done") /\ UNCHANGED <<mine, want, qconn, pool>>
           ELSE Finish(q) /\ Give(c, Read(c))
        /\ UNCHANGED <<sync, engine, daemonSide, cache>>

\* The daemon has closed its end and left no ACK.
ReadEOF(q) ==
    /\ qpc[q] = "wait" /\ outbox[qconn[q]] = <<>> /\ qconn[q] \notin theirs
    /\ Finish(q) /\ Discard(qconn[q])
    /\ UNCHANGED <<sync, engine, daemonSide, cache>>

Update(q) ==
    /\ qpc[q] = "done"
    /\ Give(qconn[q], outbox) /\ Finish(q)
    /\ cache' = cache \cup want[q]
    /\ UNCHANGED <<sync, engine, daemonSide>>

QueryStep(q) ==
    \/ FromPool(q) \/ Dial(q) \/ DialFails(q)
    \/ Write(q) \/ WriteFails(q) \/ Timeout(q)
    \/ ReadAck(q) \/ ReadEOF(q)
    \/ Update(q)

-----------------------------------------------------------------------------
(***************************************************************************)
(* The Go daemon                                                           *)
(***************************************************************************)
At(c, here) == engine = "go" /\ hand[c] = here

Turn(c, there) == hand' = [hand EXCEPT ![c] = there]

\* A request comes to nothing.  In async mode the plugin counts on it all the same.
Lose(S) == lost' = IF sync THEN lost ELSE lost \cup (S \ pf)

UnionOf(seq) == UNION {seq[i] : i \in 1 .. Len(seq)}

InFlight == UNION {UnionOf(inbox[c]) \cup job[c] : c \in Conns}

Accept(c) ==
    /\ At(c, "none") /\ c \in theirs /\ phase = "up"
    /\ Turn(c, "read")
    /\ UNCHANGED <<sync, engine, phase, told, pf, theirs, inbox, job, reply, lost, pluginSide,
                   outbox>>

PeekPacket(c) ==
    /\ At(c, "read") /\ inbox[c] # <<>> /\ ~Cut(Head(inbox[c]))
    /\ inbox' = [inbox EXCEPT ![c] = Tail(@)]
    /\ Turn(c, "add") /\ job' = [job EXCEPT ![c] = Head(inbox[c])]
    /\ UNCHANGED <<sync, engine, phase, told, pf, theirs, reply, lost, pluginSide, outbox>>

\* A packet that was cut does not decode: no ACK, and the next one is read.
ReadPacket(c) ==
    /\ At(c, "read") /\ inbox[c] # <<>>
    /\ inbox' = [inbox EXCEPT ![c] = Tail(@)]
    /\ LET S == Head(inbox[c])
       IN  IF Cut(S)
           THEN Lose(S) /\ UNCHANGED <<hand, job>>
           ELSE Turn(c, "add") /\ job' = [job EXCEPT ![c] = S] /\ UNCHANGED lost
    /\ UNCHANGED <<sync, engine, phase, told, pf, theirs, reply, pluginSide, outbox>>

ReadEnd(c) ==
    /\ At(c, "read") /\ inbox[c] = <<>> /\ c \notin mine
    /\ Turn(c, "none") /\ theirs' = theirs \ {c}
    /\ UNCHANGED <<sync, engine, phase, told, pf, inbox, job, reply, lost, pluginSide, outbox>>

Answer(c, status) == reply' = [reply EXCEPT ![c] = status]

\* What the tracker knows is acknowledged although a failed or unfinished ioctl may
\* have left it out of the table.
Register(c) ==
    /\ At(c, "add")
    /\ told' = told \cup job[c]
    /\ lost' = lost \cup ((job[c] \cap told) \ pf)
    /\ job' = [job EXCEPT ![c] = @ \ told]
    /\ Turn(c, "install")
    /\ UNCHANGED <<sync, engine, phase, pf, theirs, inbox, reply, pluginSide, outbox>>

\* AddAddresses, all or nothing; once main has closed the device, nothing.
Install(c) ==
    /\ At(c, "install")
    /\ \/ /\ job[c] = {} \/ phase # "shut"
          /\ pf' = pf \cup job[c] /\ lost' = lost \ job[c]
          /\ Answer(c, "OK")
       \/ /\ job[c] # {}
          /\ Lose(job[c]) /\ Answer(c, "ERR")
          /\ UNCHANGED pf
    /\ job' = [job EXCEPT ![c] = {}]
    /\ Turn(c, "ack")
    /\ UNCHANGED <<sync, engine, phase, told, theirs, inbox, pluginSide, outbox>>

\* The write waits for room in the plugin's buffer, without a deadline, until the
\* plugin has closed the connection; then it fails.
SendAckUnbounded(c) ==
    /\ At(c, "ack")
    /\ outbox' = IF c \in mine THEN [outbox EXCEPT ![c] = Append(@, reply[c])] ELSE outbox
    /\ Turn(c, "read") /\ Answer(c, "OK")
    /\ UNCHANGED <<sync, engine, phase, told, pf, theirs, inbox, job, lost, pluginSide>>

SendAckToOpen(c) ==
    /\ At(c, "ack") /\ c \in mine /\ Len(outbox[c]) < BufCap
    /\ outbox' = [outbox EXCEPT ![c] = Append(@, reply[c])]
    /\ Turn(c, "read") /\ Answer(c, "OK")
    /\ UNCHANGED <<sync, engine, phase, told, pf, theirs, inbox, job, lost, pluginSide>>

SendAck(c) ==
    /\ At(c, "ack")
    /\ \/ c \notin mine /\ UNCHANGED outbox
       \/ /\ c \in mine /\ Len(outbox[c]) < BufCap
          /\ outbox' = [outbox EXCEPT ![c] = Append(@, reply[c])]
    /\ Turn(c, "read") /\ Answer(c, "OK")
    /\ UNCHANGED <<sync, engine, phase, told, pf, theirs, inbox, job, lost, pluginSide>>

HandlerStep(c) ==
    \/ Accept(c) \/ ReadPacket(c) \/ ReadEnd(c)
    \/ Register(c) \/ Install(c) \/ SendAck(c)

\* main after a signal: close(quit) and the listener, whose backlog goes with it;
\* handlers go on until the deferred Close of the device and the end of the process.
Shutdown ==
    /\ engine = "go" /\ phase = "up"
    /\ phase' = "closing"
    /\ LET backlog == {c \in theirs : hand[c] = "none"}
       IN  /\ theirs' = theirs \ backlog
           /\ inbox' = [c \in Conns |-> IF c \in backlog THEN <<>> ELSE inbox[c]]
           /\ Lose(UNION {UnionOf(inbox[c]) : c \in backlog})
    /\ UNCHANGED <<sync, engine, told, pf, hand, job, reply, pluginSide, outbox>>

CloseDevice ==
    /\ phase = "closing"
    /\ phase' = "shut"
    /\ UNCHANGED <<sync, engine, told, pf, theirs, inbox, hand, job, reply, lost, pluginSide,
                   outbox>>

\* The process ends, at any moment if it crashes.  ACKs it has sent can still be read.
Die ==
    /\ phase' = "down" /\ told' = {} /\ theirs' = {}
    /\ inbox' = [c \in Conns |-> <<>>]
    /\ hand' = [c \in Conns |-> "none"]
    /\ job' = [c \in Conns |-> {}] /\ reply' = [c \in Conns |-> "OK"]
    /\ Lose(InFlight)

Exit == phase # "down" /\ Die /\ UNCHANGED <<sync, engine, pf, pluginSide, outbox>>

Launch ==
    /\ phase = "down"
    /\ phase' = "up"
    /\ UNCHANGED <<sync, engine, told, pf, theirs, inbox, hand, job, reply, lost, pluginSide,
                   outbox>>

-----------------------------------------------------------------------------
(***************************************************************************)
(* The C daemon: one thread, one read, one ACK and a close per connection. *)
(***************************************************************************)
CIdle == engine = "c" /\ \A c \in Conns : hand[c] = "none"

\* The addresses that came through whole, in any order of the packet: the next one
\* would not fit.
Whole(S) ==
    IF Cut(S) THEN {T \in SUBSET S : ~Cut(T) /\ \E x \in S \ T : Cut(T \cup {x})} ELSE {S}

CAccept(c) ==
    /\ CIdle /\ c \in theirs /\ inbox[c] # <<>>
    /\ \E T \in Whole(Head(inbox[c])) :
         /\ job' = [job EXCEPT ![c] = T]
         /\ lost' = lost \cup (Head(inbox[c]) \ (T \cup pf))
    /\ inbox' = [inbox EXCEPT ![c] = Tail(@)]
    /\ Turn(c, "add")
    /\ UNCHANGED <<sync, engine, phase, told, pf, theirs, reply, pluginSide, outbox>>

Close(c) ==
    /\ theirs' = theirs \ {c}
    /\ inbox' = [inbox EXCEPT ![c] = <<>>]
    /\ Turn(c, "none")

\* The accepted socket does not block, as the listening one does not: a request that
\* is not there yet is not waited for.
CTooEarly(c) ==
    /\ CIdle /\ c \in theirs /\ inbox[c] = <<>>
    /\ Close(c)
    /\ UNCHANGED <<sync, engine, phase, told, pf, job, reply, lost, pluginSide, outbox>>

\* Every address goes to the kernel, whether its list has it or not, and the outcome is
\* not looked at.
CAdd(c) ==
    /\ engine = "c" /\ hand[c] = "add"
    /\ \/ pf' = pf \cup job[c] /\ lost' = lost \ job[c]
       \/ UNCHANGED pf /\ lost' = lost \cup (job[c] \ pf)
    /\ job' = [job EXCEPT ![c] = {}]
    /\ Turn(c, "ack")
    /\ UNCHANGED <<sync, engine, phase, told, theirs, inbox, reply, pluginSide, outbox>>

\* The ACK always says OK.  To a connection the plugin has closed the write raises
\* SIGPIPE, which the program does not catch.
CAck(c) ==
    /\ engine = "c" /\ hand[c] = "ack"
    /\ IF c \in mine
       THEN /\ outbox' = [outbox EXCEPT ![c] = Append(@, "OK")]
            /\ Lose(UnionOf(inbox[c]))
            /\ Close(c)
            /\ UNCHANGED <<phase, told, job, reply>>
       ELSE Die /\ UNCHANGED outbox
    /\ UNCHANGED <<sync, engine, pf, pluginSide>>

CStep(c) == CAccept(c) \/ CTooEarly(c) \/ CAdd(c) \/ CAck(c)

-----------------------------------------------------------------------------
ChannelNext ==
    \/ \E q \in Queries : Exec(q) \/ QueryStep(q)
    \/ \E c \in Conns : HandlerStep(c) \/ CStep(c)
    \/ Shutdown \/ CloseDevice \/ Exit \/ Launch

ChannelSpec == ChannelInit /\ [][ChannelNext]_channelVars

\* Queries run and their deadlines fire; handlers run; the C daemon takes its backlog
\* in turn.  Nobody starts the daemon again or stops it for certain.
FairChannelSpec ==
    /\ ChannelSpec
    /\ \A q \in Queries : WF_channelVars(QueryStep(q))
    /\ \A c \in Conns : WF_channelVars(HandlerStep(c)) /\ SF_channelVars(CStep(c))

-----------------------------------------------------------------------------
\* An address the cache counts on is in the table.  In sync mode the exceptions are
\* an ACK for what the Go daemon's tracker knew already and, of the C daemon, what it
\* dropped and acknowledged; in async mode also what is under way or came to nothing.
ClaimsAccounted ==
    \A a \in cache : a \in pf \cup lost \cup (IF sync THEN {} ELSE InFlight)

\* The sequence number of an ACK is never compared: when a query in sync mode is
\* about to write, nothing is under way on its connection, whatever timeouts, cut
\* packets, errors and restarts came before.
NoStrayAck ==
    sync => \A q \in Queries :
        qpc[q] = "write" =>
            LET c == qconn[q]
            IN  inbox[c] = <<>> /\ outbox[c] = <<>> /\ hand[c] \in {"none", "read"}

\* Every query gets out of the plugin, also when the daemon has stopped reading.
ChannelReturns == \A q \in Queries : qpc[q] # "idle" ~> qpc[q] = "idle"

\* The handler waits for somebody to read the ACKs.
Stuck(c) == hand[c] = "ack" /\ c \in mine /\ Len(outbox[c]) = BufCap

\* What has been written is read, unless the handler is stuck, in async mode.
QueueServed == \A c \in Conns : inbox[c] # <<>> ~> inbox[c] = <<>> \/ (~sync /\ Stuck(c))

\* A handler whose client is gone ends, a stuck one too.
HandlersEnd == \A c \in Conns : c \in theirs \ mine ~> c \notin theirs
=============================================================================
