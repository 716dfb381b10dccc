---------------------------- MODULE DualListener -----------------------------
(***************************************************************************)
(* dualListener.Accept of pkg/httpserver/server.go under the accept loop   *)
(* of net/http: one goroutine takes a connection from the backlog, waits   *)
(* up to three seconds for its first byte and hands it on as TLS or plain  *)
(* HTTP.  Until it has done so nobody else is accepted.                    *)
(***************************************************************************)
EXTENDS Integers, Sequences

CONSTANTS Clients   \* the clients, each with at most one connection

VARIABLES
    conn,       \* what has become of the connection of each client
    first,      \* what the client has sent first
    backlog,    \* the connections nobody has accepted, oldest first
    serve,      \* where the accept loop is, "down" once Serve has returned
    waits,      \* history: deadlines that passed before the connection's turn
    ahead       \* history: how many were before it when it came

listenVars == <<conn, first, backlog, serve, waits, ahead>>

ListenTypeOK ==
    /\ conn \in [Clients -> {"away", "queued", "peek", "tls", "http"}]
    /\ first \in [Clients -> {"nothing", "http", "tls", "eof"}]
    /\ backlog \in Seq(Clients)
    /\ serve \in {"accept", "peek", "backoff", "down"}
    /\ waits \in [Clients -> Nat] /\ ahead \in [Clients -> Nat]

ListenInit ==
    /\ conn = [c \in Clients |-> "away"]
    /\ first = [c \in Clients |-> "nothing"]
    /\ backlog = <<>>
    /\ serve = "accept"
    /\ waits = [c \in Clients |-> 0]
    /\ ahead = [c \in Clients |-> 0]

Becomes(c, what) == conn' = [conn EXCEPT ![c] = what]

\* The wait is over, one way or the other.
Settle(c) ==
    /\ first' = [first EXCEPT ![c] = "nothing"]
    /\ ahead' = [ahead EXCEPT ![c] = 0]

-----------------------------------------------------------------------------
(***************************************************************************)
(* The clients                                                             *)
(***************************************************************************)
Dial(c) ==
    /\ conn[c] = "away" /\ serve # "down"
    /\ Becomes(c, "queued")
    /\ backlog' = Append(backlog, c)
    /\ ahead' = [ahead EXCEPT ![c] = Len(backlog) + (IF serve = "peek" THEN 1 ELSE 0)]
    /\ UNCHANGED <<first, serve, waits>>

\* The first bytes of a request, or the end of a connection without any: a probe
\* of the port, a browser's spare connection.
SendFirst(c, b) ==
    /\ conn[c] \in {"queued", "peek"} /\ first[c] = "nothing"
    /\ first' = [first EXCEPT ![c] = b]
    /\ UNCHANGED <<conn, backlog, serve, waits, ahead>>

-----------------------------------------------------------------------------
(***************************************************************************)
(* Accept and Serve                                                        *)
(***************************************************************************)
TakeNewest ==
    /\ serve = "accept" /\ backlog # <<>>
    /\ serve' = "peek"
    /\ Becomes(backlog[Len(backlog)], "peek")
    /\ backlog' = SubSeq(backlog, 1, Len(backlog) - 1)
    /\ UNCHANGED <<first, waits, ahead>>

Take ==
    /\ serve = "accept" /\ backlog # <<>>
    /\ serve' = "peek"
    /\ Becomes(Head(backlog), "peek")
    /\ backlog' = Tail(backlog)
    /\ UNCHANGED <<first, waits, ahead>>

\* A first byte of 0x16 is a ClientHello; everything else is plain HTTP.
HandOver(c, kind) ==
    /\ conn[c] = "peek" /\ first[c] = kind
    /\ serve' = "accept"
    /\ Becomes(c, kind) /\ Settle(c)
    /\ waits' = [waits EXCEPT ![c] = 0]
    /\ UNCHANGED backlog

\* The read deadline passes with no byte: the error is a temporary one, Serve
\* sleeps and accepts again.
SilentForever(c) ==
    /\ conn[c] = "peek" /\ first[c] = "nothing" /\ serve = "peek"
    /\ UNCHANGED listenVars

Silent(c) ==
    /\ conn[c] = "peek" /\ first[c] = "nothing"
    /\ serve' = "backoff"
    /\ Becomes(c, "away") /\ Settle(c)
    /\ waits' = [d \in Clients |-> IF conn[d] = "queued" THEN waits[d] + 1 ELSE 0]
    /\ UNCHANGED backlog

Resume ==
    /\ serve = "backoff"
    /\ serve' = "accept"
    /\ UNCHANGED <<conn, first, backlog, waits, ahead>>

\* io.EOF, or a reset, is not temporary: Serve returns it, main calls log.Fatalf
\* and every connection goes with the process.
HungUp(c) ==
    /\ conn[c] = "peek" /\ first[c] = "eof"
    /\ serve' = "down"
    /\ conn' = [d \in Clients |-> "away"]
    /\ first' = [d \in Clients |-> "nothing"]
    /\ backlog' = <<>>
    /\ waits' = [d \in Clients |-> 0]
    /\ ahead' = [d \in Clients |-> 0]

\* The controller is started again by hand: rc.d does not supervise it.
Relaunch ==
    /\ serve = "down"
    /\ serve' = "accept"
    /\ UNCHANGED <<conn, first, backlog, waits, ahead>>

\* A request is answered and its connection closed.
Close(c) ==
    /\ conn[c] \in {"http", "tls"}
    /\ Becomes(c, "away")
    /\ UNCHANGED <<first, backlog, serve, waits, ahead>>

-----------------------------------------------------------------------------
\* A client is overtaken by nobody and every connection before it costs one
\* deadline at most: it waits for no more deadlines than it found connections
\* before it (Accept closes a silent connection, and the backlog is in order).
WaitBounded ==
    \A c \in Clients : conn[c] \in {"queued", "peek"} => waits[c] <= ahead[c]
=============================================================================
