------------------------------ MODULE HttpFront ------------------------------
(***************************************************************************)
(* ListenAndServeDual of pkg/httpserver/server.go: the dual listener, and  *)
(* the certificate manager that every TLS connection it hands over asks    *)
(* for a certificate.  The three controllers serve their pages with it.    *)
(***************************************************************************)
EXTENDS DualListener, CertManager

ASSUME FrontAssumption == Clients = Conns

frontVars == <<listenVars, certVars>>

FrontTypeOK == ListenTypeOK /\ CertTypeOK

FrontInit == ListenInit /\ CertInit

-----------------------------------------------------------------------------
\* The steps of the listener that concern no certificate.
Listening ==
    /\ \/ \E c \in Clients :
            \/ Dial(c)
            \/ \E b \in {"http", "tls", "eof"} : SendFirst(c, b)
            \/ HandOver(c, "http")
            \/ Silent(c)
            \/ conn[c] = "http" /\ Close(c)
       \/ Take
       \/ Resume
    /\ UNCHANGED certVars

\* The goroutine of a TLS connection shakes hands before it reads a request.
HandOverTLS(c) == HandOver(c, "tls") /\ Hello(c)

ShakeHands(c) == HandshakeStep(c) /\ UNCHANGED listenVars

Encrypted(c) ==
    /\ Serve(c)
    /\ Becomes(c, "http")
    /\ UNCHANGED <<first, backlog, serve, waits, ahead>>

Exit(c) ==
    /\ HungUp(c)
    /\ mu' = Free
    /\ pc' = [h \in Conns |-> "idle"]
    /\ cert' = [h \in Conns |-> None]
    /\ pair' = [h \in Conns |-> None]
    /\ seen' = [h \in Conns |-> 0]
    /\ excused' = [h \in Conns |-> FALSE]
    /\ UNCHANGED <<diskVars, cached, lastMod>>

Launch ==
    /\ Relaunch
    /\ Boot(cached', lastMod') /\ hidden' = FALSE
    /\ UNCHANGED <<combined, certPem, keyPem, mtime, mu, pc, cert, pair, seen, excused>>

Files == FileStep /\ UNCHANGED listenVars

FrontStep(c) ==
    \/ HandOverTLS(c)
    \/ ShakeHands(c)
    \/ Encrypted(c)
    \/ Exit(c)

FrontNext == Listening \/ Launch \/ Files \/ \E c \in Conns : FrontStep(c)

FrontSpec == FrontInit /\ [][FrontNext]_frontVars

\* The goroutine of Serve runs and its deadlines fire; so do those of the connections,
\* which get mu in the end as it is given back again and again.  Clients, files and
\* operators owe nothing.
AcceptLoop ==
    \/ /\ \/ Take
          \/ Resume
          \/ \E c \in Clients : HandOver(c, "http") \/ Silent(c)
       /\ UNCHANGED certVars
    \/ \E c \in Conns : HandOverTLS(c) \/ Exit(c)

FairFrontSpec ==
    /\ FrontSpec
    /\ WF_frontVars(AcceptLoop)
    /\ \A c \in Conns : SF_frontVars(ShakeHands(c) \/ Encrypted(c))

-----------------------------------------------------------------------------
\* Only a connection that is handed over as TLS is in a handshake.
HandshakesAreTLS == \A c \in Conns : pc[c] # "idle" <=> conn[c] = "tls"

\* However silent the clients before it are, a client that has sent its first byte
\* is handed over, unless Serve returned before its turn (the three seconds in
\* Accept).
HeardOrDown ==
    \A c \in Conns :
        conn[c] = "queued" /\ first[c] \in {"http", "tls"}
            ~> conn[c] \in {"http", "tls"} \/ serve = "down"

\* A handshake ends although others load files under mu and the files are changing
\* all the time (reload returns the lock on every path).
HandshakesEnd == \A c \in Conns : conn[c] = "tls" ~> conn[c] # "tls"

\* A byte of 0x16 takes a connection to TLS and another one to plain HTTP, as
\* dev.md says of the listener, whatever other connections do.
Sniffed ==
    \A c \in Conns :
        conn[c] = "queued" /\ first[c] \in {"http", "tls"} ~> conn[c] \in {"http", "tls"}
=============================================================================
