---------------------------- MODULE CertManager ------------------------------
(***************************************************************************)
(* certManager of pkg/httpserver/server.go: the certificate a TLS          *)
(* handshake gets, and its reload when the file on disk has a later        *)
(* modification time.  Handshakes run in goroutines of their own; the      *)
(* RWMutex guards cached, while lastMod is compared without it.            *)
(***************************************************************************)
EXTENDS Integers

CONSTANTS
    Conns,      \* connections, each of which may be in a handshake
    Versions,   \* certificates, each with its own private key
    Times,      \* modification times
    Torn, Gone, \* a file that cannot be parsed, a file that is absent
    None,       \* a nil *tls.Certificate
    Free        \* nobody has mu for writing

ASSUME CertAssumption ==
    /\ Times \subseteq Nat \ {0} /\ Times # {}
    /\ Torn # Gone /\ {Torn, Gone, None} \cap Versions = {}
    /\ None \notin {Torn, Gone} /\ Free \notin Conns

VARIABLES
    combined,   \* whether the key is in the file of the certificate
    certPem,    \* the contents of certFile
    keyPem,     \* the contents of keyFile
    mtime,      \* the modification time of certFile
    mu,         \* the writer that has mu
    cached,     \* the field cached
    lastMod,    \* the field lastMod, 0 for the zero time
    pc,         \* where each handshake is in getCertificate or reload
    cert,       \* its local variable cert
    pair,       \* the certificate it has read from disk
    seen,       \* the modification time it has read, 0 for none
    hidden,     \* history: the last write is dated no later than what was noted
    excused     \* history: a file, lastMod or cached changed under the handshake

diskVars == <<combined, certPem, keyPem, mtime, hidden>>
managerVars == <<mu, cached, lastMod, pc, cert, pair, seen>>
certVars == <<diskVars, managerVars, excused>>

Contents == Versions \cup {Torn, Gone}

Steps == {"idle", "read", "check", "lock", "stat", "cert", "key", "store", "stamp",
          "reread", "serve"}

\* The steps at which reload holds mu.
Reloading == {"stat", "cert", "key", "store", "stamp"}

CertTypeOK ==
    /\ combined \in BOOLEAN /\ hidden \in BOOLEAN
    /\ certPem \in Contents /\ keyPem \in Contents /\ mtime \in Times
    /\ mu \in Conns \cup {Free}
    /\ cached \in Versions \cup {None} /\ lastMod \in Times \cup {0}
    /\ pc \in [Conns -> Steps]
    /\ cert \in [Conns -> Versions \cup {None}]
    /\ pair \in [Conns -> Contents \cup {None}]
    /\ seen \in [Conns -> Times \cup {0}]
    /\ excused \in [Conns -> BOOLEAN]

\* With two files a cut one is to reload what a pair that does not match is, so only
\* the combined file is ever Torn, and the key is always that of some certificate.
Writable == IF combined THEN Contents ELSE Contents \ {Torn}

Loadable == certPem = keyPem /\ certPem \in Versions

\* newCertManager: one reload before anybody else runs.
Boot(c, m) ==
    /\ c = IF Loadable THEN certPem ELSE None
    /\ m = IF Loadable THEN mtime ELSE 0

CertInit ==
    /\ combined \in BOOLEAN
    /\ certPem \in Writable /\ mtime \in Times
    /\ keyPem \in IF combined THEN {certPem} ELSE Versions
    /\ Boot(cached, lastMod)
    /\ mu = Free /\ hidden = FALSE
    /\ pc = [h \in Conns |-> "idle"]
    /\ cert = [h \in Conns |-> None]
    /\ pair = [h \in Conns |-> None]
    /\ seen = [h \in Conns |-> 0]
    /\ excused = [h \in Conns |-> FALSE]

-----------------------------------------------------------------------------
(***************************************************************************)
(* The files.  A replacement may be seen half done (Torn, or the two files *)
(* apart), and a copy that keeps its time, or a clock set back, dates a    *)
(* new file earlier than the old one.                                      *)
(***************************************************************************)
Excuse == excused' = [h \in Conns |-> pc[h] # "idle"]

\* A reload in progress has noted the time it has seen, the field the last one.
Later(t) == t > lastMod /\ \A h \in Conns : t > seen[h]

WriteCert(v, t) ==
    /\ v # certPem
    /\ certPem' = v /\ mtime' = t
    /\ keyPem' = IF combined THEN v ELSE keyPem
    /\ hidden' = ~Later(t)
    /\ Excuse
    /\ UNCHANGED <<combined, managerVars>>

WriteKey(v) ==
    /\ ~combined /\ v # keyPem
    /\ keyPem' = v
    /\ Excuse
    /\ UNCHANGED <<combined, certPem, mtime, hidden, managerVars>>

-----------------------------------------------------------------------------
(***************************************************************************)
(* getCertificate                                                          *)
(***************************************************************************)
At(h, here) == pc[h] = here

Goto(h, there) == pc' = [pc EXCEPT ![h] = there]

Hello(h) ==
    /\ At(h, "idle")
    /\ Goto(h, "read")
    /\ excused' = [excused EXCEPT ![h] = FALSE]
    /\ UNCHANGED <<diskVars, mu, cached, lastMod, cert, pair, seen>>

\* cached under the read lock, which a writer keeps out.
ReadCached(h, next) ==
    /\ mu = Free
    /\ cert' = [cert EXCEPT ![h] = cached]
    /\ Goto(h, next)
    /\ UNCHANGED <<diskVars, mu, cached, lastMod, pair, seen, excused>>

FirstRead(h) == At(h, "read") /\ ReadCached(h, "check")

RereadUntilLoaded(h) == At(h, "reread") /\ ReadCached(h, "check")

Reread(h) == At(h, "reread") /\ ReadCached(h, "serve")

\* The comparison with lastMod takes no lock: a reload that is storing the three
\* words of the time makes its outcome anything.
Storing(h) == \E g \in Conns \ {h} : At(g, "stamp")

NewerOnce(h) == {cached = None /\ mtime > lastMod}

Newer(h) == IF Storing(h) THEN BOOLEAN ELSE {mtime > lastMod}

Check(h) ==
    /\ At(h, "check")
    /\ \E newer \in Newer(h) :
         IF certPem # Gone /\ newer
         THEN Goto(h, "lock") /\ cert' = [cert EXCEPT ![h] = None]
         ELSE Goto(h, "serve") /\ UNCHANGED cert
    /\ excused' = [excused EXCEPT ![h] = @ \/ Storing(h)]
    /\ UNCHANGED <<diskVars, mu, cached, lastMod, pair, seen>>

\* The handshake has its certificate, the self-signed one if cert is nil.
Serve(h) ==
    /\ At(h, "serve")
    /\ Goto(h, "idle")
    /\ cert' = [cert EXCEPT ![h] = None]
    /\ excused' = [excused EXCEPT ![h] = FALSE]
    /\ UNCHANGED <<diskVars, mu, cached, lastMod, pair, seen>>

-----------------------------------------------------------------------------
(***************************************************************************)
(* reload, all of it under mu                                              *)
(***************************************************************************)
Lock(h) ==
    /\ At(h, "lock") /\ mu = Free
    /\ mu' = h
    /\ Goto(h, "stat")
    /\ UNCHANGED <<diskVars, cached, lastMod, cert, pair, seen, excused>>

\* Every way out gives mu back (the defer) and forgets the locals.
Return(h) ==
    /\ mu' = Free
    /\ Goto(h, "reread")
    /\ pair' = [pair EXCEPT ![h] = None]
    /\ seen' = [seen EXCEPT ![h] = 0]

StatFile(h) ==
    /\ At(h, "stat")
    /\ IF certPem = Gone
       THEN Return(h)
       ELSE /\ seen' = [seen EXCEPT ![h] = mtime]
            /\ Goto(h, "cert")
            /\ UNCHANGED <<mu, pair>>
    /\ UNCHANGED <<diskVars, cached, lastMod, cert, excused>>

\* LoadX509KeyPair reads the certificate, then the key, and compares them.
ReadCert(h) ==
    /\ At(h, "cert")
    /\ IF certPem = Gone
       THEN Return(h)
       ELSE /\ pair' = [pair EXCEPT ![h] = certPem]
            /\ Goto(h, "key")
            /\ UNCHANGED <<mu, seen>>
    /\ UNCHANGED <<diskVars, cached, lastMod, cert, excused>>

ReadKeyUnchecked(h) ==
    /\ At(h, "key")
    /\ Goto(h, "store")
    /\ UNCHANGED <<diskVars, mu, cached, lastMod, cert, pair, seen, excused>>

ReadKey(h) ==
    /\ At(h, "key")
    /\ IF pair[h] = keyPem /\ keyPem \in Versions
       THEN Goto(h, "store") /\ UNCHANGED <<mu, pair, seen>>
       ELSE Return(h)
    /\ UNCHANGED <<diskVars, cached, lastMod, cert, excused>>

\* Another handshake may have read cached just before, and compare after the stamp.
StoreCached(h) ==
    /\ At(h, "store")
    /\ cached' = pair[h]
    /\ excused' = [g \in Conns |-> excused[g] \/ (At(g, "check") /\ cert[g] # pair[h])]
    /\ pair' = [pair EXCEPT ![h] = None]
    /\ Goto(h, "stamp")
    /\ UNCHANGED <<diskVars, mu, lastMod, cert, seen>>

\* A second Stat after the load would give the time of a file it did not load.
StampLate(h) ==
    /\ At(h, "stamp")
    /\ lastMod' = mtime
    /\ Return(h)
    /\ UNCHANGED <<diskVars, cached, cert, excused>>

StampMod(h) ==
    /\ At(h, "stamp")
    /\ lastMod' = seen[h]
    /\ Return(h)
    /\ UNCHANGED <<diskVars, cached, cert, excused>>

Reload(h) ==
    StatFile(h) \/ ReadCert(h) \/ ReadKey(h) \/ StoreCached(h) \/ StampMod(h)

HandshakeStep(h) == FirstRead(h) \/ Check(h) \/ Lock(h) \/ Reload(h) \/ Reread(h)

FileStep ==
    \/ \E v \in Writable, t \in Times : WriteCert(v, t)
    \/ \E v \in Versions : WriteKey(v)

-----------------------------------------------------------------------------
\* reload's writer is the one that is between Lock and the deferred Unlock.
ReloadHoldsMu == \A h \in Conns : mu = h <=> pc[h] \in Reloading

\* A pair that belongs together and is not the one in use will be noticed by the
\* next handshake, whatever reload was under way when it was written: the file is
\* later than lastMod, unless its last write is dated no later than what the
\* manager had noted (getCertificate compares with After, reload stats before
\* it loads).
NoMissedCert ==
    mu = Free /\ Loadable /\ cached # certPem => mtime > lastMod \/ hidden

\* A handshake that began after the last write of the files serves the pair that is on
\* disk, and the cache holds it, unless the write is a hidden one, lastMod was being
\* stored when the handshake compared it, or another one's reload replaced the
\* certificate it had read before it compared: it then finds nothing newer and serves
\* the old one (getCertificate reads cached and lastMod apart).
NewPairServed ==
    \A h \in Conns :
        pc[h] = "serve" /\ ~excused[h] /\ Loadable /\ ~hidden =>
            cert[h] = certPem /\ cached = certPem
=============================================================================
