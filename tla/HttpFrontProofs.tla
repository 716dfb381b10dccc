--------------------------- MODULE HttpFrontProofs ---------------------------
(***************************************************************************)
(* Proofs about HttpFront, for any number of clients, any certificates and *)
(* any modification times.                                                 *)
(***************************************************************************)
EXTENDS HttpFront, TLAPS

(***************************************************************************)
(* The certificate manager.  Its actions are those of CertManager; only    *)
(* Exit and Launch, which stop and start all of it, belong to the front.   *)
(***************************************************************************)
\* What a handshake's locals hold at each point.
LocalsShape ==
    \A h \in Conns :
        /\ seen[h] # 0 <=> pc[h] \in Reloading \ {"stat"}
        /\ pc[h] = "store" => pair[h] \in Versions

\* The last write of the file left it later than all that was noted.  From there on
\* lastMod is the file's time only if cached is its content, and a reload that has
\* seen that time carries that content.
Noticed ==
    ~hidden =>
        /\ lastMod <= mtime
        /\ lastMod = mtime => cached = certPem
        /\ \A h \in Conns :
             /\ seen[h] <= mtime
             /\ seen[h] = mtime =>
                  /\ pc[h] \in {"key", "store"} => pair[h] = certPem
                  /\ pc[h] = "stamp" => cached = certPem
             /\ seen[h] # 0 /\ seen[h] # mtime => lastMod < mtime

\* A handshake under which no file has changed looks at the file as it is now.
Settled ==
    \A h \in Conns :
        ~excused[h] /\ Loadable /\ ~hidden =>
            /\ seen[h] # 0 => seen[h] = mtime
            /\ pc[h] \in {"reread", "serve"} => lastMod = mtime

\* What such a handshake has read is still in cache when it compares and is the pair on
\* disk when it is done.
Holding ==
    \A h \in Conns : ~excused[h] =>
        /\ pc[h] = "check" => cert[h] = cached
        /\ pc[h] = "serve" /\ Loadable /\ ~hidden => cert[h] = certPem

CertInv == CertTypeOK /\ ReloadHoldsMu /\ LocalsShape /\ Noticed /\ Settled /\ Holding

LEMMA CertInitInv == CertInit => CertInv
<1> SUFFICES ASSUME CertInit PROVE CertInv
  OBVIOUS
<1> USE CertAssumption DEF CertInit, Boot, Loadable, Contents, Writable
<1>1. CertTypeOK
  BY DEF CertTypeOK, Steps
<1>2. ReloadHoldsMu
  BY DEF ReloadHoldsMu, Reloading
<1>3. LocalsShape /\ Noticed /\ Settled /\ Holding
  BY DEF LocalsShape, Noticed, Settled, Holding, Reloading
<1>4. QED
  BY <1>1, <1>2, <1>3 DEF CertInv

-----------------------------------------------------------------------------
(***************************************************************************)
(* Types, the lock and the locals, action by action.                       *)
(***************************************************************************)
LEMMA StepType ==
    ASSUME CertInv,
           \/ FileStep
           \/ \E h \in Conns : Hello(h) \/ HandshakeStep(h) \/ Serve(h)
    PROVE  CertTypeOK'
<1> USE CertAssumption DEF CertInv, CertTypeOK, Contents, Writable, Steps, At, Goto
<1>1. CASE FileStep
  BY <1>1 DEF FileStep, WriteCert, WriteKey, Excuse, managerVars
<1>2. ASSUME NEW h \in Conns, Hello(h) \/ HandshakeStep(h) \/ Serve(h)
      PROVE  CertTypeOK'
  <2>1. CASE Hello(h) \/ Serve(h)
    BY <2>1 DEF Hello, Serve, diskVars
  <2>2. CASE FirstRead(h) \/ Reread(h)
    BY <2>2 DEF FirstRead, Reread, ReadCached, diskVars
  <2>3. CASE Check(h) \/ Lock(h)
    BY <2>3 DEF Check, Lock, diskVars
  <2>4. CASE StatFile(h)
    BY <2>4 DEF StatFile, Return, diskVars
  <2>5. CASE ReadCert(h)
    BY <2>5 DEF ReadCert, Return, diskVars
  <2>6. CASE ReadKey(h)
    BY <2>6 DEF ReadKey, Return, diskVars
  <2>7. CASE StoreCached(h)
    BY <2>7 DEF StoreCached, diskVars, LocalsShape
  <2>8. CASE StampMod(h)
    BY <2>8 DEF StampMod, Return, diskVars
  <2>9. QED
    BY <1>2, <2>1, <2>2, <2>3, <2>4, <2>5, <2>6, <2>7, <2>8
       DEF HandshakeStep, Reload
<1>3. QED
  BY <1>1, <1>2

LEMMA StepShape ==
    ASSUME CertInv,
           \/ FileStep
           \/ \E h \in Conns : Hello(h) \/ HandshakeStep(h) \/ Serve(h)
    PROVE  ReloadHoldsMu' /\ LocalsShape'
<1> USE CertAssumption
    DEF CertInv, CertTypeOK, ReloadHoldsMu, LocalsShape, Reloading, At, Goto
<1>1. CASE FileStep
  BY <1>1 DEF FileStep, WriteCert, WriteKey, managerVars
<1>2. ASSUME NEW h \in Conns, Hello(h) \/ HandshakeStep(h) \/ Serve(h)
      PROVE  ReloadHoldsMu' /\ LocalsShape'
  <2>1. CASE Hello(h) \/ Serve(h)
    BY <2>1 DEF Hello, Serve, diskVars
  <2>2. CASE FirstRead(h) \/ Reread(h)
    BY <2>2 DEF FirstRead, Reread, ReadCached, diskVars
  <2>3. CASE Check(h) \/ Lock(h)
    BY <2>3 DEF Check, Lock, diskVars
  <2>4. CASE StatFile(h)
    BY <2>4 DEF StatFile, Return, diskVars
  <2>5. CASE ReadCert(h)
    BY <2>5 DEF ReadCert, Return, diskVars
  <2>6. CASE ReadKey(h)
    BY <2>6 DEF ReadKey, Return, diskVars
  <2>7. CASE StoreCached(h)
    BY <2>7 DEF StoreCached, diskVars
  <2>8. CASE StampMod(h)
    BY <2>8 DEF StampMod, Return, diskVars
  <2>9. QED
    BY <1>2, <2>1, <2>2, <2>3, <2>4, <2>5, <2>6, <2>7, <2>8
       DEF HandshakeStep, Reload
<1>3. QED
  BY <1>1, <1>2

(***************************************************************************)
(* What lastMod says about cached.  Only one handshake at a time has seen  *)
(* anything, because it has mu.                                            *)
(***************************************************************************)
LEMMA OneReload ==
    ASSUME CertInv, NEW g \in Conns, NEW h \in Conns, seen[g] # 0, seen[h] # 0
    PROVE  g = h
  BY DEF CertInv, LocalsShape, ReloadHoldsMu, Reloading

LEMMA TimesAreNat ==
    CertTypeOK => /\ mtime \in Nat /\ lastMod \in Nat
                  /\ \A h \in Conns : seen[h] \in Nat
<1>1. Times \cup {0} \subseteq Nat
  BY CertAssumption
<1>2. CertTypeOK => /\ mtime \in Times \cup {0} /\ lastMod \in Times \cup {0}
                    /\ \A h \in Conns : seen[h] \in Times \cup {0}
  BY DEF CertTypeOK
<1>3. QED
  BY <1>1, <1>2

LEMMA StepNoticed ==
    ASSUME CertInv,
           \/ FileStep
           \/ \E h \in Conns : Hello(h) \/ HandshakeStep(h) \/ Serve(h)
    PROVE  Noticed'
<1> USE CertAssumption DEF CertInv, CertTypeOK, Noticed, At, Goto
<1>1. ASSUME NEW v \in Writable, NEW t \in Times, WriteCert(v, t)
      PROVE  Noticed'
  <2>1. mtime' = t /\ lastMod' = lastMod /\ seen' = seen /\ hidden' = ~Later(t)
    BY <1>1 DEF WriteCert, managerVars
  <2>2. CASE Later(t)
    <3>1. t \in Nat /\ lastMod \in Nat /\ t > lastMod
      BY <2>2 DEF Later
    <3>2. ASSUME NEW h \in Conns PROVE seen[h] \in Nat /\ t > seen[h]
      <4>1. seen[h] \in Nat
        BY TimesAreNat, Zenon
      <4>2. t > seen[h]
        BY <2>2, Zenon DEF Later
      <4>3. QED
        BY <4>1, <4>2
    <3>3. lastMod' <= mtime' /\ lastMod' # mtime' /\ lastMod' < mtime'
      BY <2>1, <3>1
    <3>4. \A h \in Conns : seen'[h] <= mtime' /\ seen'[h] # mtime'
      BY <2>1, <3>1, <3>2
    <3>5. QED
      BY <3>3, <3>4
  <2>3. QED
    BY <2>1, <2>2
<1>2. CASE \E v \in Versions : WriteKey(v)
  BY <1>2 DEF WriteKey, managerVars
<1>3. ASSUME NEW h \in Conns, Hello(h) \/ HandshakeStep(h) \/ Serve(h)
      PROVE  Noticed'
  <2>1. CASE Hello(h) \/ Serve(h)
    BY <2>1 DEF Hello, Serve, diskVars
  <2>2. CASE FirstRead(h) \/ Reread(h)
    BY <2>2 DEF FirstRead, Reread, ReadCached, diskVars
  <2>3. CASE Check(h) \/ Lock(h)
    BY <2>3 DEF Check, Lock, diskVars
  <2>4. CASE StatFile(h)
    BY <2>4 DEF StatFile, Return, diskVars, LocalsShape, Reloading
  <2>5. CASE ReadCert(h)
    BY <2>5 DEF ReadCert, Return, diskVars
  <2>6. CASE ReadKey(h)
    BY <2>6 DEF ReadKey, Return, diskVars
  <2>7. CASE StoreCached(h)
    <3>1. seen[h] # 0 /\ \A g \in Conns \ {h} : seen[g] = 0
      BY <2>7, OneReload DEF StoreCached, LocalsShape, Reloading
    <3>2. QED
      BY <2>7, <3>1 DEF StoreCached, diskVars
  <2>8. CASE StampMod(h)
    <3>1. seen[h] # 0 /\ \A g \in Conns \ {h} : seen[g] = 0
      BY <2>8, OneReload DEF StampMod, LocalsShape, Reloading
    <3>2. QED
      BY <2>8, <3>1 DEF StampMod, Return, diskVars
  <2>9. QED
    BY <1>3, <2>1, <2>2, <2>3, <2>4, <2>5, <2>6, <2>7, <2>8
       DEF HandshakeStep, Reload
<1>4. QED
  BY <1>1, <1>2, <1>3 DEF FileStep

LEMMA StepSettled ==
    ASSUME CertInv,
           \/ FileStep
           \/ \E h \in Conns : Hello(h) \/ HandshakeStep(h) \/ Serve(h)
    PROVE  Settled'
<1> USE CertAssumption DEF CertInv, CertTypeOK, Settled, LocalsShape, Reloading, Loadable,
        At, Goto
<1>1. CASE FileStep
  BY <1>1 DEF FileStep, WriteCert, WriteKey, Excuse, managerVars
<1>2. ASSUME NEW h \in Conns, Hello(h) \/ HandshakeStep(h) \/ Serve(h)
      PROVE  Settled'
  <2>1. CASE Hello(h) \/ Serve(h)
    BY <2>1 DEF Hello, Serve, diskVars
  <2>2. CASE FirstRead(h) \/ Reread(h)
    BY <2>2 DEF FirstRead, Reread, ReadCached, diskVars
  <2>3. CASE Check(h)
    <3>1. PICK newer \in Newer(h) :
             IF certPem # Gone /\ newer
             THEN pc' = [pc EXCEPT ![h] = "lock"]
             ELSE pc' = [pc EXCEPT ![h] = "serve"]
      BY <2>3 DEF Check
    <3>2. /\ UNCHANGED <<certPem, keyPem, mtime, hidden, lastMod, seen>>
          /\ excused' = [excused EXCEPT ![h] = @ \/ Storing(h)]
      BY <2>3 DEF Check, diskVars
    <3>3. ASSUME ~excused'[h], Loadable, ~hidden, pc'[h] = "serve" PROVE lastMod = mtime
      <4>1. lastMod \in Nat /\ mtime \in Nat /\ lastMod <= mtime /\ certPem # Gone
        BY <3>3 DEF Noticed
      <4>2. ~newer
        BY <3>1, <3>3, <4>1
      <4>3. ~(mtime > lastMod)
        BY <3>2, <3>3, <4>2 DEF Newer
      <4>4. QED
        BY <4>1, <4>3
    <3>4. QED
      BY <2>3, <3>1, <3>2, <3>3 DEF Check
  <2>4. CASE Lock(h)
    BY <2>4 DEF Lock, diskVars
  <2>5. CASE StatFile(h)
    BY <2>5 DEF StatFile, Return, diskVars
  <2>6. CASE ReadCert(h)
    BY <2>6 DEF ReadCert, Return, diskVars
  <2>7. CASE ReadKey(h)
    BY <2>7 DEF ReadKey, Return, diskVars, Noticed
  <2>8. CASE StoreCached(h)
    BY <2>8 DEF StoreCached, diskVars
  <2>9. CASE StampMod(h)
    <3>1. seen[h] # 0 /\ \A g \in Conns \ {h} : seen[g] = 0
      BY <2>9, OneReload DEF StampMod
    <3>2. QED
      BY <2>9, <3>1 DEF StampMod, Return, diskVars, Noticed
  <2>10. QED
    BY <1>2, <2>1, <2>2, <2>3, <2>4, <2>5, <2>6, <2>7, <2>8, <2>9
       DEF HandshakeStep, Reload
<1>3. QED
  BY <1>1, <1>2

\* What is read under mu stays in cache while nobody stores, and nobody can store before
\* a handshake that has just read.
LEMMA StepHolding ==
    ASSUME CertInv,
           \/ FileStep
           \/ \E h \in Conns : Hello(h) \/ HandshakeStep(h) \/ Serve(h)
    PROVE  Holding'
<1> USE DEF CertInv, CertTypeOK, Holding, Loadable, At, Goto
<1>1. CASE FileStep
  BY <1>1 DEF FileStep, WriteCert, WriteKey, Excuse, managerVars
<1>2. ASSUME NEW h \in Conns, Hello(h) \/ HandshakeStep(h) \/ Serve(h)
      PROVE  Holding'
  <2>1. CASE Hello(h) \/ Serve(h)
    BY <2>1 DEF Hello, Serve, diskVars
  <2>2. CASE FirstRead(h)
    BY <2>2 DEF FirstRead, ReadCached, diskVars
  <2>3. CASE Reread(h)
    <3>1. ~excused[h] /\ Loadable /\ ~hidden => cached = certPem
      BY <2>3 DEF Reread, Settled, Noticed
    <3>2. QED
      BY <2>3, <3>1 DEF Reread, ReadCached, diskVars
  <2>4. CASE Check(h)
    <3>1. ASSUME ~excused'[h], Loadable, ~hidden, pc'[h] = "serve" PROVE cert'[h] = certPem
      <4>1. lastMod' = mtime'
        BY <2>4, <3>1, StepSettled DEF Settled, Check, diskVars
      <4>2. lastMod = mtime /\ cached = certPem
        BY <2>4, <3>1, <4>1 DEF Check, diskVars, Noticed
      <4>3. ~excused[h] /\ cert'[h] = cert[h]
        BY <2>4, <3>1 DEF Check
      <4>4. QED
        BY <2>4, <4>2, <4>3 DEF Check
    <3>2. pc'[h] \in {"lock", "serve"} /\ UNCHANGED <<certPem, keyPem, hidden, cached>>
      BY <2>4 DEF Check, diskVars
    <3>3. \A g \in Conns \ {h} :
             pc'[g] = pc[g] /\ cert'[g] = cert[g] /\ excused'[g] = excused[g]
      BY <2>4 DEF Check
    <3>4. QED
      BY <3>1, <3>2, <3>3
  <2>5. CASE Lock(h)
    BY <2>5 DEF Lock, diskVars
  <2>6. CASE StatFile(h)
    BY <2>6 DEF StatFile, Return, diskVars
  <2>7. CASE ReadCert(h)
    BY <2>7 DEF ReadCert, Return, diskVars
  <2>8. CASE ReadKey(h)
    BY <2>8 DEF ReadKey, Return, diskVars
  <2>9. CASE StoreCached(h)
    BY <2>9 DEF StoreCached, diskVars
  <2>10. CASE StampMod(h)
    BY <2>10 DEF StampMod, Return, diskVars
  <2>11. QED
    BY <1>2, <2>1, <2>2, <2>3, <2>4, <2>5, <2>6, <2>7, <2>8, <2>9, <2>10
       DEF HandshakeStep, Reload
<1>3. QED
  BY <1>1, <1>2

LEMMA CertStepInv ==
    ASSUME CertInv,
           \/ FileStep
           \/ \E h \in Conns : Hello(h) \/ HandshakeStep(h) \/ Serve(h)
    PROVE  CertInv'
  BY StepType, StepShape, StepNoticed, StepSettled, StepHolding DEF CertInv

LEMMA CertStutterInv == CertInv /\ UNCHANGED certVars => CertInv'
  BY DEF CertInv, certVars, diskVars, managerVars, CertTypeOK, ReloadHoldsMu, LocalsShape,
     Noticed, Settled, Holding, Loadable, Contents, Steps, Reloading

LEMMA CertInvImplies == CertInv => NoMissedCert /\ NewPairServed
<1> SUFFICES ASSUME CertInv PROVE NoMissedCert /\ NewPairServed
  OBVIOUS
<1>1. NoMissedCert
  BY CertAssumption DEF CertInv, CertTypeOK, NoMissedCert, Noticed
<1>2. NewPairServed
  BY DEF CertInv, Settled, Noticed, Holding, NewPairServed
<1>3. QED
  BY <1>1, <1>2

-----------------------------------------------------------------------------
(***************************************************************************)
(* The listener                                                            *)
(***************************************************************************)
Peeking == IF serve = "peek" THEN 1 ELSE 0

\* One connection is peeked at; the others wait in the backlog, each once.
LoopShape ==
    /\ serve = "peek" <=> \E c \in Clients : conn[c] = "peek"
    /\ \A c, d \in Clients : conn[c] = "peek" /\ conn[d] = "peek" => c = d
    /\ serve = "down" => \A c \in Clients : conn[c] = "away"

BacklogShape ==
    /\ \A i \in 1 .. Len(backlog) : conn[backlog[i]] = "queued"
    /\ \A i, j \in 1 .. Len(backlog) : backlog[i] = backlog[j] => i = j
    /\ \A c \in Clients :
         conn[c] = "queued" => \E i \in 1 .. Len(backlog) : backlog[i] = c

\* The deadlines a connection has waited for and those that may still come before
\* its turn are no more than the connections it found.
Turn ==
    /\ \A c \in Clients : conn[c] = "peek" => waits[c] <= ahead[c]
    /\ \A c \in Clients : conn[c] \notin {"queued", "peek"} => waits[c] = 0
    /\ \A i \in 1 .. Len(backlog) :
         waits[backlog[i]] + (i - 1) + Peeking <= ahead[backlog[i]]

ListenInv == ListenTypeOK /\ LoopShape /\ BacklogShape /\ Turn

LEMMA ListenInitInv == ListenInit => ListenInv
  BY DEF ListenInit, ListenInv, ListenTypeOK, LoopShape, BacklogShape, Turn

LEMMA ListenStutterInv == ListenInv /\ UNCHANGED listenVars => ListenInv'
  BY DEF listenVars, ListenInv, ListenTypeOK, LoopShape, BacklogShape, Turn, Peeking

ListenStep ==
    \/ \E c \in Clients :
         \/ Dial(c)
         \/ \E b \in {"http", "tls", "eof"} : SendFirst(c, b)
         \/ \E kind \in {"http", "tls"} : HandOver(c, kind)
         \/ Silent(c)
         \/ HungUp(c)
         \/ conn[c] = "tls" /\ Becomes(c, "http") /\ UNCHANGED <<first, backlog, serve, waits, ahead>>
         \/ Close(c)
    \/ Take
    \/ Resume
    \/ Relaunch

\* Where the elements of a queue are after its head has been taken.
LEMMA TailIndices ==
    ASSUME NEW s \in Seq(Clients), s # <<>>
    PROVE  /\ Len(s) \in Nat /\ 1 \in 1 .. Len(s) /\ Head(s) = s[1] /\ s[1] \in Clients
           /\ Tail(s) \in Seq(Clients) /\ Len(Tail(s)) \in Nat
           /\ \A i \in 1 .. Len(Tail(s)) :
                i \in Nat /\ i + 1 \in 1 .. Len(s) /\ Tail(s)[i] = s[i + 1]
           /\ \A i \in 1 .. Len(s) :
                i # 1 => i - 1 \in 1 .. Len(Tail(s)) /\ Tail(s)[i - 1] = s[i]
  OBVIOUS

LEMMA ListenStepInv == ListenInv /\ ListenStep => ListenInv'
<1> SUFFICES ASSUME ListenInv, ListenStep PROVE ListenInv'
  OBVIOUS
<1> USE DEF ListenInv, ListenTypeOK, LoopShape, BacklogShape, Turn, Peeking, Becomes
<1>1. ASSUME NEW c \in Clients, Dial(c) PROVE ListenInv'
  <2>1. /\ Len(backlog') = Len(backlog) + 1 /\ backlog' \in Seq(Clients)
        /\ backlog'[Len(backlog) + 1] = c
        /\ \A i \in 1 .. Len(backlog) : backlog'[i] = backlog[i]
    BY <1>1 DEF Dial
  <2>2. ListenTypeOK' /\ LoopShape'
    BY <1>1, <2>1 DEF Dial
  <2>3. BacklogShape'
    BY <1>1, <2>1 DEF Dial
  <2>4. Turn'
    <3>1. /\ ahead'[c] = Len(backlog) + Peeking /\ waits'[c] = 0 /\ Peeking' = Peeking
          /\ \A d \in Clients \ {c} : ahead'[d] = ahead[d] /\ waits'[d] = waits[d]
      <4>1. waits' = waits /\ Peeking' = Peeking /\ waits[c] = 0
        BY <1>1 DEF Dial
      <4>2. ahead' = [ahead EXCEPT ![c] = Len(backlog) + Peeking]
        BY <1>1 DEF Dial
      <4>3. QED
        BY <4>1, <4>2
    <3>2. \A i \in 1 .. Len(backlog) : backlog[i] \in Clients \ {c}
      BY <1>1 DEF Dial
    <3>5. Len(backlog) \in Nat /\ Peeking \in {0, 1}
      OBVIOUS
    <3>3. ASSUME NEW i \in 1 .. Len(backlog')
          PROVE  waits'[backlog'[i]] + (i - 1) + Peeking' <= ahead'[backlog'[i]]
      <4>1. CASE i = Len(backlog) + 1
        <5>1. ahead'[c] = Len(backlog) + Peeking /\ waits'[c] = 0 /\ backlog'[i] = c
          BY <4>1, <2>1, <3>1
        <5> HIDE DEF Peeking
        <5>2. QED
          BY <4>1, <5>1, <3>1, <3>5
      <4>2. CASE i \in 1 .. Len(backlog)
        <5>1. backlog'[i] = backlog[i] /\ backlog[i] \in Clients \ {c}
          BY <4>2, <2>1, <3>2
        <5>2. waits[backlog[i]] + (i - 1) + Peeking <= ahead[backlog[i]]
          BY <4>2
        <5> HIDE DEF Peeking
        <5>3. QED
          BY <5>1, <5>2, <3>1
      <4>3. i = Len(backlog) + 1 \/ i \in 1 .. Len(backlog)
        <5> HIDE DEF ListenInv, ListenTypeOK, LoopShape, BacklogShape, Turn, Peeking
        <5>1. QED
          BY <2>1, <3>5
      <4>4. QED
        BY <4>1, <4>2, <4>3
    <3>4. conn' = [conn EXCEPT ![c] = "queued"]
      BY <1>1 DEF Dial
    <3>6. /\ \A d \in Clients : conn'[d] = "peek" => waits'[d] <= ahead'[d]
          /\ \A d \in Clients : conn'[d] \notin {"queued", "peek"} => waits'[d] = 0
      BY <3>1, <3>4
    <3>7. QED
      BY <3>3, <3>6, Zenon
  <2>5. QED
    BY <2>2, <2>3, <2>4
<1>2. ASSUME NEW c \in Clients, NEW b \in {"http", "tls", "eof"}, SendFirst(c, b)
      PROVE  ListenInv'
  BY <1>2 DEF SendFirst
<1>3. ASSUME NEW c \in Clients, NEW kind \in {"http", "tls"}, HandOver(c, kind)
      PROVE  ListenInv'
  <2>1. ListenTypeOK' /\ LoopShape' /\ BacklogShape'
    BY <1>3 DEF HandOver, Settle
  <2>2. Turn'
    BY <1>3 DEF HandOver, Settle
  <2>3. QED
    BY <2>1, <2>2
<1>4. ASSUME NEW c \in Clients, Silent(c) PROVE ListenInv'
  <2>1. ListenTypeOK' /\ LoopShape' /\ BacklogShape'
    BY <1>4 DEF Silent, Settle
  <2>2. Turn'
    BY <1>4 DEF Silent, Settle
  <2>3. QED
    BY <2>1, <2>2
<1>5. ASSUME NEW c \in Clients, HungUp(c) PROVE ListenInv'
  BY <1>5 DEF HungUp
<1>6. ASSUME NEW c \in Clients, NEW what \in {"http", "away"},
             conn[c] \in {"http", "tls"}, Becomes(c, what),
             UNCHANGED <<first, backlog, serve, waits, ahead>>
      PROVE  ListenInv'
  BY <1>6
<1>7. CASE Take
  <2>1. backlog \in Seq(Clients) /\ backlog # <<>> /\ backlog' = Tail(backlog)
    BY <1>7 DEF Take
  <2>2. /\ Len(backlog) \in Nat /\ 1 \in 1 .. Len(backlog) /\ backlog[1] \in Clients
        /\ backlog' \in Seq(Clients) /\ Head(backlog) = backlog[1]
        /\ \A i \in 1 .. Len(backlog') :
             i \in Nat /\ i + 1 \in 1 .. Len(backlog) /\ backlog'[i] = backlog[i + 1]
        /\ \A i \in 1 .. Len(backlog) :
             i # 1 => i - 1 \in 1 .. Len(backlog') /\ backlog'[i - 1] = backlog[i]
    BY <2>1, TailIndices
  <2>3. /\ conn' = [conn EXCEPT ![backlog[1]] = "peek"]
        /\ UNCHANGED <<first, waits, ahead>> /\ serve = "accept" /\ serve' = "peek"
    BY <1>7, <2>2 DEF Take
  <2>4. ListenTypeOK' /\ LoopShape'
    BY <2>2, <2>3
  <2>5. \A i \in 1 .. Len(backlog') : backlog'[i] # backlog[1]
    <3>1. ASSUME NEW i \in 1 .. Len(backlog') PROVE backlog'[i] # backlog[1]
      <4>1. i \in Nat /\ i + 1 \in 1 .. Len(backlog) /\ backlog'[i] = backlog[i + 1]
        BY <2>2
      <4>3. i + 1 # 1 /\ 1 \in 1 .. Len(backlog)
        BY <4>1, <2>2
      <4>2. QED
        BY <4>1, <4>3
    <3>2. QED
      BY <3>1
  <2>6. BacklogShape'
    <3>1. ASSUME NEW i \in 1 .. Len(backlog') PROVE conn'[backlog'[i]] = "queued"
      <4>1. i + 1 \in 1 .. Len(backlog) /\ backlog'[i] = backlog[i + 1]
        BY <2>2
      <4>2. conn[backlog'[i]] = "queued" /\ backlog'[i] \in Clients
        BY <4>1, <2>1
      <4>3. QED
        BY <4>2, <2>3, <2>5
    <3>2. \A i, j \in 1 .. Len(backlog') : backlog'[i] = backlog'[j] => i = j
      <4>1. ASSUME NEW i \in 1 .. Len(backlog'), NEW j \in 1 .. Len(backlog'),
                   backlog'[i] = backlog'[j]
            PROVE  i = j
        <5>1. i \in Nat /\ j \in Nat /\ i + 1 = j + 1
          BY <2>2, <4>1
        <5>2. QED
          BY <5>1
      <4>2. QED
        BY <4>1
    <3>3. ASSUME NEW c \in Clients, conn'[c] = "queued"
          PROVE  \E i \in 1 .. Len(backlog') : backlog'[i] = c
      <4>1. conn[c] = "queued" /\ c # backlog[1]
        BY <2>2, <2>3, <3>3
      <4>2. PICK k \in 1 .. Len(backlog) : backlog[k] = c
        BY <4>1
      <4>3. k - 1 \in 1 .. Len(backlog') /\ backlog'[k - 1] = c
        BY <4>1, <4>2, <2>2
      <4>4. QED
        BY <4>3
    <3>4. QED
      BY <3>1, <3>2, <3>3
  <2>7. Turn'
    <3>1. waits' = waits /\ ahead' = ahead /\ Peeking = 0 /\ Peeking' = 1
      BY <2>3
    <3>2. ASSUME NEW i \in 1 .. Len(backlog')
          PROVE  waits'[backlog'[i]] + (i - 1) + Peeking' <= ahead'[backlog'[i]]
      <4>1. /\ i \in Nat /\ i + 1 \in 1 .. Len(backlog) /\ backlog'[i] = backlog[i + 1]
        BY <2>2
      <4>2. backlog[i + 1] \in Clients
        BY <4>1, <2>1
      <4>3. waits[backlog[i + 1]] + ((i + 1) - 1) + Peeking <= ahead[backlog[i + 1]]
        BY <4>1
      <4>4. waits[backlog[i + 1]] \in Nat /\ ahead[backlog[i + 1]] \in Nat
        BY <4>2
      <4>5. QED
        BY <3>1, <4>1, <4>3, <4>4
    <3>3. waits[backlog[1]] <= ahead[backlog[1]]
      <4>1. waits[backlog[1]] + (1 - 1) + Peeking <= ahead[backlog[1]]
        BY <2>2
      <4>2. QED
        BY <2>2, <3>1, <4>1
    <3>4. QED
      BY <2>2, <2>3, <3>1, <3>2, <3>3
  <2>8. QED
    BY <2>4, <2>6, <2>7
<1>8. CASE Resume \/ Relaunch
  <2>1. /\ UNCHANGED <<conn, first, backlog, waits, ahead>> /\ serve' = "accept"
        /\ serve \in {"backoff", "down"}
    BY <1>8 DEF Resume, Relaunch
  <2>2. Peeking' = Peeking
    BY <2>1
  <2>3. QED
    BY <2>1, <2>2
<1>9. ASSUME NEW c \in Clients, Close(c) PROVE ListenInv'
  BY <1>6, <1>9 DEF Close
<1>10. ASSUME NEW c \in Clients, conn[c] = "tls", Becomes(c, "http"),
              UNCHANGED <<first, backlog, serve, waits, ahead>>
       PROVE  ListenInv'
  BY <1>6, <1>10
<1> HIDE DEF ListenInv, Becomes
<1>11. QED
  BY <1>1, <1>2, <1>3, <1>4, <1>5, <1>7, <1>8, <1>9, <1>10 DEF ListenStep

-----------------------------------------------------------------------------
(***************************************************************************)
(* The two together                                                        *)
(***************************************************************************)
FrontInv == CertInv /\ ListenInv /\ HandshakesAreTLS

LEMMA FrontInitInv == FrontInit => FrontInv
  BY FrontAssumption, CertInitInv, ListenInitInv
     DEF FrontInit, FrontInv, HandshakesAreTLS, CertInit, ListenInit

\* Exit ends every handshake and gives back mu; the files and the fields stay.
LEMMA ExitInv == ASSUME FrontInv, NEW c \in Conns, Exit(c) PROVE CertInv'
<1>1. CertTypeOK'
  BY CertAssumption DEF FrontInv, CertInv, Exit, CertTypeOK, diskVars, Contents, Steps
<1>2. ReloadHoldsMu' /\ LocalsShape'
  BY CertAssumption DEF Exit, ReloadHoldsMu, LocalsShape, Reloading
<1>3. Noticed'
  <2>1. lastMod \in Nat /\ mtime \in Nat
    BY TimesAreNat DEF FrontInv, CertInv
  <2>2. QED
    BY <2>1 DEF FrontInv, CertInv, Exit, Noticed, diskVars
<1>4. Settled' /\ Holding'
  BY DEF Exit, Settled, Holding
<1>5. QED
  BY <1>1, <1>2, <1>3, <1>4 DEF CertInv

\* A process that starts finds nobody in a handshake and loads once.
LEMMA LaunchInv == ASSUME FrontInv, Launch PROVE CertInv'
<1>1. \A h \in Conns : pc[h] = "idle" /\ seen[h] = 0
  BY FrontAssumption
     DEF FrontInv, Launch, Relaunch, ListenInv, LoopShape, HandshakesAreTLS, CertInv,
         LocalsShape, Reloading
<1>2. /\ Boot(cached', lastMod') /\ hidden' = FALSE
      /\ UNCHANGED <<combined, certPem, keyPem, mtime, mu, pc, cert, pair, seen, excused>>
  BY DEF Launch
<1>3. CertTypeOK'
  BY <1>2, CertAssumption DEF FrontInv, CertInv, CertTypeOK, Boot, Loadable, Contents, Steps
<1>4. ReloadHoldsMu' /\ LocalsShape'
  BY <1>2 DEF FrontInv, CertInv, ReloadHoldsMu, LocalsShape, Reloading
<1>5. mtime \in Nat /\ mtime # 0
  BY CertAssumption DEF FrontInv, CertInv, CertTypeOK
<1>6. Noticed' /\ Settled' /\ Holding'
  BY <1>1, <1>2, <1>5 DEF Noticed, Settled, Holding, Boot
<1>7. QED
  BY <1>3, <1>4, <1>6 DEF CertInv

LEMMA FrontStepInv == FrontInv /\ [FrontNext]_frontVars => FrontInv'
<1> SUFFICES ASSUME FrontInv, [FrontNext]_frontVars PROVE FrontInv'
  OBVIOUS
<1> USE FrontAssumption DEF FrontInv
<1>1. CASE Listening
  <2>1. CertInv'
    BY <1>1, CertStutterInv DEF Listening
  <2>2. ListenInv'
    BY <1>1, ListenStepInv DEF Listening, ListenStep
  <2>3. HandshakesAreTLS'
    <3>1. UNCHANGED pc
      BY <1>1 DEF Listening, certVars, managerVars
    <3>2. CASE Take
      <4>1. /\ Head(backlog) \in Clients /\ conn[Head(backlog)] = "queued"
            /\ conn' = [conn EXCEPT ![Head(backlog)] = "peek"]
        <5>1. backlog \in Seq(Clients) /\ backlog # <<>>
          BY <3>2 DEF Take, ListenInv, ListenTypeOK
        <5>2. 1 \in 1 .. Len(backlog) /\ Head(backlog) = backlog[1] /\ backlog[1] \in Clients
          BY <5>1, TailIndices
        <5>3. QED
          BY <3>2, <5>2 DEF Take, Becomes, ListenInv, BacklogShape
      <4>2. QED
        BY <3>1, <4>1 DEF HandshakesAreTLS, ListenInv, ListenTypeOK
    <3>3. CASE ~Take
      BY <1>1, <3>1, <3>3 DEF Listening, HandshakesAreTLS, ListenInv, ListenTypeOK, Dial,
         SendFirst, HandOver, Silent, Close, Resume, Becomes
    <3>4. QED
      BY <3>2, <3>3
  <2>4. QED
    BY <2>1, <2>2, <2>3
<1>2. CASE Launch
  <2>1. CertInv'
    BY <1>2, LaunchInv
  <2>2. ListenInv'
    BY <1>2, ListenStepInv DEF Launch, ListenStep
  <2>3. HandshakesAreTLS'
    BY <1>2 DEF Launch, Relaunch, HandshakesAreTLS
  <2>4. QED
    BY <2>1, <2>2, <2>3
<1>3. CASE Files
  <2>1. CertInv'
    BY <1>3, CertStepInv DEF Files
  <2>2. UNCHANGED <<pc, listenVars>>
    BY <1>3 DEF Files, FileStep, WriteCert, WriteKey, managerVars
  <2>3. QED
    BY <2>1, <2>2, ListenStutterInv DEF HandshakesAreTLS, listenVars
<1>4. ASSUME NEW c \in Conns, HandOverTLS(c) PROVE FrontInv'
  <2>1. CertInv' /\ ListenInv'
    BY <1>4, CertStepInv, ListenStepInv DEF HandOverTLS, ListenStep
  <2>2. HandshakesAreTLS'
    BY <1>4 DEF HandOverTLS, HandOver, Hello, At, Goto, Becomes, HandshakesAreTLS, CertInv,
       CertTypeOK, ListenInv, ListenTypeOK
  <2>3. QED
    BY <2>1, <2>2
<1>5. ASSUME NEW c \in Conns, ShakeHands(c) PROVE FrontInv'
  <2>1. CertInv' /\ ListenInv'
    BY <1>5, CertStepInv, ListenStutterInv DEF ShakeHands
  <2>2. HandshakesAreTLS'
    BY <1>5 DEF ShakeHands, listenVars, HandshakesAreTLS, CertInv, CertTypeOK, HandshakeStep,
       Reload, At, Goto, FirstRead, Reread, ReadCached, Check, Lock, StatFile, ReadCert,
       ReadKey, StoreCached, StampMod, Return
  <2>3. QED
    BY <2>1, <2>2
<1>6. ASSUME NEW c \in Conns, Encrypted(c) PROVE FrontInv'
  <2>1. conn[c] = "tls"
    BY <1>6 DEF Encrypted, Serve, At, HandshakesAreTLS
  <2>2. CertInv' /\ ListenInv'
    BY <1>6, <2>1, CertStepInv, ListenStepInv DEF Encrypted, ListenStep
  <2>3. HandshakesAreTLS'
    BY <1>6 DEF Encrypted, Serve, At, Goto, Becomes, HandshakesAreTLS, CertInv, CertTypeOK,
       ListenInv, ListenTypeOK
  <2>4. QED
    BY <2>2, <2>3
<1>7. ASSUME NEW c \in Conns, Exit(c) PROVE FrontInv'
  <2>1. CertInv' /\ ListenInv'
    BY <1>7, ExitInv, ListenStepInv DEF Exit, ListenStep
  <2>2. HandshakesAreTLS'
    BY <1>7 DEF Exit, HungUp, HandshakesAreTLS
  <2>3. QED
    BY <2>1, <2>2
<1>8. CASE UNCHANGED frontVars
  BY <1>8, CertStutterInv, ListenStutterInv
     DEF frontVars, HandshakesAreTLS, certVars, managerVars, listenVars
<1>9. QED
  BY <1>1, <1>2, <1>3, <1>4, <1>5, <1>6, <1>7, <1>8 DEF FrontNext, FrontStep

LEMMA FrontAlways == FrontSpec => []FrontInv
<1>1. FrontInit => FrontInv
  BY FrontInitInv
<1>2. FrontInv /\ [FrontNext]_frontVars => FrontInv'
  BY FrontStepInv
<1>3. QED
  BY <1>1, <1>2, PTL DEF FrontSpec

-----------------------------------------------------------------------------
\* Type correctness of the listener and of the certificate manager (server.go).
THEOREM FrontTypeCorrect == FrontSpec => []FrontTypeOK
<1>1. FrontInv => FrontTypeOK
  BY DEF FrontInv, CertInv, ListenInv, FrontTypeOK
<1>2. QED
  BY FrontAlways, <1>1, PTL

\* Whoever is between the Lock and the deferred Unlock of reload is the one writer,
\* so every path out of it has given mu back and no two reloads overlap.
THEOREM ReloadExclusive == FrontSpec => []ReloadHoldsMu
<1>1. FrontInv => ReloadHoldsMu
  BY DEF FrontInv, CertInv
<1>2. QED
  BY FrontAlways, <1>1, PTL

\* A certificate that belongs to its key and is not in cache stays newer than
\* lastMod whatever reload was under way when it was written, as reload notes the time
\* it read before it loads; the one exception is a file dated no later.
THEOREM CertsNotMissed == FrontSpec => []NoMissedCert
<1>1. FrontInv => NoMissedCert
  BY CertInvImplies DEF FrontInv
<1>2. QED
  BY FrontAlways, <1>1, PTL

\* A handshake that begins after a pair has been written serves that pair
\* (getCertificate), unless the file is dated no later than what was noted, or another
\* handshake's reload stores a certificate or lastMod while this one compares.
THEOREM NewPairReachesHandshakes == FrontSpec => []NewPairServed
<1>1. FrontInv => NewPairServed
  BY CertInvImplies DEF FrontInv
<1>2. QED
  BY FrontAlways, <1>1, PTL

\* A client waits for no more three-second deadlines than there were connections
\* before it, however silent they are (Accept).
THEOREM WaitsBounded == FrontSpec => []WaitBounded
<1>1. FrontInv => WaitBounded
  <2> SUFFICES ASSUME ListenInv, NEW c \in Clients, conn[c] \in {"queued", "peek"}
               PROVE  waits[c] <= ahead[c]
    BY DEF FrontInv, WaitBounded
  <2>1. CASE conn[c] = "peek"
    BY <2>1 DEF ListenInv, Turn
  <2>2. CASE conn[c] = "queued"
    <3>1. PICK i \in 1 .. Len(backlog) : backlog[i] = c
      BY <2>2 DEF ListenInv, BacklogShape
    <3>2. waits[c] + (i - 1) + Peeking <= ahead[c]
      BY <3>1 DEF ListenInv, Turn
    <3>3. waits[c] \in Nat /\ ahead[c] \in Nat /\ i \in Nat /\ i >= 1 /\ Peeking \in {0, 1}
      BY DEF ListenInv, ListenTypeOK, Peeking
    <3>4. QED
      BY <3>2, <3>3
  <2>3. QED
    BY <2>1, <2>2
<1>2. QED
  BY FrontAlways, <1>1, PTL
=============================================================================
