-------------------------- MODULE AliasChannelProofs --------------------------
(***************************************************************************)
(* Proofs about AliasChannel, for any queries, connections, addresses and  *)
(* buffer sizes.                                                           *)
(***************************************************************************)
EXTENDS AliasChannel, FiniteSetTheorems, TLAPS

(***************************************************************************)
(* Who has which connection, and what is left of one that is closed.       *)
(***************************************************************************)
Owned ==
    /\ pool \subseteq mine
    /\ \A q \in Queries :
         /\ qconn[q] = NoConn <=> qpc[q] \in {"idle", "get"}
         /\ qconn[q] # NoConn => qconn[q] \in mine \ pool
         /\ qpc[q] # "idle" => want[q] \in Requests
         /\ qpc[q] = "wait" => sync
    /\ \A q, r \in Queries : qconn[q] = qconn[r] /\ q # r => qconn[q] = NoConn

Shape ==
    /\ \A c \in Conns :
         /\ c \notin theirs => inbox[c] = <<>> /\ hand[c] = "none"
         /\ c \notin mine => outbox[c] = <<>>
         /\ hand[c] \in {"none", "read", "ack"} => job[c] = {}
    /\ engine = "c" =>
         \A c \in Conns : reply[c] = "OK" /\ (c \in theirs => outbox[c] = <<>>)

(***************************************************************************)
(* In sync mode one thing at most is under way on a connection: the        *)
(* request, the handler's work on it or its ACK.                           *)
(***************************************************************************)
Resting(c) == hand[c] \in {"none", "read"}

Quiet(c) == inbox[c] = <<>> /\ outbox[c] = <<>> /\ Resting(c)

Served(S) == S \subseteq pf \cup lost

Exchange(q, c) ==
    \/ Quiet(c)
    \/ inbox[c] = <<want[q]>> /\ outbox[c] = <<>> /\ Resting(c)
    \/ /\ inbox[c] = <<>> /\ outbox[c] = <<>> /\ ~Resting(c)
       /\ hand[c] \in {"add", "install"} => want[q] \subseteq pf \cup lost \cup job[c]
       /\ hand[c] = "ack" /\ reply[c] = "OK" => Served(want[q])
    \/ /\ inbox[c] = <<>> /\ Resting(c)
       /\ \/ outbox[c] = <<"OK">> /\ Served(want[q])
          \/ outbox[c] = <<"ERR">>

SyncInv ==
    sync =>
        /\ \A c \in pool : Quiet(c)
        /\ \A q \in Queries, c \in Conns :
             qconn[q] = c => /\ qpc[q] \in {"write", "done"} => Quiet(c)
                             /\ qpc[q] = "wait" => Exchange(q, c)

\* What the cache counts on or is about to.
Covered == pf \cup lost \cup (IF sync THEN {} ELSE InFlight)

Claims ==
    /\ cache \subseteq Covered
    /\ \A q \in Queries : qpc[q] = "done" => want[q] \subseteq Covered

ChannelInv == ChannelTypeOK /\ Owned /\ Shape /\ SyncInv /\ Claims

LEMMA ChannelInitInv == ChannelInit => ChannelInv
<1> SUFFICES ASSUME ChannelInit PROVE ChannelInv
  OBVIOUS
<1> USE ChannelAssumption DEF ChannelInit
<1>1. ChannelTypeOK
  BY DEF ChannelTypeOK, BuffersFit, Status
<1>2. Owned /\ Shape
  BY DEF Owned, Shape
<1>3. SyncInv /\ Claims
  BY DEF SyncInv, Claims
<1>4. QED
  BY <1>1, <1>2, <1>3 DEF ChannelInv

-----------------------------------------------------------------------------
(***************************************************************************)
(* Action by action.                                                       *)
(***************************************************************************)
LEMMA StepOwned ==
    ASSUME ChannelInv, ChannelNext
    PROVE  Owned'
<1> USE ChannelAssumption DEF ChannelInv, ChannelTypeOK, Owned, Goto
<1>1. ASSUME NEW q \in Queries, Exec(q) PROVE Owned'
  BY <1>1 DEF Exec, daemonSide
<1>2. ASSUME NEW q \in Queries, FromPool(q) PROVE Owned'
  BY <1>2 DEF FromPool, Finish, daemonSide
<1>3. ASSUME NEW q \in Queries, Dial(q) PROVE Owned'
  BY <1>3 DEF Dial, Finish, daemonSide
<1>4. ASSUME NEW q \in Queries, DialFails(q) PROVE Owned'
  BY <1>4 DEF DialFails, Finish, daemonSide
<1>5. ASSUME NEW q \in Queries, Write(q) PROVE Owned'
  BY <1>5 DEF Write, Finish, daemonSide
<1>6. ASSUME NEW q \in Queries, WriteFails(q) PROVE Owned'
  BY <1>6 DEF WriteFails, Discard, Finish, daemonSide
<1>7. ASSUME NEW q \in Queries, Timeout(q) PROVE Owned'
  BY <1>7 DEF Timeout, Discard, Finish, daemonSide
<1>8. ASSUME NEW q \in Queries, ReadAck(q) PROVE Owned'
  <2>1. CASE Head(outbox[qconn[q]]) = "OK"
    BY <1>8, <2>1 DEF ReadAck, daemonSide
  <2>2. CASE Head(outbox[qconn[q]]) # "OK"
    BY <1>8, <2>2 DEF ReadAck, Give, Discard, Finish, daemonSide
  <2>3. QED
    BY <2>1, <2>2
<1>9. ASSUME NEW q \in Queries, ReadEOF(q) PROVE Owned'
  BY <1>9 DEF ReadEOF, Discard, Finish, daemonSide
<1>10. ASSUME NEW q \in Queries, Update(q) PROVE Owned'
  BY <1>10 DEF Update, Give, Discard, Finish, daemonSide
<1>11. ASSUME NEW c \in Conns, Accept(c) PROVE Owned'
  BY <1>11 DEF Accept, At, Turn, pluginSide
<1>12. ASSUME NEW c \in Conns, ReadPacket(c) PROVE Owned'
  BY <1>12 DEF ReadPacket, At, Turn, pluginSide
<1>13. ASSUME NEW c \in Conns, ReadEnd(c) PROVE Owned'
  BY <1>13 DEF ReadEnd, At, Turn, pluginSide
<1>14. ASSUME NEW c \in Conns, Register(c) PROVE Owned'
  BY <1>14 DEF Register, At, Turn, pluginSide
<1>15. ASSUME NEW c \in Conns, Install(c) PROVE Owned'
  BY <1>15 DEF Install, Answer, At, Turn, pluginSide
<1>16. ASSUME NEW c \in Conns, SendAck(c) PROVE Owned'
  BY <1>16 DEF SendAck, Answer, At, Turn, pluginSide
<1>17. ASSUME NEW c \in Conns, CAccept(c) PROVE Owned'
  BY <1>17 DEF CAccept, CIdle, Whole, At, Turn, pluginSide
<1>18. ASSUME NEW c \in Conns, CTooEarly(c) PROVE Owned'
  BY <1>18 DEF CTooEarly, Close, CIdle, At, Turn, pluginSide
<1>19. ASSUME NEW c \in Conns, CAdd(c) PROVE Owned'
  BY <1>19 DEF CAdd, At, Turn, pluginSide
<1>20. ASSUME NEW c \in Conns, CAck(c) PROVE Owned'
  BY <1>20 DEF CAck, Close, Die, At, Turn, pluginSide
<1>21. CASE Shutdown
  BY <1>21 DEF Shutdown, pluginSide
<1>22. CASE CloseDevice
  BY <1>22 DEF CloseDevice, pluginSide
<1>23. CASE Exit
  BY <1>23 DEF Exit, Die, pluginSide
<1>24. CASE Launch
  BY <1>24 DEF Launch, pluginSide
<1> HIDE DEF ChannelInv, ChannelTypeOK, Owned, Goto
<1>25. QED
  BY <1>1, <1>2, <1>3, <1>4, <1>5, <1>6, <1>7, <1>8, <1>9, <1>10, <1>11, <1>12, <1>13,
     <1>14, <1>15, <1>16, <1>17, <1>18, <1>19, <1>20, <1>21, <1>22, <1>23, <1>24
     DEF ChannelNext, QueryStep, HandlerStep, CStep

LEMMA Queues ==
    ASSUME NEW T, NEW s \in Seq(T)
    PROVE  /\ Len(s) \in Nat
           /\ \A x \in T : Append(s, x) \in Seq(T) /\ Len(Append(s, x)) = Len(s) + 1
           /\ s # <<>> => /\ Head(s) \in T /\ Tail(s) \in Seq(T)
                          /\ Len(Tail(s)) = Len(s) - 1
  OBVIOUS

LEMMA NoQueue == \A T : <<>> \in Seq(T) /\ Len(<<>>) = 0
  OBVIOUS

\* A buffer of one connection is replaced by one that fits.
LEMMA Replace ==
    ASSUME NEW T, NEW f \in [Conns -> Seq(T)], NEW c \in Conns, NEW s \in Seq(T),
           \A d \in Conns : Len(f[d]) <= BufCap, Len(s) <= BufCap
    PROVE  /\ [f EXCEPT ![c] = s] \in [Conns -> Seq(T)]
           /\ \A d \in Conns : Len([f EXCEPT ![c] = s][d]) <= BufCap
  OBVIOUS

LEMMA Clear ==
    ASSUME NEW T, NEW f \in [Conns -> Seq(T)], NEW c \in Conns,
           \A d \in Conns : Len(f[d]) <= BufCap
    PROVE  /\ [f EXCEPT ![c] = <<>>] \in [Conns -> Seq(T)]
           /\ \A d \in Conns : Len([f EXCEPT ![c] = <<>>][d]) <= BufCap
BY NoQueue, Replace, ChannelAssumption

LEMMA StepBuffers ==
    ASSUME ChannelInv, ChannelNext
    PROVE  BuffersFit'
<1> USE ChannelAssumption DEF ChannelInv, ChannelTypeOK
<1>1. ASSUME NEW q \in Queries, Exec(q) PROVE BuffersFit'
  BY <1>1 DEF Exec, daemonSide, BuffersFit
<1>2. ASSUME NEW q \in Queries, FromPool(q) PROVE BuffersFit'
  BY <1>2 DEF FromPool, daemonSide, BuffersFit
<1>3. ASSUME NEW q \in Queries, Dial(q) PROVE BuffersFit'
  BY <1>3 DEF Dial, daemonSide, BuffersFit
<1>4. ASSUME NEW q \in Queries, DialFails(q) PROVE BuffersFit'
  BY <1>4 DEF DialFails, daemonSide, BuffersFit
<1>5. ASSUME NEW q \in Queries, Write(q) PROVE BuffersFit'
  <2>1. /\ qconn[q] \in Conns /\ want[q] \in Requests /\ Len(inbox[qconn[q]]) # BufCap
        /\ inbox' = [inbox EXCEPT ![qconn[q]] = Append(inbox[qconn[q]], want[q])]
        /\ UNCHANGED outbox
    BY <1>5 DEF Write, Full, Owned, BuffersFit
  <2>2. /\ Append(inbox[qconn[q]], want[q]) \in Seq(Requests)
        /\ Len(Append(inbox[qconn[q]], want[q])) <= BufCap
    BY <2>1, Queues DEF BuffersFit
  <2>3. QED
    BY <2>1, <2>2, Replace DEF BuffersFit
<1>6. ASSUME NEW q \in Queries, WriteFails(q) PROVE BuffersFit'
  <2>1. qconn[q] \in Conns
    BY <1>6 DEF WriteFails, Owned
  <2>2. UNCHANGED inbox /\ outbox' = [outbox EXCEPT ![qconn[q]] = <<>>]
    BY <1>6 DEF WriteFails, Discard, daemonSide
  <2>3. QED
    BY <2>1, <2>2, Clear DEF BuffersFit
<1>7. ASSUME NEW q \in Queries, Timeout(q) PROVE BuffersFit'
  <2>1. qconn[q] \in Conns
    BY <1>7 DEF Timeout, Owned
  <2>2. UNCHANGED inbox /\ outbox' = [outbox EXCEPT ![qconn[q]] = <<>>]
    BY <1>7 DEF Timeout, Discard, daemonSide
  <2>3. QED
    BY <2>1, <2>2, Clear DEF BuffersFit
<1>8. ASSUME NEW q \in Queries, ReadAck(q) PROVE BuffersFit'
  <2>1. qconn[q] \in Conns /\ outbox[qconn[q]] # <<>> /\ UNCHANGED inbox
    BY <1>8 DEF ReadAck, Owned, daemonSide
  <2>2. \/ outbox' = [outbox EXCEPT ![qconn[q]] = Tail(outbox[qconn[q]])]
        \/ outbox' = [outbox EXCEPT ![qconn[q]] = <<>>]
    BY <1>8, <2>1 DEF ReadAck, Give, Discard, Read, BuffersFit
  <2>3. /\ Tail(outbox[qconn[q]]) \in Seq(Status) /\ Len(Tail(outbox[qconn[q]])) <= BufCap
    BY <2>1, Queues DEF BuffersFit
  <2>4. CASE outbox' = [outbox EXCEPT ![qconn[q]] = Tail(outbox[qconn[q]])]
    BY <2>1, <2>3, <2>4, Replace DEF BuffersFit
  <2>5. CASE outbox' = [outbox EXCEPT ![qconn[q]] = <<>>]
    BY <2>1, <2>5, Clear DEF BuffersFit
  <2>6. QED
    BY <2>2, <2>4, <2>5
<1>9. ASSUME NEW q \in Queries, ReadEOF(q) PROVE BuffersFit'
  <2>1. qconn[q] \in Conns
    BY <1>9 DEF ReadEOF, Owned
  <2>2. UNCHANGED inbox /\ outbox' = [outbox EXCEPT ![qconn[q]] = <<>>]
    BY <1>9 DEF ReadEOF, Discard, daemonSide
  <2>3. QED
    BY <2>1, <2>2, Clear DEF BuffersFit
<1>10. ASSUME NEW q \in Queries, Update(q) PROVE BuffersFit'
  <2>1. qconn[q] \in Conns /\ UNCHANGED inbox
    BY <1>10 DEF Update, Owned, daemonSide
  <2>2. UNCHANGED outbox \/ outbox' = [outbox EXCEPT ![qconn[q]] = <<>>]
    BY <1>10 DEF Update, Give, Discard
  <2>3. CASE UNCHANGED outbox
    BY <2>1, <2>3 DEF BuffersFit
  <2>4. CASE outbox' = [outbox EXCEPT ![qconn[q]] = <<>>]
    BY <2>1, <2>4, Clear DEF BuffersFit
  <2>5. QED
    BY <2>2, <2>3, <2>4
<1>11. ASSUME NEW c \in Conns, Accept(c) PROVE BuffersFit'
  BY <1>11 DEF Accept, BuffersFit
<1>12. ASSUME NEW c \in Conns, ReadPacket(c) PROVE BuffersFit'
  <2>1. /\ inbox[c] # <<>> /\ inbox' = [inbox EXCEPT ![c] = Tail(inbox[c])]
        /\ UNCHANGED outbox
    BY <1>12 DEF ReadPacket, BuffersFit
  <2>2. Tail(inbox[c]) \in Seq(Requests) /\ Len(Tail(inbox[c])) <= BufCap
    BY <2>1, Queues DEF BuffersFit
  <2>3. QED
    BY <2>1, <2>2, Replace DEF BuffersFit
<1>13. ASSUME NEW c \in Conns, ReadEnd(c) PROVE BuffersFit'
  BY <1>13 DEF ReadEnd, BuffersFit
<1>14. ASSUME NEW c \in Conns, Register(c) PROVE BuffersFit'
  BY <1>14 DEF Register, BuffersFit
<1>15. ASSUME NEW c \in Conns, Install(c) PROVE BuffersFit'
  BY <1>15 DEF Install, BuffersFit
<1>16. ASSUME NEW c \in Conns, SendAck(c) PROVE BuffersFit'
  <2>1. UNCHANGED inbox
    BY <1>16 DEF SendAck
  <2>2. CASE UNCHANGED outbox
    BY <2>1, <2>2 DEF BuffersFit
  <2>3. CASE ~UNCHANGED outbox
    <3>1. /\ Len(outbox[c]) < BufCap
          /\ outbox' = [outbox EXCEPT ![c] = Append(outbox[c], reply[c])]
      BY <1>16, <2>3 DEF SendAck, BuffersFit
    <3>2. Append(outbox[c], reply[c]) \in Seq(Status) /\ Len(Append(outbox[c], reply[c])) <= BufCap
      BY <3>1, Queues DEF BuffersFit
    <3>3. QED
      BY <2>1, <3>1, <3>2, Replace DEF BuffersFit
  <2>4. QED
    BY <2>2, <2>3
<1>17. ASSUME NEW c \in Conns, CAccept(c) PROVE BuffersFit'
  <2>1. /\ inbox[c] # <<>> /\ inbox' = [inbox EXCEPT ![c] = Tail(inbox[c])]
        /\ UNCHANGED outbox
    BY <1>17 DEF CAccept, BuffersFit
  <2>2. Tail(inbox[c]) \in Seq(Requests) /\ Len(Tail(inbox[c])) <= BufCap
    BY <2>1, Queues DEF BuffersFit
  <2>3. QED
    BY <2>1, <2>2, Replace DEF BuffersFit
<1>18. ASSUME NEW c \in Conns, CTooEarly(c) PROVE BuffersFit'
  <2>1. inbox' = [inbox EXCEPT ![c] = <<>>] /\ UNCHANGED outbox
    BY <1>18 DEF CTooEarly, Close
  <2>2. QED
    BY <2>1, Replace, NoQueue DEF BuffersFit
<1>19. ASSUME NEW c \in Conns, CAdd(c) PROVE BuffersFit'
  BY <1>19 DEF CAdd, BuffersFit
<1>20. ASSUME NEW c \in Conns, CAck(c) PROVE BuffersFit'
  <2>1. CASE c \in mine
    <3>1. /\ inbox' = [inbox EXCEPT ![c] = <<>>]
          /\ outbox' = [outbox EXCEPT ![c] = Append(outbox[c], "OK")]
      BY <1>20, <2>1 DEF CAck, Close, BuffersFit
    <3>2. outbox[c] = <<>>
      BY <1>20 DEF CAck, Shape
    <3>3. Append(outbox[c], "OK") \in Seq(Status) /\ Len(Append(outbox[c], "OK")) <= BufCap
      BY <3>2, Queues, NoQueue DEF Status
    <3>4. QED
      BY <3>1, <3>3, Replace, NoQueue DEF BuffersFit
  <2>2. CASE c \notin mine
    <3>1. inbox' = [d \in Conns |-> <<>>] /\ UNCHANGED outbox
      BY <1>20, <2>2 DEF CAck, Die
    <3>2. \A d \in Conns : inbox'[d] = <<>>
      BY <3>1
    <3>3. inbox' \in [Conns -> Seq(Requests)]
      BY <3>1, NoQueue
    <3>4. QED
      BY <3>1, <3>2, <3>3, NoQueue DEF BuffersFit
  <2>3. QED
    BY <2>1, <2>2
<1>21. CASE Shutdown
  BY <1>21, NoQueue DEF Shutdown, BuffersFit
<1>22. CASE CloseDevice
  BY <1>22 DEF CloseDevice, BuffersFit
<1>23. CASE Exit
  BY <1>23, NoQueue DEF Exit, Die, BuffersFit, pluginSide
<1>24. CASE Launch
  BY <1>24 DEF Launch, BuffersFit
<1> HIDE DEF ChannelInv, ChannelTypeOK
<1>25. QED
  BY <1>1, <1>2, <1>3, <1>4, <1>5, <1>6, <1>7, <1>8, <1>9, <1>10, <1>11, <1>12, <1>13,
     <1>14, <1>15, <1>16, <1>17, <1>18, <1>19, <1>20, <1>21, <1>22, <1>23, <1>24
     DEF ChannelNext, QueryStep, HandlerStep, CStep

LEMMA Packets ==
    ASSUME ChannelTypeOK, NEW c \in Conns
    PROVE  /\ UnionOf(inbox[c]) \subseteq Addrs
           /\ inbox[c] # <<>> => Head(inbox[c]) \in SUBSET Addrs
<1>1. inbox[c] \in Seq(Requests) /\ Requests \subseteq SUBSET Addrs
  BY ChannelAssumption DEF ChannelTypeOK, BuffersFit
<1>2. \A i \in 1 .. Len(inbox[c]) : inbox[c][i] \in Requests
  BY <1>1
<1>3. UnionOf(inbox[c]) \subseteq Addrs
  BY <1>1, <1>2 DEF UnionOf
<1>4. inbox[c] # <<>> => Head(inbox[c]) \in Requests
  BY <1>1, Queues
<1>5. QED
  BY <1>1, <1>3, <1>4

\* All that may come to nothing is made of addresses.
LEMMA Flights ==
    /\ \A a : a \in InFlight <=> \E d \in Conns : a \in UnionOf(inbox[d]) \cup job[d]
    /\ \A a : a \in InFlight' <=> \E d \in Conns : a \in UnionOf(inbox'[d]) \cup job'[d]
<1>1. \A a : a \in InFlight <=> \E d \in Conns : a \in UnionOf(inbox[d]) \cup job[d]
  BY Zenon DEF InFlight
<1>2. \A a : a \in InFlight' <=> \E d \in Conns : a \in UnionOf(inbox'[d]) \cup job'[d]
  BY Zenon DEF InFlight
<1>3. QED
  BY <1>1, <1>2

LEMMA Losses ==
    ASSUME ChannelTypeOK
    PROVE  /\ \A C \in SUBSET Conns : UNION {UnionOf(inbox[c]) : c \in C} \subseteq Addrs
           /\ InFlight \subseteq Addrs
           /\ \A S \in SUBSET Addrs : Lose(S) => lost' \subseteq Addrs
<1>1. \A c \in Conns : UnionOf(inbox[c]) \subseteq Addrs /\ job[c] \subseteq Addrs
  BY Packets DEF ChannelTypeOK
<1>2. \A S \in SUBSET Addrs : Lose(S) => lost' \subseteq Addrs
  BY DEF Lose, ChannelTypeOK
<1>3. InFlight \subseteq Addrs
  BY <1>1, Flights
<1>4. QED
  BY <1>1, <1>2, <1>3

LEMMA DieType ==
    ASSUME ChannelTypeOK, Die
    PROVE  /\ phase' = "down" /\ told' = {} /\ theirs' = {} /\ lost' \subseteq Addrs
           /\ hand' \in [Conns -> {"none", "read", "add", "install", "ack"}]
           /\ job' \in [Conns -> SUBSET Addrs] /\ reply' \in [Conns -> Status]
<1>1. lost' \subseteq Addrs
  BY Losses DEF Die
<1>2. QED
  BY <1>1 DEF Die, Status

LEMMA StepType ==
    ASSUME ChannelInv, ChannelNext
    PROVE  ChannelTypeOK'
<1>0. BuffersFit'
  BY StepBuffers
<1> USE ChannelAssumption DEF ChannelInv, ChannelTypeOK, Owned, Goto, Status
<1>1. ASSUME NEW q \in Queries, Exec(q) PROVE ChannelTypeOK'
  BY <1>0, <1>1 DEF Exec, daemonSide
<1>2. ASSUME NEW q \in Queries, FromPool(q) PROVE ChannelTypeOK'
  BY <1>0, <1>2 DEF FromPool, Finish, daemonSide
<1>3. ASSUME NEW q \in Queries, Dial(q) PROVE ChannelTypeOK'
  BY <1>0, <1>3 DEF Dial, Finish, daemonSide
<1>4. ASSUME NEW q \in Queries, DialFails(q) PROVE ChannelTypeOK'
  BY <1>0, <1>4 DEF DialFails, Finish, daemonSide
<1>5. ASSUME NEW q \in Queries, Write(q) PROVE ChannelTypeOK'
  BY <1>0, <1>5 DEF Write, Finish, daemonSide
<1>6. ASSUME NEW q \in Queries, WriteFails(q) PROVE ChannelTypeOK'
  BY <1>0, <1>6 DEF WriteFails, Discard, Finish, daemonSide
<1>7. ASSUME NEW q \in Queries, Timeout(q) PROVE ChannelTypeOK'
  BY <1>0, <1>7 DEF Timeout, Discard, Finish, daemonSide
<1>8. ASSUME NEW q \in Queries, ReadAck(q) PROVE ChannelTypeOK'
  BY <1>0, <1>8 DEF ReadAck, Give, Discard, Read, Finish, daemonSide
<1>9. ASSUME NEW q \in Queries, ReadEOF(q) PROVE ChannelTypeOK'
  BY <1>0, <1>9 DEF ReadEOF, Discard, Finish, daemonSide
<1>10. ASSUME NEW q \in Queries, Update(q) PROVE ChannelTypeOK'
  BY <1>0, <1>10 DEF Update, Give, Discard, Finish, daemonSide
<1>11. ASSUME NEW c \in Conns, Accept(c) PROVE ChannelTypeOK'
  BY <1>0, <1>11 DEF Accept, At, Turn, pluginSide
<1>12. ASSUME NEW c \in Conns, ReadPacket(c) PROVE ChannelTypeOK'
  <2>1. inbox[c] # <<>> /\ Head(inbox[c]) \in SUBSET Addrs
    BY <1>12, Packets DEF ReadPacket
  <2>2. CASE Cut(Head(inbox[c]))
    <3>1. Lose(Head(inbox[c])) /\ UNCHANGED <<hand, job>>
      BY <1>12, <2>2 DEF ReadPacket
    <3>2. lost' \subseteq Addrs
      BY <2>1, <3>1, Losses
    <3>3. QED
      BY <1>0, <1>12, <3>1, <3>2 DEF ReadPacket, pluginSide
  <2>3. CASE ~Cut(Head(inbox[c]))
    BY <1>0, <1>12, <2>1, <2>3 DEF ReadPacket, Turn, pluginSide
  <2>4. QED
    BY <2>2, <2>3
<1>13. ASSUME NEW c \in Conns, ReadEnd(c) PROVE ChannelTypeOK'
  BY <1>0, <1>13 DEF ReadEnd, At, Turn, pluginSide
<1>14. ASSUME NEW c \in Conns, Register(c) PROVE ChannelTypeOK'
  BY <1>0, <1>14 DEF Register, At, Turn, pluginSide
<1>15. ASSUME NEW c \in Conns, Install(c) PROVE ChannelTypeOK'
  <2>1. job[c] \in SUBSET Addrs
    OBVIOUS
  <2>2. CASE UNCHANGED pf
    <3>1. lost' \subseteq Addrs
      BY <1>15, <2>1, Losses DEF Install
    <3>2. QED
      BY <1>0, <1>15, <2>2, <3>1 DEF Install, Answer, Turn, pluginSide
  <2>3. CASE ~UNCHANGED pf
    BY <1>0, <1>15, <2>1, <2>3 DEF Install, Answer, Turn, pluginSide
  <2>4. QED
    BY <2>2, <2>3
<1>16. ASSUME NEW c \in Conns, SendAck(c) PROVE ChannelTypeOK'
  BY <1>0, <1>16 DEF SendAck, Answer, At, Turn, pluginSide
<1>17. ASSUME NEW c \in Conns, CAccept(c) PROVE ChannelTypeOK'
  <2>1. inbox[c] # <<>> /\ Head(inbox[c]) \in SUBSET Addrs
    BY <1>17, Packets DEF CAccept
  <2>2. PICK T \in Whole(Head(inbox[c])) :
             /\ job' = [job EXCEPT ![c] = T]
             /\ lost' = lost \cup (Head(inbox[c]) \ (T \cup pf))
    BY <1>17 DEF CAccept
  <2>3. T \subseteq Addrs
    BY <2>1, <2>2 DEF Whole
  <2>4. QED
    BY <1>0, <1>17, <2>1, <2>2, <2>3 DEF CAccept, Turn, pluginSide
<1>18. ASSUME NEW c \in Conns, CTooEarly(c) PROVE ChannelTypeOK'
  BY <1>0, <1>18 DEF CTooEarly, Close, CIdle, At, Turn, pluginSide
<1>19. ASSUME NEW c \in Conns, CAdd(c) PROVE ChannelTypeOK'
  BY <1>0, <1>19 DEF CAdd, At, Turn, pluginSide
<1>20. ASSUME NEW c \in Conns, CAck(c) PROVE ChannelTypeOK'
  <2>1. CASE c \in mine
    <3>1. lost' \subseteq Addrs
      BY <1>20, <2>1, Packets, Losses DEF CAck
    <3>2. QED
      BY <1>0, <1>20, <2>1, <3>1 DEF CAck, Close, Turn, pluginSide
  <2>2. CASE c \notin mine
    BY <1>0, <1>20, <2>2, DieType DEF CAck, pluginSide
  <2>3. QED
    BY <2>1, <2>2
<1>21. CASE Shutdown
  <2>1. lost' \subseteq Addrs
    BY <1>21, Losses DEF Shutdown
  <2>2. QED
    BY <1>0, <1>21, <2>1 DEF Shutdown, pluginSide
<1>22. CASE CloseDevice
  BY <1>0, <1>22 DEF CloseDevice, pluginSide
<1>23. CASE Exit
  BY <1>0, <1>23, DieType DEF Exit, pluginSide
<1>24. CASE Launch
  BY <1>0, <1>24 DEF Launch, pluginSide
<1> HIDE DEF ChannelInv, ChannelTypeOK, Owned, Goto, Status
<1>26. QED
  BY <1>1, <1>2, <1>3, <1>4, <1>5, <1>6, <1>7, <1>8, <1>9, <1>10, <1>11, <1>12, <1>13,
     <1>14, <1>15, <1>16, <1>17, <1>18, <1>19, <1>20, <1>21, <1>22, <1>23, <1>24
     DEF ChannelNext, QueryStep, HandlerStep, CStep

\* What the plugin does to the shape: it empties the buffers of what it closes, and
\* takes ACKs out of others.
LEMMA PluginShape ==
    ASSUME ChannelTypeOK, Shape, UNCHANGED <<engine, daemonSide>>,
           \A c \in Conns : /\ c \notin mine' => outbox'[c] = <<>>
                            /\ outbox[c] = <<>> => outbox'[c] = <<>>
    PROVE  Shape'
BY DEF Shape, daemonSide

LEMMA DiscardShape ==
    ASSUME ChannelTypeOK, Shape, UNCHANGED <<engine, daemonSide>>,
           NEW c \in Conns, Discard(c)
    PROVE  Shape'
<1>1. /\ mine' = mine \ {c} /\ outbox' = [outbox EXCEPT ![c] = <<>>]
      /\ DOMAIN outbox = Conns
  BY DEF Discard, ChannelTypeOK, BuffersFit
<1>2. \A d \in Conns : /\ d \notin mine' => outbox'[d] = <<>>
                       /\ outbox[d] = <<>> => outbox'[d] = <<>>
  BY <1>1 DEF Shape
<1>3. QED
  BY <1>2, PluginShape

LEMMA StepShape ==
    ASSUME ChannelInv, ChannelNext
    PROVE  Shape'
<1> USE ChannelAssumption DEF ChannelInv, ChannelTypeOK, Shape, Owned, Goto
<1>1. ASSUME NEW q \in Queries, Exec(q) PROVE Shape'
  BY <1>1 DEF Exec, daemonSide
<1>2. ASSUME NEW q \in Queries, FromPool(q) PROVE Shape'
  BY <1>2 DEF FromPool, Finish, daemonSide
<1>3. ASSUME NEW q \in Queries, Dial(q) PROVE Shape'
  BY <1>3 DEF Dial, Finish, daemonSide
<1>4. ASSUME NEW q \in Queries, DialFails(q) PROVE Shape'
  BY <1>4 DEF DialFails, Finish, daemonSide
<1>5. ASSUME NEW q \in Queries, Write(q) PROVE Shape'
  BY <1>5 DEF Write, Finish, daemonSide
<1>6. ASSUME NEW q \in Queries, WriteFails(q) PROVE Shape'
  BY <1>6, DiscardShape DEF WriteFails
<1>7. ASSUME NEW q \in Queries, Timeout(q) PROVE Shape'
  BY <1>7, DiscardShape DEF Timeout
<1>8. ASSUME NEW q \in Queries, ReadAck(q) PROVE Shape'
  <2>1. /\ qconn[q] \in mine /\ qconn[q] \in Conns /\ outbox[qconn[q]] # <<>>
        /\ DOMAIN outbox = Conns /\ UNCHANGED <<engine, daemonSide>>
    BY <1>8 DEF ReadAck, BuffersFit
  <2>2. CASE Discard(qconn[q])
    BY <2>1, <2>2, DiscardShape
  <2>3. CASE ~Discard(qconn[q])
    <3>1. UNCHANGED mine /\ outbox' = Read(qconn[q])
      BY <1>8, <2>3 DEF ReadAck, Give
    <3>2. \A d \in Conns : /\ d \notin mine' => outbox'[d] = <<>>
                           /\ outbox[d] = <<>> => outbox'[d] = <<>>
      BY <2>1, <3>1 DEF Read
    <3>3. QED
      BY <2>1, <3>2, PluginShape
  <2>4. QED
    BY <2>2, <2>3
<1>9. ASSUME NEW q \in Queries, ReadEOF(q) PROVE Shape'
  BY <1>9, DiscardShape DEF ReadEOF
<1>10. ASSUME NEW q \in Queries, Update(q) PROVE Shape'
  <2>1. qconn[q] \in Conns /\ UNCHANGED <<engine, daemonSide>>
    BY <1>10 DEF Update
  <2>2. CASE Discard(qconn[q])
    BY <2>1, <2>2, DiscardShape
  <2>3. CASE UNCHANGED <<mine, outbox>>
    BY <2>1, <2>3, PluginShape
  <2>4. QED
    BY <1>10, <2>2, <2>3 DEF Update, Give
<1>11. ASSUME NEW c \in Conns, Accept(c) PROVE Shape'
  BY <1>11 DEF Accept, At, Turn, pluginSide
<1>12. ASSUME NEW c \in Conns, ReadPacket(c) PROVE Shape'
  BY <1>12 DEF ReadPacket, At, Turn, pluginSide
<1>13. ASSUME NEW c \in Conns, ReadEnd(c) PROVE Shape'
  BY <1>13 DEF ReadEnd, At, Turn, pluginSide
<1>14. ASSUME NEW c \in Conns, Register(c) PROVE Shape'
  BY <1>14 DEF Register, At, Turn, pluginSide
<1>15. ASSUME NEW c \in Conns, Install(c) PROVE Shape'
  BY <1>15 DEF Install, Answer, At, Turn, pluginSide
<1>16. ASSUME NEW c \in Conns, SendAck(c) PROVE Shape'
  <2>1. /\ engine = "go" /\ hand[c] = "ack" /\ hand' = [hand EXCEPT ![c] = "read"]
        /\ UNCHANGED <<engine, theirs, inbox, job, mine>> /\ DOMAIN outbox = Conns
    BY <1>16 DEF SendAck, At, Turn, pluginSide, BuffersFit
  <2>2. \A d \in Conns : d \notin mine => outbox'[d] = <<>>
    BY <1>16, <2>1 DEF SendAck
  <2>3. QED
    BY <2>1, <2>2
<1>17. ASSUME NEW c \in Conns, CAccept(c) PROVE Shape'
  BY <1>17 DEF CAccept, CIdle, Whole, At, Turn, pluginSide
<1>18. ASSUME NEW c \in Conns, CTooEarly(c) PROVE Shape'
  BY <1>18 DEF CTooEarly, Close, CIdle, At, Turn, pluginSide
<1>19. ASSUME NEW c \in Conns, CAdd(c) PROVE Shape'
  BY <1>19 DEF CAdd, At, Turn, pluginSide
<1>20. ASSUME NEW c \in Conns, CAck(c) PROVE Shape'
  <2>1. CASE c \in mine
    <3>1. /\ UNCHANGED <<engine, mine, job, reply>>
          /\ hand[c] = "ack" /\ hand' = [hand EXCEPT ![c] = "none"]
          /\ inbox' = [inbox EXCEPT ![c] = <<>>] /\ theirs' = theirs \ {c}
          /\ outbox' = [outbox EXCEPT ![c] = Append(@, "OK")]
          /\ DOMAIN outbox = Conns /\ DOMAIN inbox = Conns
      BY <1>20, <2>1 DEF CAck, Close, Turn, pluginSide, BuffersFit
    <3>2. \A d \in Conns : d # c => inbox'[d] = inbox[d] /\ outbox'[d] = outbox[d]
      BY <3>1
    <3>3. inbox'[c] = <<>>
      BY <3>1
    <3>4. QED
      BY <2>1, <3>1, <3>2, <3>3
  <2>2. CASE c \notin mine
    BY <1>20, <2>2 DEF CAck, Die, pluginSide
  <2>3. QED
    BY <2>1, <2>2
<1>21. CASE Shutdown
  BY <1>21 DEF Shutdown, pluginSide
<1>22. CASE CloseDevice
  BY <1>22 DEF CloseDevice, pluginSide
<1>23. CASE Exit
  BY <1>23 DEF Exit, Die, pluginSide
<1>24. CASE Launch
  BY <1>24 DEF Launch, pluginSide
<1> HIDE DEF ChannelInv, ChannelTypeOK, Shape, Owned, Goto
<1>25. QED
  BY <1>1, <1>2, <1>3, <1>4, <1>5, <1>6, <1>7, <1>8, <1>9, <1>10, <1>11, <1>12, <1>13,
     <1>14, <1>15, <1>16, <1>17, <1>18, <1>19, <1>20, <1>21, <1>22, <1>23, <1>24
     DEF ChannelNext, QueryStep, HandlerStep, CStep

(***************************************************************************)
(* What is counted on does not shrink.                                     *)
(***************************************************************************)
LEMMA ServedGrows ==
    ASSUME ChannelInv, ChannelNext
    PROVE  pf \cup lost \subseteq pf' \cup lost'
<1>1. ASSUME NEW q \in Queries, Exec(q) \/ QueryStep(q)
      PROVE  UNCHANGED <<pf, lost>>
  BY <1>1 DEF Exec, QueryStep, FromPool, Dial, DialFails, Write, WriteFails, Timeout, ReadAck,
     ReadEOF, Update, daemonSide
<1>2. ASSUME NEW c \in Conns, HandlerStep(c)
      PROVE  pf \cup lost \subseteq pf' \cup lost'
  <2>1. CASE Install(c)
    BY <2>1 DEF Install, Lose
  <2>2. CASE ReadPacket(c)
    BY <2>2 DEF ReadPacket, Lose
  <2>3. CASE Accept(c) \/ ReadEnd(c) \/ Register(c) \/ SendAck(c)
    BY <2>3 DEF Accept, ReadEnd, Register, SendAck
  <2>4. QED
    BY <1>2, <2>1, <2>2, <2>3 DEF HandlerStep
<1>3. ASSUME NEW c \in Conns, CStep(c)
      PROVE  pf \cup lost \subseteq pf' \cup lost'
  BY <1>3 DEF CStep, CAccept, CTooEarly, CAdd, CAck, Lose, Die
<1>4. CASE Shutdown \/ CloseDevice \/ Exit \/ Launch
  BY <1>4 DEF Shutdown, CloseDevice, Exit, Launch, Lose, Die
<1>5. QED
  BY <1>1, <1>2, <1>3, <1>4 DEF ChannelNext

-----------------------------------------------------------------------------
(***************************************************************************)
(* SyncInv: first what a step that leaves a connection alone does to it.   *)
(***************************************************************************)
LEMMA SameConn ==
    ASSUME ChannelInv, ChannelNext, NEW q \in Queries, NEW d \in Conns,
           inbox'[d] = inbox[d], outbox'[d] = outbox[d], hand'[d] = hand[d],
           job'[d] = job[d], reply'[d] = reply[d], want'[q] = want[q]
    PROVE  /\ Quiet(d) => Quiet(d)'
           /\ Exchange(q, d) => Exchange(q, d)'
<1>1. pf \cup lost \subseteq pf' \cup lost'
  BY ServedGrows
<1>2. QED
  BY <1>1 DEF Quiet, Exchange, Resting, Served

\* A step of the daemon.
LEMMA DaemonSync ==
    ASSUME ChannelInv, UNCHANGED <<sync, pluginSide>>,
           sync => \A q \in Queries, d \in Conns :
               /\ Quiet(d) => Quiet(d)'
               /\ qconn[q] = d /\ Exchange(q, d) => Exchange(q, d)',
           sync => \A d \in pool : Quiet(d) => Quiet(d)'
    PROVE  SyncInv'
BY DEF ChannelInv, SyncInv, pluginSide

\* A step of one query.
LEMMA QuerySync ==
    ASSUME ChannelInv, ChannelNext, NEW q \in Queries, sync' = sync,
           \A r \in Queries \ {q} :
               qpc'[r] = qpc[r] /\ want'[r] = want[r] /\ qconn'[r] = qconn[r],
           UNCHANGED <<hand, job, reply>>,
           \A d \in Conns : d # qconn[q] => inbox'[d] = inbox[d] /\ outbox'[d] = outbox[d],
           sync => \A c \in pool' : Quiet(c)',
           sync => \A c \in Conns : qconn'[q] = c =>
               /\ qpc'[q] \in {"write", "done"} => Quiet(c)'
               /\ qpc'[q] = "wait" => Exchange(q, c)'
    PROVE  SyncInv'
<1> SUFFICES ASSUME sync, NEW r \in Queries \ {q}, NEW c \in Conns, qconn[r] = c
             PROVE  /\ qpc[r] \in {"write", "done"} => Quiet(c)'
                    /\ qpc[r] = "wait" => Exchange(r, c)'
  BY DEF SyncInv
<1>1. qconn[q] # c
  BY ChannelAssumption DEF ChannelInv, Owned
<1>2. /\ Quiet(c) => Quiet(c)'
      /\ Exchange(r, c) => Exchange(r, c)'
  BY <1>1, SameConn
<1>3. QED
  BY <1>2 DEF ChannelInv, SyncInv

LEMMA DiscardSync ==
    ASSUME ChannelInv, ChannelNext, NEW q \in Queries, UNCHANGED <<sync, daemonSide>>,
           Finish(q), Discard(qconn[q]), qconn[q] \in Conns
    PROVE  SyncInv'
<1>1. /\ UNCHANGED <<inbox, hand, job, reply, pool>>
      /\ \A d \in Conns : d # qconn[q] => outbox'[d] = outbox[d]
      /\ \A r \in Queries \ {q} :
             qpc'[r] = qpc[r] /\ want'[r] = want[r] /\ qconn'[r] = qconn[r]
      /\ qpc'[q] = "idle"
  BY DEF daemonSide, Finish, Goto, Discard, ChannelInv, ChannelTypeOK, BuffersFit
<1>2. ASSUME sync, NEW c \in pool PROVE Quiet(c)'
  <2>1. c \in Conns /\ c # qconn[q] /\ Quiet(c)
    BY <1>2, ChannelAssumption DEF ChannelInv, SyncInv, Owned, ChannelTypeOK
  <2>2. QED
    BY <1>1, <2>1 DEF Quiet, Resting
<1>3. QED
  BY <1>1, <1>2, QuerySync

LEMMA GiveSync ==
    ASSUME ChannelInv, ChannelNext, NEW q \in Queries, UNCHANGED <<sync, daemonSide>>,
           NEW unread, \A d \in Conns : d # qconn[q] => unread[d] = outbox[d],
           Finish(q), Give(qconn[q], unread), qconn[q] \in Conns,
           sync => inbox[qconn[q]] = <<>> /\ unread[qconn[q]] = <<>> /\ Resting(qconn[q])
    PROVE  SyncInv'
<1>1. CASE Discard(qconn[q])
  BY <1>1, DiscardSync
<1>2. CASE ~Discard(qconn[q])
  <2>1. /\ UNCHANGED <<inbox, hand, job, reply>>
        /\ outbox' = unread /\ pool' = pool \cup {qconn[q]}
        /\ \A r \in Queries \ {q} :
               qpc'[r] = qpc[r] /\ want'[r] = want[r] /\ qconn'[r] = qconn[r]
        /\ qpc'[q] = "idle"
    BY <1>2 DEF daemonSide, Finish, Goto, Give, ChannelInv, ChannelTypeOK
  <2>2. sync => \A c \in pool' : Quiet(c)'
    BY <2>1 DEF ChannelInv, SyncInv, ChannelTypeOK, Quiet, Resting
  <2>3. QED
    BY <2>1, <2>2, QuerySync
<1>3. QED
  BY <1>1, <1>2
LEMMA SyncOfQueries ==
    ASSUME ChannelInv, ChannelNext, NEW q \in Queries, Exec(q) \/ QueryStep(q)
    PROVE  SyncInv'
<1> USE ChannelAssumption
<1>0. qpc \in [Queries -> {"idle", "get", "write", "wait", "done"}]
      /\ DOMAIN want = Queries /\ DOMAIN qconn = Queries /\ DOMAIN outbox = Conns
      /\ DOMAIN inbox = Conns
  BY DEF ChannelInv, ChannelTypeOK, BuffersFit
<1>1. CASE Exec(q)
  <2>1. sync => \A c \in pool' : Quiet(c)'
    BY <1>1 DEF Exec, daemonSide, ChannelInv, SyncInv, Quiet, Resting
  <2>2. qpc'[q] = "get" /\ UNCHANGED <<sync, inbox, outbox, hand, job, reply, qconn>>
        /\ \A r \in Queries \ {q} : qpc'[r] = qpc[r] /\ want'[r] = want[r]
    BY <1>0, <1>1 DEF Exec, daemonSide, Goto
  <2>3. QED
    BY <2>1, <2>2, QuerySync
<1>2. CASE FromPool(q)
  <2>1. PICK c \in pool : pool' = pool \ {c} /\ qconn' = [qconn EXCEPT ![q] = c]
    BY <1>2 DEF FromPool
  <2>2. /\ qpc'[q] = "write" /\ qconn'[q] = c
        /\ UNCHANGED <<sync, inbox, outbox, hand, job, reply, want>>
        /\ \A r \in Queries \ {q} : qpc'[r] = qpc[r] /\ qconn'[r] = qconn[r]
    BY <1>0, <1>2, <2>1 DEF FromPool, daemonSide, Goto
  <2>3. sync => \A d \in pool : Quiet(d)'
    BY <2>2 DEF ChannelInv, SyncInv, Quiet, Resting
  <2>4. QED
    BY <2>1, <2>2, <2>3, QuerySync
<1>3. CASE Dial(q)
  <2>1. PICK c \in Conns \ (mine \cup theirs) : qconn' = [qconn EXCEPT ![q] = c]
    BY <1>3 DEF Dial
  <2>2. /\ qpc'[q] = "write" /\ qconn'[q] = c
        /\ UNCHANGED <<sync, inbox, outbox, hand, job, reply, want, pool>>
        /\ \A r \in Queries \ {q} : qpc'[r] = qpc[r] /\ qconn'[r] = qconn[r]
    BY <1>0, <1>3, <2>1 DEF Dial, Goto
  <2>3. Quiet(c)'
    BY <2>1, <2>2 DEF ChannelInv, Shape, Quiet, Resting
  <2>4. sync => \A d \in pool' : Quiet(d)'
    BY <2>2 DEF ChannelInv, SyncInv, Quiet, Resting
  <2>5. QED
    BY <2>1, <2>2, <2>3, <2>4, QuerySync
<1>4. CASE DialFails(q)
  <2>1. sync => \A c \in pool' : Quiet(c)'
    BY <1>4 DEF DialFails, daemonSide, ChannelInv, SyncInv, Quiet, Resting
  <2>2. /\ qpc'[q] = "idle" /\ UNCHANGED <<sync, inbox, outbox, hand, job, reply>>
        /\ \A r \in Queries \ {q} :
               qpc'[r] = qpc[r] /\ want'[r] = want[r] /\ qconn'[r] = qconn[r]
    BY <1>0, <1>4 DEF DialFails, daemonSide, Finish, Goto
  <2>3. QED
    BY <2>1, <2>2, QuerySync
<1>5. CASE Write(q)
  <2>0. PICK c \in Conns : c = qconn[q]
    BY <1>5 DEF Write, ChannelInv, ChannelTypeOK, Owned
  <2>1. c \notin pool /\ (sync => Quiet(c))
    BY <1>5, <2>0 DEF Write, ChannelInv, ChannelTypeOK, Owned, SyncInv
  <2>2. /\ qconn[q] = c
        /\ qpc'[q] = IF sync THEN "wait" ELSE "done"
        /\ inbox' = [inbox EXCEPT ![c] = Append(inbox[c], want[q])]
        /\ UNCHANGED <<sync, outbox, hand, job, reply, qconn, want, pool>>
        /\ \A r \in Queries \ {q} : qpc'[r] = qpc[r]
    BY <1>0, <1>5, <2>0 DEF Write, Goto
  <2>3. \A d \in Conns : d # c => inbox'[d] = inbox[d]
    BY <1>0, <2>2
  <2>4. ASSUME sync, NEW d \in pool' PROVE Quiet(d)'
    <3>1. d \in Conns /\ d # c /\ Quiet(d)
      BY <2>1, <2>2, <2>4 DEF ChannelInv, ChannelTypeOK, SyncInv
    <3>2. QED
      BY <2>2, <2>3, <3>1 DEF Quiet, Resting
  <2>5. sync => Exchange(q, c)'
    <3>1. Append(<<>>, want[q]) = <<want[q]>>
      OBVIOUS
    <3>2. sync => inbox'[c] = <<want[q]>>
      BY <1>0, <2>1, <2>2, <3>1 DEF Quiet
    <3>3. QED
      BY <2>1, <2>2, <3>2 DEF Exchange, Quiet, Resting
  <2>6. QED
    BY <2>1, <2>2, <2>3, <2>4, <2>5, QuerySync
<1>6. CASE WriteFails(q) \/ Timeout(q) \/ ReadEOF(q)
  <2>1. /\ qconn[q] \in Conns /\ UNCHANGED <<sync, daemonSide>>
        /\ Finish(q) /\ Discard(qconn[q])
    BY <1>0, <1>6 DEF WriteFails, Timeout, ReadEOF, ChannelInv, ChannelTypeOK, Owned
  <2>2. QED
    BY <2>1, DiscardSync
<1>7. CASE ReadAck(q)
  <2>0. PICK c \in Conns : c = qconn[q]
    BY <1>7 DEF ReadAck, ChannelInv, ChannelTypeOK, Owned
  <2>1. /\ c = qconn[q] /\ c \notin pool /\ sync /\ qpc[q] = "wait" /\ outbox[c] # <<>>
        /\ UNCHANGED <<sync, daemonSide>>
    BY <1>7, <2>0 DEF ReadAck, ChannelInv, ChannelTypeOK, Owned
  <2>2. Exchange(q, c)
    BY <2>1 DEF ChannelInv, SyncInv
  <2>3. /\ inbox[c] = <<>> /\ Resting(c)
        /\ outbox[c] = <<"OK">> \/ outbox[c] = <<"ERR">>
    BY <2>1, <2>2 DEF Exchange, Quiet
  <2>4. Tail(outbox[c]) = <<>>
    <3>1. \A x : Tail(<<x>>) = <<>>
      OBVIOUS
    <3>2. QED
      BY <2>3, <3>1
  <2>5. Read(c) = [outbox EXCEPT ![c] = <<>>]
    BY <2>4 DEF Read
  <2>6. CASE Head(outbox[c]) = "OK"
    <3>1. /\ qpc'[q] = "done" /\ outbox' = [outbox EXCEPT ![c] = <<>>]
          /\ UNCHANGED <<sync, inbox, hand, job, reply, qconn, want, pool>>
          /\ \A r \in Queries \ {q} : qpc'[r] = qpc[r]
      BY <1>0, <1>7, <2>1, <2>5, <2>6 DEF ReadAck, Goto, daemonSide
    <3>2. outbox'[c] = <<>> /\ \A d \in Conns : d # c => outbox'[d] = outbox[d]
      BY <1>0, <2>1, <3>1
    <3>3. Quiet(c)'
      BY <2>3, <3>1, <3>2 DEF Quiet, Resting
    <3>4. sync => \A d \in pool' : Quiet(d)'
      BY <2>1, <3>1, <3>2 DEF ChannelInv, ChannelTypeOK, SyncInv, Quiet, Resting
    <3>5. QED
      BY <2>1, <3>1, <3>2, <3>3, <3>4, QuerySync
  <2>7. CASE Head(outbox[c]) # "OK"
    <3>1. Finish(q) /\ Give(c, Read(c))
      BY <1>7, <2>1, <2>7 DEF ReadAck
    <3>2. Read(c)[c] = <<>> /\ \A d \in Conns : d # c => Read(c)[d] = outbox[d]
      BY <1>0, <2>1, <2>5
    <3>3. QED
      BY <2>1, <2>3, <3>1, <3>2, GiveSync
  <2>8. QED
    BY <2>6, <2>7
<1>8. CASE Update(q)
  <2>1. /\ qconn[q] \in Conns /\ UNCHANGED <<sync, daemonSide>> /\ qpc[q] = "done"
        /\ Finish(q) /\ Give(qconn[q], outbox)
    BY <1>8 DEF Update, ChannelInv, ChannelTypeOK, Owned
  <2>2. sync => Quiet(qconn[q])
    BY <2>1 DEF ChannelInv, SyncInv
  <2>3. QED
    BY <2>1, <2>2, GiveSync DEF Quiet
<1>9. QED
  BY <1>1, <1>2, <1>3, <1>4, <1>5, <1>6, <1>7, <1>8 DEF QueryStep

\* A step of the daemon on one connection.
LEMMA ConnSync ==
    ASSUME ChannelInv, ChannelNext, UNCHANGED <<sync, pluginSide>>, NEW c \in Conns,
           \A d \in Conns \ {c} : /\ inbox'[d] = inbox[d] /\ outbox'[d] = outbox[d]
                                 /\ hand'[d] = hand[d] /\ job'[d] = job[d]
                                 /\ reply'[d] = reply[d],
           sync => /\ Quiet(c) => Quiet(c)'
                   /\ \A q \in Queries : qconn[q] = c /\ Exchange(q, c) => Exchange(q, c)'
    PROVE  SyncInv'
<1>1. \A q \in Queries, d \in Conns : sync =>
          /\ Quiet(d) => Quiet(d)'
          /\ qconn[q] = d /\ Exchange(q, d) => Exchange(q, d)'
  BY SameConn DEF pluginSide
<1>2. \A d \in Conns \ {c} : Quiet(d) => Quiet(d)'
  BY DEF Quiet, Resting
<1>3. pool \subseteq Conns
  BY DEF ChannelInv, ChannelTypeOK
<1>4. QED
  BY <1>1, <1>2, <1>3, DaemonSync

LEMMA SyncOfHandlers ==
    ASSUME ChannelInv, ChannelNext, NEW c \in Conns, HandlerStep(c)
    PROVE  SyncInv'
<1>0. /\ DOMAIN inbox = Conns /\ DOMAIN outbox = Conns /\ DOMAIN hand = Conns
      /\ DOMAIN job = Conns /\ DOMAIN reply = Conns /\ reply[c] \in {"OK", "ERR"}
      /\ pf \cup lost \subseteq pf' \cup lost'
  BY ServedGrows DEF ChannelInv, ChannelTypeOK, BuffersFit, Status
<1>1. CASE Accept(c) \/ ReadEnd(c)
  <2>1. /\ UNCHANGED <<sync, pluginSide, inbox, outbox, job, reply, want>>
        /\ Resting(c) /\ hand'[c] \in {"none", "read"}
        /\ \A d \in Conns \ {c} : hand'[d] = hand[d]
    BY <1>0, <1>1 DEF Accept, ReadEnd, At, Turn, Resting, pluginSide
  <2>2. /\ Quiet(c) => Quiet(c)'
        /\ \A q \in Queries : Exchange(q, c) => Exchange(q, c)'
    BY <1>0, <2>1 DEF Quiet, Exchange, Resting, Served
  <2>3. QED
    BY <2>1, <2>2, ConnSync
<1>2. CASE ReadPacket(c)
  <2>1. /\ UNCHANGED <<sync, pluginSide, outbox, reply, want>>
        /\ hand[c] = "read" /\ inbox[c] # <<>> /\ inbox' = [inbox EXCEPT ![c] = Tail(@)]
        /\ \A d \in Conns \ {c} : /\ inbox'[d] = inbox[d] /\ hand'[d] = hand[d]
                                 /\ job'[d] = job[d]
        /\ \/ hand'[c] = "read"
           \/ hand'[c] = "add" /\ job'[c] = Head(inbox[c])
    BY <1>0, <1>2 DEF ReadPacket, At, Turn, pluginSide
  <2>2. ASSUME NEW q \in Queries, Exchange(q, c) PROVE Exchange(q, c)'
    <3>1. inbox[c] = <<want[q]>> /\ outbox[c] = <<>>
      BY <2>1, <2>2 DEF Exchange, Quiet
    <3>2. Head(<<want[q]>>) = want[q] /\ Tail(<<want[q]>>) = <<>>
      OBVIOUS
    <3>3. inbox'[c] = <<>> /\ Head(inbox[c]) = want[q] /\ outbox'[c] = <<>>
      BY <1>0, <2>1, <3>1, <3>2
    <3>4. QED
      BY <2>1, <3>3 DEF Exchange, Quiet, Resting
  <2>3. ~Quiet(c)
    BY <2>1 DEF Quiet
  <2>4. QED
    BY <2>1, <2>2, <2>3, ConnSync
<1>3. CASE Register(c)
  <2>1. /\ UNCHANGED <<sync, pluginSide, inbox, outbox, reply, want, pf>>
        /\ hand[c] = "add" /\ hand'[c] = "install"
        /\ job'[c] = job[c] \ told /\ lost' = lost \cup ((job[c] \cap told) \ pf)
        /\ \A d \in Conns \ {c} : hand'[d] = hand[d] /\ job'[d] = job[d]
    BY <1>0, <1>3 DEF Register, At, Turn, pluginSide
  <2>2. ASSUME NEW q \in Queries, Exchange(q, c) PROVE Exchange(q, c)'
    <3>1. /\ inbox[c] = <<>> /\ outbox[c] = <<>>
          /\ want[q] \subseteq pf \cup lost \cup job[c]
      BY <2>1, <2>2 DEF Exchange, Quiet, Resting
    <3>2. want[q] \subseteq pf \cup lost' \cup job'[c]
      BY <2>1, <3>1
    <3>3. QED
      BY <2>1, <3>1, <3>2 DEF Exchange, Resting
  <2>3. ~Quiet(c)
    BY <2>1 DEF Quiet, Resting
  <2>4. QED
    BY <2>1, <2>2, <2>3, ConnSync
<1>4. CASE Install(c)
  <2>1. /\ UNCHANGED <<sync, pluginSide, inbox, outbox, want>>
        /\ hand[c] = "install" /\ hand'[c] = "ack"
        /\ \/ pf' = pf \cup job[c] /\ lost' = lost \ job[c]
           \/ reply'[c] = "ERR"
        /\ \A d \in Conns \ {c} : /\ hand'[d] = hand[d] /\ job'[d] = job[d]
                                 /\ reply'[d] = reply[d]
    BY <1>0, <1>4 DEF Install, At, Turn, Answer, pluginSide
  <2>2. ASSUME NEW q \in Queries, Exchange(q, c) PROVE Exchange(q, c)'
    <3>1. /\ inbox[c] = <<>> /\ outbox[c] = <<>>
          /\ want[q] \subseteq pf \cup lost \cup job[c]
      BY <2>1, <2>2 DEF Exchange, Quiet, Resting
    <3>2. reply'[c] = "OK" => want[q] \subseteq pf' \cup lost'
      BY <2>1, <3>1
    <3>3. QED
      BY <2>1, <3>1, <3>2 DEF Exchange, Resting, Served
  <2>3. ~Quiet(c)
    BY <2>1 DEF Quiet, Resting
  <2>4. QED
    BY <2>1, <2>2, <2>3, ConnSync
<1>5. CASE SendAck(c)
  <2>1. /\ UNCHANGED <<sync, pluginSide, inbox, want, pf, lost, job>>
        /\ hand[c] = "ack" /\ hand'[c] = "read"
        /\ c \in mine => outbox' = [outbox EXCEPT ![c] = Append(@, reply[c])]
        /\ \A d \in Conns \ {c} : /\ hand'[d] = hand[d] /\ outbox'[d] = outbox[d]
                                 /\ reply'[d] = reply[d]
    BY <1>0, <1>5 DEF SendAck, At, Turn, Answer, pluginSide
  <2>2. ASSUME NEW q \in Queries, qconn[q] = c, Exchange(q, c) PROVE Exchange(q, c)'
    <3>1. /\ inbox[c] = <<>> /\ outbox[c] = <<>>
          /\ reply[c] = "OK" => Served(want[q])
      BY <2>1, <2>2 DEF Exchange, Quiet, Resting
    <3>2. c \in mine
      BY <2>2, ChannelAssumption DEF ChannelInv, Owned
    <3>3. Append(<<>>, reply[c]) = <<reply[c]>>
      OBVIOUS
    <3>4. outbox'[c] = <<reply[c]>>
      BY <1>0, <2>1, <3>1, <3>2, <3>3
    <3>5. QED
      BY <1>0, <2>1, <3>1, <3>4 DEF Exchange, Resting, Served
  <2>3. ~Quiet(c)
    BY <2>1 DEF Quiet, Resting
  <2>4. QED
    BY <2>1, <2>2, <2>3, ConnSync
<1>6. QED
  BY <1>1, <1>2, <1>3, <1>4, <1>5 DEF HandlerStep

LEMMA SyncOfC ==
    ASSUME ChannelInv, ChannelNext, NEW c \in Conns, CStep(c), c \in mine \/ ~CAck(c)
    PROVE  SyncInv'
<1>0. /\ DOMAIN inbox = Conns /\ DOMAIN outbox = Conns /\ DOMAIN hand = Conns
      /\ DOMAIN job = Conns /\ DOMAIN reply = Conns
      /\ pf \cup lost \subseteq pf' \cup lost'
  BY ServedGrows DEF ChannelInv, ChannelTypeOK, BuffersFit
<1>1. CASE CAccept(c)
  <2>1. PICK T \in Whole(Head(inbox[c])) :
             /\ job' = [job EXCEPT ![c] = T]
             /\ lost' = lost \cup (Head(inbox[c]) \ (T \cup pf))
    BY <1>1 DEF CAccept
  <2>2. /\ UNCHANGED <<sync, pluginSide, outbox, reply, want, pf>>
        /\ hand[c] = "none" /\ hand'[c] = "add" /\ job'[c] = T
        /\ inbox[c] # <<>> /\ inbox' = [inbox EXCEPT ![c] = Tail(@)]
        /\ \A d \in Conns \ {c} : /\ inbox'[d] = inbox[d] /\ hand'[d] = hand[d]
                                 /\ job'[d] = job[d]
    BY <1>0, <1>1, <2>1 DEF CAccept, CIdle, Turn, pluginSide
  <2>3. ASSUME NEW q \in Queries, Exchange(q, c) PROVE Exchange(q, c)'
    <3>1. inbox[c] = <<want[q]>> /\ outbox[c] = <<>>
      BY <2>2, <2>3 DEF Exchange, Quiet
    <3>2. Head(<<want[q]>>) = want[q] /\ Tail(<<want[q]>>) = <<>>
      OBVIOUS
    <3>3. inbox'[c] = <<>> /\ Head(inbox[c]) = want[q] /\ outbox'[c] = <<>>
      BY <1>0, <2>2, <3>1, <3>2
    <3>4. want[q] \subseteq pf' \cup lost' \cup job'[c]
      BY <2>1, <2>2, <3>3
    <3>5. QED
      BY <2>2, <3>3, <3>4 DEF Exchange, Resting
  <2>4. ~Quiet(c)
    BY <2>2 DEF Quiet
  <2>5. QED
    BY <2>2, <2>3, <2>4, ConnSync
<1>2. CASE CTooEarly(c)
  <2>1. /\ UNCHANGED <<sync, pluginSide, outbox, job, reply, want>>
        /\ inbox[c] = <<>> /\ inbox' = [inbox EXCEPT ![c] = <<>>]
        /\ hand[c] = "none" /\ hand' = [hand EXCEPT ![c] = "none"]
    BY <1>2 DEF CTooEarly, Close, CIdle, Turn, pluginSide
  <2>2. \A d \in Conns : hand'[d] = hand[d] /\ inbox'[d] = inbox[d]
    BY <1>0, <2>1
  <2>3. Quiet(c) => Quiet(c)'
    BY <2>1, <2>2 DEF Quiet, Resting
  <2>4. \A q \in Queries : Exchange(q, c) => Exchange(q, c)'
    BY <2>1, <2>2, SameConn
  <2>5. QED
    BY <2>1, <2>2, <2>3, <2>4, ConnSync
<1>3. CASE CAdd(c)
  <2>1. /\ UNCHANGED <<sync, pluginSide, inbox, outbox, reply, want>>
        /\ hand[c] = "add" /\ hand'[c] = "ack"
        /\ \/ pf' = pf \cup job[c] /\ lost' = lost \ job[c]
           \/ pf' = pf /\ lost' = lost \cup (job[c] \ pf)
        /\ \A d \in Conns \ {c} : hand'[d] = hand[d] /\ job'[d] = job[d]
    BY <1>0, <1>3 DEF CAdd, Turn, pluginSide
  <2>2. ASSUME NEW q \in Queries, Exchange(q, c) PROVE Exchange(q, c)'
    <3>1. /\ inbox[c] = <<>> /\ outbox[c] = <<>>
          /\ want[q] \subseteq pf \cup lost \cup job[c]
      BY <2>1, <2>2 DEF Exchange, Quiet, Resting
    <3>2. want[q] \subseteq pf' \cup lost'
      BY <2>1, <3>1
    <3>3. QED
      BY <2>1, <3>1, <3>2 DEF Exchange, Resting, Served
  <2>3. ~Quiet(c)
    BY <2>1 DEF Quiet, Resting
  <2>4. QED
    BY <2>1, <2>2, <2>3, ConnSync
<1>4. CASE CAck(c)
  <2>1. /\ UNCHANGED <<sync, pluginSide, job, reply, want>>
        /\ hand[c] = "ack" /\ hand'[c] = "none" /\ reply[c] = "OK"
        /\ inbox' = [inbox EXCEPT ![c] = <<>>]
        /\ outbox' = [outbox EXCEPT ![c] = Append(@, "OK")]
        /\ \A d \in Conns \ {c} : /\ hand'[d] = hand[d] /\ inbox'[d] = inbox[d]
                                 /\ outbox'[d] = outbox[d]
    <3>1. reply[c] = "OK"
      BY <1>4 DEF CAck, ChannelInv, Shape
    <3>2. c \in mine
      BY <1>4
    <3>3. QED
      BY <1>0, <1>4, <3>1, <3>2 DEF CAck, Close, Turn, pluginSide
  <2>2. ASSUME NEW q \in Queries, Exchange(q, c) PROVE Exchange(q, c)'
    <3>1. inbox[c] = <<>> /\ outbox[c] = <<>> /\ Served(want[q])
      BY <2>1, <2>2 DEF Exchange, Quiet, Resting
    <3>2. Append(<<>>, "OK") = <<"OK">>
      OBVIOUS
    <3>3. outbox'[c] = <<"OK">> /\ inbox'[c] = <<>>
      BY <1>0, <2>1, <3>1, <3>2
    <3>4. QED
      BY <1>0, <2>1, <3>1, <3>3 DEF Exchange, Resting, Served
  <2>3. ~Quiet(c)
    BY <2>1 DEF Quiet, Resting
  <2>4. QED
    BY <2>1, <2>2, <2>3, ConnSync
<1>5. QED
  BY <1>1, <1>2, <1>3, <1>4 DEF CStep

\* The daemon stops: what it has not answered is dropped.
LEMMA SyncOfDie ==
    ASSUME ChannelInv, ChannelNext, UNCHANGED <<sync, pluginSide, outbox>>, Die
    PROVE  SyncInv'
<1>1. \A d \in Conns : inbox'[d] = <<>> /\ hand'[d] = "none" /\ outbox'[d] = outbox[d]
  BY DEF Die
<1>2. pf \cup lost \subseteq pf' \cup lost' /\ UNCHANGED want
  BY ServedGrows DEF pluginSide
<1>3. \A d \in Conns : Quiet(d) => Quiet(d)'
  BY <1>1 DEF Quiet, Resting
<1>4. \A q \in Queries, d \in Conns : Exchange(q, d) => Exchange(q, d)'
  BY <1>1, <1>2 DEF Exchange, Quiet, Resting, Served
<1>5. pool \subseteq Conns
  BY DEF ChannelInv, ChannelTypeOK
<1>6. QED
  BY <1>3, <1>4, <1>5, DaemonSync

LEMMA SyncOfShutdown ==
    ASSUME ChannelInv, ChannelNext, Shutdown
    PROVE  SyncInv'
<1>1. /\ UNCHANGED <<sync, pluginSide, outbox, hand, job, reply, want>>
      /\ \A d \in Conns : \/ inbox'[d] = inbox[d]
                          \/ inbox'[d] = <<>> /\ hand[d] = "none"
  BY DEF Shutdown, pluginSide
<1>2. pf \cup lost \subseteq pf' \cup lost'
  BY ServedGrows
<1>3. \A d \in Conns : Quiet(d) => Quiet(d)'
  BY <1>1 DEF Quiet, Resting
<1>4. ASSUME NEW q \in Queries, NEW d \in Conns, Exchange(q, d) PROVE Exchange(q, d)'
  <2>1. CASE inbox'[d] = inbox[d]
    BY <1>1, <1>4, <2>1, SameConn
  <2>2. CASE inbox'[d] = <<>> /\ hand[d] = "none"
    BY <1>1, <1>2, <1>4, <2>2 DEF Exchange, Quiet, Resting, Served
  <2>3. QED
    BY <1>1, <2>1, <2>2
<1>5. pool \subseteq Conns
  BY DEF ChannelInv, ChannelTypeOK
<1>6. QED
  BY <1>1, <1>3, <1>4, <1>5, DaemonSync

LEMMA StepSync ==
    ASSUME ChannelInv, ChannelNext
    PROVE  SyncInv'
<1>1. CASE \E q \in Queries : Exec(q) \/ QueryStep(q)
  BY <1>1, SyncOfQueries
<1>2. CASE \E c \in Conns : HandlerStep(c)
  BY <1>2, SyncOfHandlers
<1>3. ASSUME NEW c \in Conns, CStep(c) PROVE SyncInv'
  <2>1. CASE c \in mine \/ ~CAck(c)
    BY <1>3, <2>1, SyncOfC
  <2>2. CASE c \notin mine /\ CAck(c)
    BY <2>2, SyncOfDie DEF CAck
  <2>3. QED
    BY <2>1, <2>2
<1>4. CASE Shutdown
  BY <1>4, SyncOfShutdown
<1>5. CASE CloseDevice \/ Launch
  <2>1. UNCHANGED <<sync, pluginSide, inbox, outbox, hand, job, reply, want>>
    BY <1>5 DEF CloseDevice, Launch, pluginSide
  <2>2. \A q \in Queries, d \in Conns : /\ Quiet(d) => Quiet(d)'
                                       /\ Exchange(q, d) => Exchange(q, d)'
    BY <2>1, SameConn
  <2>3. \A d \in Conns : Quiet(d) => Quiet(d)'
    BY <2>1 DEF Quiet, Resting
  <2>4. pool \subseteq Conns
    BY DEF ChannelInv, ChannelTypeOK
  <2>5. QED
    BY <2>1, <2>2, <2>3, <2>4, DaemonSync
<1>6. CASE Exit
  BY <1>6, SyncOfDie DEF Exit
<1>7. QED
  BY <1>1, <1>2, <1>3, <1>4, <1>5, <1>6 DEF ChannelNext

-----------------------------------------------------------------------------
(***************************************************************************)
(* Claims: in async mode what is under way is not forgotten.               *)
(***************************************************************************)
LEMMA Unions ==
    ASSUME NEW s \in Seq(Requests)
    PROVE  /\ \A x \in Requests : UnionOf(s) \cup x \subseteq UnionOf(Append(s, x))
           /\ s # <<>> => UnionOf(s) \subseteq Head(s) \cup UnionOf(Tail(s))
<1>1. ASSUME NEW x \in Requests
      PROVE  UnionOf(s) \cup x \subseteq UnionOf(Append(s, x))
  <2>1. /\ Append(s, x)[Len(s) + 1] = x /\ Len(Append(s, x)) = Len(s) + 1
        /\ \A i \in 1 .. Len(s) : Append(s, x)[i] = s[i]
    OBVIOUS
  <2>2. \A i \in 1 .. Len(s) : i \in 1 .. Len(s) + 1
    OBVIOUS
  <2>3. Len(s) + 1 \in 1 .. Len(s) + 1
    OBVIOUS
  <2>4. QED
    BY <2>1, <2>2, <2>3 DEF UnionOf
<1>2. ASSUME s # <<>>
      PROVE  UnionOf(s) \subseteq Head(s) \cup UnionOf(Tail(s))
  <2>1. ASSUME NEW i \in 1 .. Len(s) PROVE s[i] \subseteq Head(s) \cup UnionOf(Tail(s))
    <3>1. CASE i = 1
      BY <1>2, <3>1
    <3>2. CASE i # 1
      <4>1. i - 1 \in 1 .. Len(Tail(s)) /\ Tail(s)[i - 1] = s[i]
        BY <1>2, <3>2
      <4>2. QED
        BY <4>1 DEF UnionOf
    <3>3. QED
      BY <3>1, <3>2
  <2>2. QED
    BY <2>1 DEF UnionOf
<1>3. QED
  BY <1>1, <1>2

LEMMA NoUnion == UnionOf(<<>>) = {}
BY DEF UnionOf

\* What is under way on a connection is still under way, in the table or lost.
Kept(c) ==
    UnionOf(inbox[c]) \cup job[c] \subseteq pf' \cup lost' \cup UnionOf(inbox'[c]) \cup job'[c]

LEMMA SameKept ==
    ASSUME NEW c \in Conns, inbox'[c] = inbox[c], job'[c] = job[c]
    PROVE  Kept(c)
BY DEF Kept

LEMMA KeptByHandlers ==
    ASSUME ChannelInv, ~sync, NEW c \in Conns, HandlerStep(c), NEW d \in Conns
    PROVE  Kept(d)
<1>0. /\ DOMAIN inbox = Conns /\ DOMAIN job = Conns /\ inbox \in [Conns -> Seq(Requests)]
  BY DEF ChannelInv, ChannelTypeOK, BuffersFit
<1>1. CASE Accept(c) \/ ReadEnd(c) \/ SendAck(c)
  BY <1>1, SameKept DEF Accept, ReadEnd, SendAck
<1>2. CASE ReadPacket(c)
  <2>1. /\ inbox[c] # <<>> /\ job[c] = {}
        /\ inbox' = [inbox EXCEPT ![c] = Tail(@)]
        /\ \/ job' = job /\ lost' = lost \cup (Head(inbox[c]) \ pf) /\ pf' = pf
           \/ job' = [job EXCEPT ![c] = Head(inbox[c])]
    BY <1>2, <1>0 DEF ReadPacket, Lose, At, ChannelInv, Shape
  <2>2. UnionOf(inbox[c]) \subseteq Head(inbox[c]) \cup UnionOf(Tail(inbox[c]))
    BY <1>0, <2>1, Unions
  <2>3. CASE d = c
    BY <1>0, <2>1, <2>2, <2>3 DEF Kept
  <2>4. CASE d # c
    BY <1>0, <2>1, <2>4, SameKept
  <2>5. QED
    BY <2>3, <2>4
<1>3. CASE Register(c)
  BY <1>0, <1>3 DEF Register, Kept
<1>4. CASE Install(c)
  BY <1>0, <1>4 DEF Install, Lose, Kept
<1>5. QED
  BY <1>1, <1>2, <1>3, <1>4 DEF HandlerStep
LEMMA KeptByDie ==
    ASSUME ~sync, Die, NEW d \in Conns, pf' = pf
    PROVE  Kept(d)
<1>1. UnionOf(inbox[d]) \cup job[d] \subseteq InFlight
  BY Flights
<1>2. InFlight \subseteq pf \cup lost'
  BY DEF Die, Lose
<1>3. QED
  BY <1>1, <1>2 DEF Kept

LEMMA KeptByC ==
    ASSUME ChannelInv, ~sync, NEW c \in Conns, CStep(c), NEW d \in Conns
    PROVE  Kept(d)
<1>0. /\ DOMAIN inbox = Conns /\ DOMAIN job = Conns /\ inbox \in [Conns -> Seq(Requests)]
  BY DEF ChannelInv, ChannelTypeOK, BuffersFit
<1>1. CASE CAccept(c)
  <2>1. PICK T \in Whole(Head(inbox[c])) :
             /\ job' = [job EXCEPT ![c] = T]
             /\ lost' = lost \cup (Head(inbox[c]) \ (T \cup pf))
    BY <1>1 DEF CAccept
  <2>2. /\ inbox[c] # <<>> /\ job[c] = {} /\ pf' = pf
        /\ inbox' = [inbox EXCEPT ![c] = Tail(@)]
    BY <1>1 DEF CAccept, CIdle, ChannelInv, Shape
  <2>3. UnionOf(inbox[c]) \subseteq Head(inbox[c]) \cup UnionOf(Tail(inbox[c]))
    BY <1>0, <2>2, Unions
  <2>4. CASE d = c
    BY <1>0, <2>1, <2>2, <2>3, <2>4 DEF Kept
  <2>5. CASE d # c
    BY <1>0, <2>1, <2>2, <2>5, SameKept
  <2>6. QED
    BY <2>4, <2>5
<1>2. CASE CTooEarly(c)
  BY <1>0, <1>2, SameKept DEF CTooEarly, Close
<1>3. CASE CAdd(c)
  BY <1>0, <1>3 DEF CAdd, Kept
<1>4. CASE CAck(c)
  <2>1. CASE c \in mine
    BY <1>0, <1>4, <2>1 DEF CAck, Close, Lose, Kept
  <2>2. CASE c \notin mine
    BY <1>4, <2>2, KeptByDie DEF CAck
  <2>3. QED
    BY <2>1, <2>2
<1>5. QED
  BY <1>1, <1>2, <1>3, <1>4 DEF CStep

LEMMA KeptByShutdown ==
    ASSUME ChannelInv, ~sync, Shutdown, NEW d \in Conns
    PROVE  Kept(d)
<1>1. PICK backlog \in SUBSET theirs :
           /\ inbox' = [c \in Conns |-> IF c \in backlog THEN <<>> ELSE inbox[c]]
           /\ Lose(UNION {UnionOf(inbox[c]) : c \in backlog})
  BY DEF Shutdown
<1>2. CASE d \in backlog
  BY <1>1, <1>2 DEF Shutdown, Lose, Kept
<1>3. CASE d \notin backlog
  BY <1>1, <1>3, SameKept DEF Shutdown
<1>4. QED
  BY <1>2, <1>3

LEMMA KeptByQueries ==
    ASSUME ChannelInv, NEW q \in Queries, Exec(q) \/ QueryStep(q), NEW d \in Conns
    PROVE  Kept(d)
<1>1. CASE Write(q)
  <2>1. /\ qconn[q] \in Conns /\ want[q] \in Requests /\ inbox \in [Conns -> Seq(Requests)]
        /\ inbox' = [inbox EXCEPT ![qconn[q]] = Append(@, want[q])] /\ UNCHANGED job
    BY <1>1 DEF Write, ChannelInv, ChannelTypeOK, Owned, BuffersFit
  <2>2. UnionOf(inbox[qconn[q]]) \subseteq UnionOf(Append(inbox[qconn[q]], want[q]))
    BY <2>1, Unions
  <2>3. CASE d = qconn[q]
    BY <2>1, <2>2, <2>3 DEF Kept
  <2>4. CASE d # qconn[q]
    BY <2>1, <2>4, SameKept
  <2>5. QED
    BY <2>3, <2>4
<1>2. CASE ~Write(q)
  <2>1. UNCHANGED <<inbox, job>>
    BY <1>2 DEF Exec, QueryStep, FromPool, Dial, DialFails, WriteFails, Timeout, ReadAck,
       ReadEOF, Update, daemonSide
  <2>2. QED
    BY <2>1, SameKept
<1>3. QED
  BY <1>1, <1>2

LEMMA CoverGrows ==
    ASSUME ChannelInv, ChannelNext
    PROVE  sync' = sync /\ Covered \subseteq Covered'
<1>1. sync' = sync
  BY DEF ChannelNext, Exec, QueryStep, FromPool, Dial, DialFails, Write, WriteFails, Timeout,
     ReadAck, ReadEOF, Update, HandlerStep, Accept, ReadPacket, ReadEnd, Register, Install,
     SendAck, CStep, CAccept, CTooEarly, CAdd, CAck, Shutdown, CloseDevice, Exit, Launch
<1>2. pf \cup lost \subseteq pf' \cup lost'
  BY ServedGrows
<1>3. ASSUME ~sync PROVE \A d \in Conns : Kept(d)
  <2>1. CASE CloseDevice \/ Launch
    BY <2>1, SameKept DEF CloseDevice, Launch
  <2>2. CASE Exit
    BY <1>3, <2>2, KeptByDie DEF Exit
  <2>3. QED
    BY <1>3, <2>1, <2>2, KeptByQueries, KeptByHandlers, KeptByC, KeptByShutdown DEF ChannelNext
<1>4. ASSUME ~sync PROVE InFlight \subseteq pf' \cup lost' \cup InFlight'
  BY <1>3, <1>4, Flights DEF Kept
<1>5. QED
  BY <1>1, <1>2, <1>4 DEF Covered

LEMMA StepClaims ==
    ASSUME ChannelInv, ChannelNext
    PROVE  Claims'
<1>0. sync' = sync /\ Covered \subseteq Covered'
  BY CoverGrows
<1>1. ASSUME UNCHANGED <<cache, qpc, want>> PROVE Claims'
  BY <1>0, <1>1 DEF ChannelInv, Claims
<1>2. ASSUME NEW q \in Queries, Exec(q) \/ QueryStep(q)
      PROVE  /\ cache' = cache \/ (qpc[q] = "done" /\ cache' = cache \cup want[q])
             /\ \A r \in Queries \ {q} : qpc'[r] = qpc[r] /\ want'[r] = want[r]
             /\ qpc'[q] = "done" => want'[q] \subseteq Covered'
  <2>0. /\ DOMAIN qpc = Queries /\ DOMAIN want = Queries
        /\ inbox \in [Conns -> Seq(Requests)]
    BY DEF ChannelInv, ChannelTypeOK, BuffersFit
  <2>1. CASE Write(q)
    <3>1. PICK c \in Conns : c = qconn[q]
      BY <2>1 DEF Write, ChannelInv, ChannelTypeOK, Owned
    <3>2. /\ inbox' = [inbox EXCEPT ![c] = Append(@, want[q])] /\ UNCHANGED <<cache, want>>
          /\ qpc' = [qpc EXCEPT ![q] = IF sync THEN "wait" ELSE "done"]
          /\ want[q] \in Requests
      BY <2>1, <3>1 DEF Write, Goto, ChannelInv, Owned
    <3>3. want[q] \subseteq UnionOf(inbox'[c])
      BY <2>0, <3>2, Unions
    <3>4. want[q] \subseteq InFlight'
      BY <3>3, Flights
    <3>5. QED
      BY <1>0, <2>0, <3>2, <3>4 DEF Covered
  <2>2. CASE ReadAck(q)
    <3>1. PICK c \in Conns : c = qconn[q]
      BY <2>2 DEF ReadAck, ChannelInv, ChannelTypeOK, Owned
    <3>2. sync /\ Exchange(q, c) /\ outbox[c] # <<>>
      BY <2>2, <3>1 DEF ReadAck, ChannelInv, Owned, SyncInv
    <3>3. Head(outbox[c]) = "OK" => Served(want[q])
      BY <3>2 DEF Exchange, Quiet
    <3>4. CASE Head(outbox[c]) = "OK"
      <4>1. want[q] \subseteq Covered /\ UNCHANGED <<cache, want>>
            /\ qpc' = [qpc EXCEPT ![q] = "done"]
        BY <2>2, <3>1, <3>3, <3>4 DEF ReadAck, Served, Covered, Goto
      <4>2. QED
        BY <1>0, <2>0, <4>1
    <3>5. CASE Head(outbox[c]) # "OK"
      BY <2>0, <2>2, <3>1, <3>5 DEF ReadAck, Finish, Goto
    <3>6. QED
      BY <3>4, <3>5
  <2>3. CASE Exec(q) \/ FromPool(q) \/ Dial(q)
    BY <2>0, <2>3 DEF Exec, FromPool, Dial, Goto
  <2>4. CASE DialFails(q) \/ WriteFails(q) \/ Timeout(q) \/ ReadEOF(q) \/ Update(q)
    BY <2>0, <2>4 DEF DialFails, WriteFails, Timeout, ReadEOF, Update, Finish, Goto
  <2>5. QED
    BY <1>2, <2>1, <2>2, <2>3, <2>4 DEF QueryStep
<1>3. ASSUME NEW c \in Conns, HandlerStep(c) \/ CStep(c) PROVE UNCHANGED <<cache, qpc, want>>
  BY <1>3 DEF HandlerStep, Accept, ReadPacket, ReadEnd, Register, Install, SendAck, CStep,
     CAccept, CTooEarly, CAdd, CAck, pluginSide
<1>4. ASSUME Shutdown \/ CloseDevice \/ Exit \/ Launch PROVE UNCHANGED <<cache, qpc, want>>
  BY <1>4 DEF Shutdown, CloseDevice, Exit, Launch, pluginSide
<1>5. ASSUME NEW q \in Queries, Exec(q) \/ QueryStep(q) PROVE Claims'
  <2>1. cache \subseteq Covered' /\ \A r \in Queries : qpc[r] = "done" => want[r] \subseteq Covered'
    BY <1>0 DEF ChannelInv, Claims
  <2>2. QED
    BY <1>2, <1>5, <2>1 DEF Claims
<1>6. QED
  BY <1>1, <1>3, <1>4, <1>5 DEF ChannelNext

-----------------------------------------------------------------------------
(***************************************************************************)
(* The theorems.                                                           *)
(***************************************************************************)
LEMMA ChannelAlways == ChannelSpec => []ChannelInv
<1>1. ChannelInit => ChannelInv
  BY ChannelInitInv
<1>2. ChannelInv /\ [ChannelNext]_channelVars => ChannelInv'
  <2>1. ASSUME ChannelInv, ChannelNext PROVE ChannelInv'
    BY <2>1, StepType, StepOwned, StepShape, StepSync, StepClaims DEF ChannelInv
  <2>2. ASSUME ChannelInv, UNCHANGED channelVars PROVE ChannelInv'
    <3>1. UNCHANGED <<sync, engine, phase, told, pf, theirs, inbox, hand, job, reply, lost,
                      mine, qpc, want, qconn, pool, cache, outbox>>
      BY <2>2 DEF channelVars, daemonSide, pluginSide
    <3>2. (ChannelTypeOK /\ Owned /\ Shape)'
      BY <2>2, <3>1 DEF ChannelInv, ChannelTypeOK, BuffersFit, Owned, Shape
    <3>3. \A d \in Conns : Quiet(d)' = Quiet(d)
      BY <3>1 DEF Quiet, Resting
    <3>4. \A q \in Queries, d \in Conns : Exchange(q, d) => Exchange(q, d)'
      BY <3>1 DEF Exchange, Quiet, Resting, Served
    <3>5. SyncInv'
      BY <2>2, <3>1, <3>2, <3>3, <3>4 DEF ChannelInv, ChannelTypeOK, SyncInv
    <3>6. Covered' = Covered
      BY <3>1 DEF Covered, InFlight
    <3>7. QED
      BY <2>2, <3>1, <3>2, <3>5, <3>6 DEF ChannelInv, Claims
  <2>3. QED
    BY <2>1, <2>2
<1>3. QED
  BY <1>1, <1>2, PTL DEF ChannelSpec

\* Every variable keeps its type and no socket buffer ever holds more than it can.
THEOREM ChannelTypeCorrect == ChannelSpec => []ChannelTypeOK
<1>1. ChannelInv => ChannelTypeOK
  BY DEF ChannelInv
<1>2. QED
  BY <1>1, ChannelAlways, PTL

\* Whatever the plugin's cache counts on is in the table, under way in async mode, or
\* among the requests known to have come to nothing.
THEOREM ClaimsAlwaysAccounted == ChannelSpec => []ClaimsAccounted
<1>1. ChannelInv => ClaimsAccounted
  BY DEF ChannelInv, Claims, Covered, ClaimsAccounted
<1>2. QED
  BY <1>1, ChannelAlways, PTL

\* In sync mode a query finds nothing under way on the connection it is about to use,
\* so the next ACK on it is the query's own.
THEOREM NoAckStrays == ChannelSpec => []NoStrayAck
<1>1. ASSUME ChannelInv, sync, NEW q \in Queries, qpc[q] = "write"
      PROVE  Quiet(qconn[q])
  BY <1>1 DEF ChannelInv, ChannelTypeOK, Owned, SyncInv
<1>2. ChannelInv => NoStrayAck
  BY <1>1 DEF NoStrayAck, Quiet, Resting
<1>3. QED
  BY <1>2, ChannelAlways, PTL

LEMMA Families ==
    ASSUME NEW S \in SUBSET Addrs
    PROVE  /\ Cardinality(S) \in Nat /\ Cardinality(S \ V6) \in Nat
           /\ Cardinality(S \cap V6) \in Nat
           /\ Cardinality(S) = Cardinality(S \ V6) + Cardinality(S \cap V6)
<1>1. IsFiniteSet(S)
  BY ChannelAssumption, FS_Subset
<1>2. IsFiniteSet(S \ V6) /\ IsFiniteSet(S \cap V6)
  BY <1>1, FS_Subset
<1>3. /\ Cardinality(S) \in Nat /\ Cardinality(S \ V6) \in Nat
      /\ Cardinality(S \cap V6) \in Nat
  BY <1>1, <1>2, FS_CardinalityType
<1>4. Cardinality((S \ V6) \cup (S \cap V6))
          = Cardinality(S \ V6) + Cardinality(S \cap V6) - Cardinality((S \ V6) \cap (S \cap V6))
  BY <1>2, FS_Union
<1>5. (S \ V6) \cup (S \cap V6) = S /\ (S \ V6) \cap (S \cap V6) = {}
  OBVIOUS
<1>6. Cardinality({}) = 0
  BY FS_EmptySet
<1>7. Cardinality(S) = Cardinality(S \ V6) + Cardinality(S \cap V6) - Cardinality({})
  BY Zenon, <1>4, <1>5
<1>8. QED
  BY <1>3, <1>6, <1>7

\* No request of at most 238 addresses is cut by the Go daemon's 4096 bytes, and none of
\* at most 117 by the C daemon's 2048, whatever the families and the table's name; the
\* encoder accepts 256.
THEOREM SmallRequestsWhole ==
    ASSUME GoBuffer = 4096, CBuffer = 2048, NEW S \in SUBSET Addrs, Encodable(S),
           Cardinality(S) <= IF engine = "go" THEN 238 ELSE 117
    PROVE  ~Cut(S)
<1> DEFINE four == Cardinality(S \ V6)
           six == Cardinality(S \cap V6)
<1>1. four \in Nat /\ six \in Nat /\ Cardinality(S) = four + six
  BY Families
<1>2. TableLen \in Nat /\ TableLen <= 31
  BY ChannelAssumption DEF Encodable, MaxTableNameLen
<1>3. AddSize(S) = 10 + 1 + TableLen + 4 + 2 + 5 * four + 17 * six
  BY DEF AddSize, HeaderSize
<1> HIDE DEF four, six
<1>4. AddSize(S) \in Nat /\ AddSize(S) <= 48 + 17 * (four + six)
  BY <1>1, <1>2, <1>3
<1>5. CASE engine = "go"
  BY <1>1, <1>4, <1>5 DEF Cut, Buffer
<1>6. CASE engine # "go"
  BY <1>1, <1>4, <1>6 DEF Cut, Buffer
<1>7. QED
  BY <1>5, <1>6
=============================================================================
