------------------------- MODULE AliasPipelineProofs --------------------------
(***************************************************************************)
(* Proofs about AliasDaemon, for every set of addresses, tables and        *)
(* connections, every TTL and every batch size; then about AliasPipeline,  *)
(* for every number of queries too, every TTL clamp and every pool         *)
(* capacity, with stalls and failing ioctls.                               *)
(***************************************************************************)
EXTENDS AliasPipeline, TLAPS

-----------------------------------------------------------------------------
(* The tracker calls keep the tracker's type. *)

LEMMA AddOrRenewType ==
    ASSUME TrackerTypeOK, NEW a \in Entries, NEW t \in Nat, AddOrRenew(a, t)
    PROVE  TrackerTypeOK'
  BY DEF TrackerTypeOK, AddOrRenew, Larger, Untracked

LEMMA DropType ==
    ASSUME TrackerTypeOK, NEW S, Drop(S)
    PROVE  TrackerTypeOK'
  BY DEF TrackerTypeOK, Drop, Untracked

LEMMA DeleteType ==
    ASSUME TrackerTypeOK, NEW a \in Entries, Delete(a)
    PROVE  TrackerTypeOK'
  BY DEF TrackerTypeOK, Delete, Untracked

LEMMA ElapseType ==
    ASSUME TrackerTypeOK, Elapse
    PROVE  TrackerTypeOK'
  BY DEF TrackerTypeOK, Elapse, Untracked

-----------------------------------------------------------------------------
(***************************************************************************)
(* The inductive invariant behind the daemon's properties: what the fields *)
(* of a handler mean at each point of dispatchMessage.                     *)
(***************************************************************************)
HandlerShape ==
    \A c \in Conns :
        /\ pc[c] = "read" => batch[c] = {}
        /\ pc[c] = "add" => cmd[c] = "ADD"
        /\ pc[c] = "del" => cmd[c] # "ADD"
        /\ pc[c] = "del" /\ cmd[c] = "DEL" => batch[c] = asked[c]
        /\ todo[c] \subseteq asked[c]

DaemonInv == DaemonTypeOK /\ HandlerShape

LEMMA DaemonInitInv == DaemonInit => DaemonInv
  BY DEF DaemonInit, DaemonInv, DaemonTypeOK, HandlerShape, TrackerTypeOK,
         NewTracker, IdleHandlers, Untracked

LEMMA DaemonNextInv == DaemonInv /\ [DaemonNext]_daemonVars => DaemonInv'
<1> SUFFICES ASSUME DaemonInv, [DaemonNext]_daemonVars
             PROVE  DaemonInv'
  OBVIOUS
<1> USE DEF DaemonInv, DaemonTypeOK, HandlerShape
<1>1. ASSUME NEW c \in Conns, ReceiveAdd(c)
      PROVE  DaemonInv'
  BY <1>1, TrackerAssumption DEF ReceiveAdd, Receive, TrackerTypeOK
<1>2. ASSUME NEW c \in Conns, ReceiveDel(c)
      PROVE  DaemonInv'
  BY <1>2 DEF ReceiveDel, Receive, TrackerTypeOK
<1>3. ASSUME NEW c \in Conns, ReceiveFlush(c)
      PROVE  DaemonInv'
  BY <1>3 DEF ReceiveFlush, Receive, TrackerTypeOK
<1>4. ASSUME NEW c \in Conns, Register(c)
      PROVE  DaemonInv'
  <2>1. PICK a \in todo[c] :
          /\ AddOrRenew(a, ttl[c])
          /\ todo' = [todo EXCEPT ![c] = todo[c] \ {a}]
          /\ batch' = [batch EXCEPT ![c] = NewIPs(c, a)]
          /\ pc' = [pc EXCEPT ![c] =
               IF todo[c] = {a} THEN AfterTracking(NewIPs(c, a)) ELSE "track"]
    BY <1>4 DEF Register
  <2>2. TrackerTypeOK'
    BY <2>1, AddOrRenewType
  <2>3. NewIPs(c, a) \in SUBSET Entries
    BY <2>1 DEF NewIPs
  <2>4. AfterTracking(NewIPs(c, a)) \in {"ack", "add"}
    BY DEF AfterTracking
  <2>5. QED
    BY <1>4, <2>1, <2>2, <2>3, <2>4 DEF Register
<1>5. ASSUME NEW c \in Conns, Install(c)
      PROVE  DaemonInv'
  BY <1>5 DEF Install, TrackerTypeOK
<1>6. ASSUME NEW c \in Conns, Forget(c)
      PROVE  DaemonInv'
  <2>1. PICK a \in todo[c] :
          /\ Delete(a)
          /\ todo' = [todo EXCEPT ![c] = todo[c] \ {a}]
          /\ pc' = [pc EXCEPT ![c] = IF todo[c] = {a} THEN "del" ELSE "track"]
    BY <1>6 DEF Forget
  <2>2. TrackerTypeOK'
    BY <2>1, DeleteType
  <2>3. QED
    BY <1>6, <2>1, <2>2 DEF Forget
<1>7. ASSUME NEW c \in Conns, Forfeit(c)
      PROVE  DaemonInv'
  <2>1. TrackerTypeOK'
    BY <1>7, DropType DEF Forfeit
  <2>2. QED
    BY <1>7, <2>1 DEF Forfeit
<1>8. ASSUME NEW c \in Conns, Remove(c)
      PROVE  DaemonInv'
  BY <1>8 DEF Remove, TrackerTypeOK
<1>9. ASSUME NEW c \in Conns, Reply(c)
      PROVE  DaemonInv'
  BY <1>9 DEF Reply, ClearHandlers, TrackerTypeOK
<1>10. ASSUME CollectPop
       PROVE  DaemonInv'
  <2>1. PICK S \in SUBSET Entries : PopExpired(S) /\ gcBatch' = S
    BY <1>10 DEF CollectPop
  <2>2. TrackerTypeOK'
    BY <2>1, DropType DEF PopExpired
  <2>3. QED
    BY <1>10, <2>1, <2>2 DEF CollectPop, handlerVars
<1>11. ASSUME NEW t \in Tables, CollectDelete(t)
       PROVE  DaemonInv'
  BY <1>11 DEF CollectDelete, handlerVars, TrackerTypeOK
<1>12. ASSUME Tick
       PROVE  DaemonInv'
  BY <1>12, ElapseType DEF Tick, handlerVars
<1>13. ASSUME Restart
       PROVE  DaemonInv'
  BY <1>13 DEF Restart, ClearHandlers, TrackerTypeOK, Untracked
<1>14. CASE UNCHANGED daemonVars
  BY <1>14 DEF daemonVars, TrackerTypeOK
<1>15. QED
  BY <1>1, <1>2, <1>3, <1>4, <1>5, <1>6, <1>7, <1>8, <1>9, <1>10, <1>11, <1>12,
     <1>13, <1>14 DEF DaemonNext, HandlerStep, Collect

LEMMA DaemonInvariant == DaemonSpec => []DaemonInv
  BY DaemonInitInv, DaemonNextInv, PTL DEF DaemonSpec

(***************************************************************************)
(* Type correctness of the daemon's state.                                 *)
(***************************************************************************)
THEOREM DaemonTypeCorrect == DaemonSpec => []DaemonTypeOK
<1>1. DaemonInv => DaemonTypeOK
  BY DEF DaemonInv
<1>2. QED
  BY <1>1, DaemonInvariant, PTL

-----------------------------------------------------------------------------
(* What the tracker calls do to the set of tracked entries. *)

LEMMA AddOrRenewTracked ==
    ASSUME TrackerTypeOK, NEW a \in Entries, NEW t \in Nat, AddOrRenew(a, t)
    PROVE  Tracked' = Tracked \cup {a}
  BY DEF TrackerTypeOK, AddOrRenew, Larger, Tracked, Untracked

LEMMA DropTracked ==
    ASSUME TrackerTypeOK, NEW S, Drop(S)
    PROVE  Tracked' = Tracked \ S
  BY DEF TrackerTypeOK, Drop, Tracked, Untracked

LEMMA DeleteTracked ==
    ASSUME TrackerTypeOK, NEW a \in Entries, Delete(a)
    PROVE  Tracked' = Tracked \ {a}
  BY DEF TrackerTypeOK, Delete, Tracked, Untracked

LEMMA ElapseTracked ==
    ASSUME TrackerTypeOK, Elapse
    PROVE  Tracked' = Tracked
  BY DEF TrackerTypeOK, Elapse, Tracked, Untracked

(***************************************************************************)
(* Every address that leaks out of the tracker's control is explained.     *)
(***************************************************************************)
LEMMA LeakStep == DaemonInv /\ [DaemonNext]_daemonVars => [LeakExplained]_daemonVars
<1> SUFFICES ASSUME DaemonInv, DaemonNext
             PROVE  LeakExplained
  OBVIOUS
<1> USE DEF DaemonInv, DaemonTypeOK, HandlerShape, LeakExplained, Leaked, Removing
<1>1. ASSUME NEW c \in Conns, ReceiveAdd(c)
      PROVE  LeakExplained
  BY <1>1 DEF ReceiveAdd, Receive, Tracked
<1>2. ASSUME NEW c \in Conns, ReceiveDel(c)
      PROVE  LeakExplained
  BY <1>2 DEF ReceiveDel, Receive, Tracked
<1>3. ASSUME NEW c \in Conns, ReceiveFlush(c)
      PROVE  LeakExplained
  BY <1>3 DEF ReceiveFlush, Receive, Tracked
<1>4. ASSUME NEW c \in Conns, Register(c)
      PROVE  LeakExplained
  <2>1. PICK a \in todo[c] : AddOrRenew(a, ttl[c])
    BY <1>4 DEF Register
  <2>2. Tracked \subseteq Tracked'
    BY <2>1, AddOrRenewTracked
  <2>3. \A d \in Conns : cmd[d] # "ADD" => pc'[d] = pc[d] /\ batch'[d] = batch[d]
    BY <1>4 DEF Register
  <2>4. Removing \subseteq Removing'
    BY <1>4, <2>3 DEF Register
  <2>5. QED
    BY <1>4, <2>2, <2>4 DEF Register
<1>5. ASSUME NEW c \in Conns, Install(c)
      PROVE  LeakExplained
  <2>1. Tracked' = Tracked
    BY <1>5 DEF Install, Tracked
  <2>2. Removing \subseteq Removing'
    BY <1>5 DEF Install
  <2>3. pf' \subseteq pf \cup batch[c]
    BY <1>5 DEF Install
  <2>4. QED
    BY <1>5, <2>1, <2>2, <2>3 DEF Install
<1>6. ASSUME NEW c \in Conns, Forget(c)
      PROVE  LeakExplained
  <2>1. PICK a \in todo[c] : Delete(a)
    BY <1>6 DEF Forget
  <2>2. Tracked' = Tracked \ {a}
    BY <2>1, DeleteTracked
  <2>3. Removing \cup todo[c] \subseteq Removing'
    BY <1>6 DEF Forget
  <2>4. QED
    BY <1>6, <2>2, <2>3 DEF Forget
<1>7. ASSUME NEW c \in Conns, Forfeit(c)
      PROVE  LeakExplained
  <2>1. Tracked' = Tracked \ (asked[c] \cap Tracked)
    BY <1>7, DropTracked DEF Forfeit
  <2>2. Removing \cup (asked[c] \cap Tracked) \subseteq Removing'
    BY <1>7 DEF Forfeit
  <2>3. QED
    BY <1>7, <2>1, <2>2 DEF Forfeit
<1>8. ASSUME NEW c \in Conns, Remove(c)
      PROVE  LeakExplained
  <2>1. Tracked' = Tracked
    BY <1>8 DEF Remove, Tracked
  <2>2. Removing \subseteq Removing' \cup batch[c]
    BY <1>8 DEF Remove
  <2>3. batch[c] \subseteq Removing
    BY <1>8 DEF Remove
  <2>4. QED
    BY <1>8, <2>1, <2>2, <2>3 DEF Remove
<1>9. ASSUME NEW c \in Conns, Reply(c)
      PROVE  LeakExplained
  BY <1>9 DEF Reply, ClearHandlers, Tracked
<1>10. ASSUME CollectPop
       PROVE  LeakExplained
  <2>1. PICK S \in SUBSET Entries : PopExpired(S) /\ gcBatch' = S
    BY <1>10 DEF CollectPop
  <2>2. Tracked' = Tracked \ S
    BY <2>1, DropTracked DEF PopExpired
  <2>3. QED
    BY <1>10, <2>1, <2>2 DEF CollectPop, handlerVars
<1>11. ASSUME NEW t \in Tables, CollectDelete(t)
       PROVE  LeakExplained
  BY <1>11 DEF CollectDelete, handlerVars, Tracked
<1>12. ASSUME Tick
       PROVE  LeakExplained
  BY <1>12, ElapseTracked DEF Tick, handlerVars
<1>13. ASSUME Restart
       PROVE  LeakExplained
  BY <1>13
<1>14. QED
  BY <1>1, <1>2, <1>3, <1>4, <1>5, <1>6, <1>7, <1>8, <1>9, <1>10, <1>11, <1>12,
     <1>13 DEF DaemonNext, HandlerStep, Collect

\* NoSilentLeak: an address never stays in the kernel without an entry but by a named way.
THEOREM LeaksAccounted == DaemonSpec => NoSilentLeak
  BY DaemonInvariant, LeakStep, PTL DEF DaemonSpec, NoSilentLeak

(***************************************************************************)
(* Every tracked address that goes missing from the kernel is explained.   *)
(***************************************************************************)
LEMMA LossStep == DaemonInv /\ [DaemonNext]_daemonVars => [LossExplained]_daemonVars
<1> SUFFICES ASSUME DaemonInv, DaemonNext
             PROVE  LossExplained
  OBVIOUS
<1> USE DEF DaemonInv, DaemonTypeOK, HandlerShape, LossExplained, Missing,
            Installing, InstalledBy
<1>1. ASSUME NEW c \in Conns, ReceiveAdd(c)
      PROVE  LossExplained
  BY <1>1 DEF ReceiveAdd, Receive, Tracked
<1>2. ASSUME NEW c \in Conns, ReceiveDel(c)
      PROVE  LossExplained
  BY <1>2 DEF ReceiveDel, Receive, Tracked
<1>3. ASSUME NEW c \in Conns, ReceiveFlush(c)
      PROVE  LossExplained
  BY <1>3 DEF ReceiveFlush, Receive, Tracked
<1>4. ASSUME NEW c \in Conns, Register(c)
      PROVE  LossExplained
  <2>1. PICK a \in todo[c] :
          /\ AddOrRenew(a, ttl[c])
          /\ batch' = [batch EXCEPT ![c] = NewIPs(c, a)]
          /\ pc' = [pc EXCEPT ![c] =
               IF todo[c] = {a} THEN AfterTracking(NewIPs(c, a)) ELSE "track"]
    BY <1>4 DEF Register
  <2>2. Tracked' = Tracked \cup {a}
    BY <2>1, AddOrRenewTracked
  <2>3. Installing \cup ({a} \ Tracked) \subseteq Installing'
    BY <1>4, <2>1 DEF Register, NewIPs, AfterTracking
  <2>4. QED
    BY <1>4, <2>2, <2>3 DEF Register
<1>5. ASSUME NEW c \in Conns, Install(c)
      PROVE  LossExplained
  <2>1. Tracked' = Tracked
    BY <1>5 DEF Install, Tracked
  <2>2. Installing \subseteq Installing' \cup batch[c]
    BY <1>5 DEF Install
  <2>3. batch[c] \subseteq Installing
    BY <1>5 DEF Install
  <2>4. CASE pf' = pf \cup batch[c]
    BY <2>1, <2>2, <2>4
  <2>5. CASE "add" \in Faults /\ UNCHANGED pf
    BY <2>1, <2>2, <2>3, <2>5
  <2>6. QED
    BY <1>5, <2>4, <2>5 DEF Install
<1>6. ASSUME NEW c \in Conns, Forget(c)
      PROVE  LossExplained
  <2>1. Tracked' \subseteq Tracked
    BY <1>6, DeleteTracked DEF Forget
  <2>2. Installing \subseteq Installing'
    BY <1>6 DEF Forget
  <2>3. QED
    BY <1>6, <2>1, <2>2 DEF Forget
<1>7. ASSUME NEW c \in Conns, Forfeit(c)
      PROVE  LossExplained
  <2>1. Tracked' \subseteq Tracked
    BY <1>7, DropTracked DEF Forfeit
  <2>2. Installing \subseteq Installing'
    BY <1>7 DEF Forfeit
  <2>3. QED
    BY <1>7, <2>1, <2>2 DEF Forfeit
<1>8. ASSUME NEW c \in Conns, Remove(c)
      PROVE  LossExplained
  <2>1. Tracked' = Tracked
    BY <1>8 DEF Remove, Tracked
  <2>2. Installing \subseteq Installing'
    BY <1>8 DEF Remove
  <2>3. batch[c] \subseteq Removing
    BY <1>8 DEF Remove, Removing
  <2>4. QED
    BY <1>8, <2>1, <2>2, <2>3 DEF Remove
<1>9. ASSUME NEW c \in Conns, Reply(c)
      PROVE  LossExplained
  BY <1>9 DEF Reply, ClearHandlers, Tracked
<1>10. ASSUME CollectPop
       PROVE  LossExplained
  <2>1. Tracked' \subseteq Tracked
    BY <1>10, DropTracked DEF CollectPop, PopExpired
  <2>2. QED
    BY <1>10, <2>1 DEF CollectPop, handlerVars
<1>11. ASSUME NEW t \in Tables, CollectDelete(t)
       PROVE  LossExplained
  BY <1>11 DEF CollectDelete, handlerVars, Tracked, Removing
<1>12. ASSUME Tick
       PROVE  LossExplained
  BY <1>12, ElapseTracked DEF Tick, handlerVars
<1>13. ASSUME Restart
       PROVE  LossExplained
  BY <1>13 DEF Restart, Tracked
<1>14. QED
  BY <1>1, <1>2, <1>3, <1>4, <1>5, <1>6, <1>7, <1>8, <1>9, <1>10, <1>11, <1>12,
     <1>13 DEF DaemonNext, HandlerStep, Collect

\* NoSilentLoss: a tracked address never goes missing from the kernel but by a named way.
THEOREM LossesAccounted == DaemonSpec => NoSilentLoss
  BY DaemonInvariant, LossStep, PTL DEF DaemonSpec, NoSilentLoss

-----------------------------------------------------------------------------
(***************************************************************************)
(* The daemon as the plugins use it, undisturbed: clients only ADD, TTLs   *)
(* are clamped above 0, the deletions of the collector succeed, no restart,*)
(* and no handler is slower than a TTL.  An ADD may still fail.            *)
(***************************************************************************)
Undisturbed ==
    /\ Commands \subseteq {"ADD"}
    /\ 0 \notin TTLs
    /\ "del" \notin Faults
    /\ ~Restarts
    /\ ~Stalls

(***************************************************************************)
(* The strengthening: what a handler tracked as new is still alive when it *)
(* installs it, so it is in the tracker and no other handler sees it as    *)
(* new.  NoOrphan and SingleInstaller alone are not inductive: they say    *)
(* nothing of the time left between the tracker call and the ioctl.        *)
(***************************************************************************)
AddOnly == \A c \in Conns : cmd[c] = "ADD" /\ (pc[c] = "track" => ttl[c] > 0)

NewAlive ==
    \A c \in Conns : pc[c] \in {"track", "add"} => \A a \in batch[c] : left[a] > 0

UndisturbedInv ==
    DaemonInv /\ AddOnly /\ NewAlive /\ NoOrphan /\ SingleInstaller

LEMMA UndisturbedInit == DaemonInit => UndisturbedInv
<1> SUFFICES ASSUME DaemonInit PROVE UndisturbedInv
  OBVIOUS
<1>1. DaemonInv
  BY DaemonInitInv
<1>2. AddOnly /\ NewAlive /\ NoOrphan /\ SingleInstaller
  BY DEF DaemonInit, IdleHandlers, AddOnly, NewAlive, NoOrphan, SingleInstaller,
         InstalledBy
<1>3. QED
  BY <1>1, <1>2 DEF UndisturbedInv

LEMMA UndisturbedNext ==
    ASSUME Undisturbed
    PROVE  UndisturbedInv /\ [DaemonNext]_daemonVars => UndisturbedInv'
<1> SUFFICES ASSUME UndisturbedInv, [DaemonNext]_daemonVars
             PROVE  UndisturbedInv'
  OBVIOUS
<1> DEFINE Rest == AddOnly /\ NewAlive /\ NoOrphan /\ SingleInstaller
<1>inv. DaemonInv /\ DaemonInv'
  BY DaemonNextInv DEF UndisturbedInv
<1>type. DaemonTypeOK /\ TrackerTypeOK /\ HandlerShape
  BY <1>inv DEF DaemonInv, DaemonTypeOK
<1>1. ASSUME NEW c \in Conns, ReceiveAdd(c)
      PROVE  Rest'
  <2>1. PICK S \in SUBSET Entries, t \in TTLs : Receive(c, "ADD", S, t)
    BY <1>1 DEF ReceiveAdd
  <2>2. t \in Nat \ {0}
    BY TrackerAssumption DEF Undisturbed
  <2>3. AddOnly'
    BY <2>1, <2>2, <1>type DEF Receive, UndisturbedInv, AddOnly, DaemonTypeOK
  <2>4. NewAlive'
    BY <2>1, <1>type DEF Receive, UndisturbedInv, NewAlive, DaemonTypeOK, HandlerShape
  <2>5. NoOrphan'
    BY <2>1 DEF Receive, UndisturbedInv, NoOrphan, Tracked
  <2>6. \A d \in Conns : InstalledBy(d)' = InstalledBy(d)
    BY <2>1, <1>type DEF Receive, InstalledBy, DaemonTypeOK, HandlerShape
  <2>7. SingleInstaller'
    BY <2>6 DEF UndisturbedInv, SingleInstaller
  <2>8. QED
    BY <2>3, <2>4, <2>5, <2>7
<1>2. ASSUME NEW c \in Conns, ReceiveDel(c) \/ ReceiveFlush(c)
      PROVE  FALSE
  BY <1>2 DEF ReceiveDel, ReceiveFlush, Undisturbed
<1>3. ASSUME NEW c \in Conns, Register(c)
      PROVE  Rest'
  <2>1. PICK a \in todo[c] :
          /\ AddOrRenew(a, ttl[c])
          /\ batch' = [batch EXCEPT ![c] = NewIPs(c, a)]
          /\ pc' = [pc EXCEPT ![c] =
               IF todo[c] = {a} THEN AfterTracking(NewIPs(c, a)) ELSE "track"]
    BY <1>3 DEF Register
  <2>2. a \in Entries /\ ttl[c] \in Nat /\ ttl[c] > 0 /\ left[a] \in Nat \cup {-1}
    BY <1>3, <1>type DEF Register, UndisturbedInv, AddOnly, DaemonTypeOK,
       TrackerTypeOK, Untracked
  <2>3. \A b \in Entries : left[b] > 0 \/ b = a => left'[b] > 0
    BY <2>1, <2>2, <1>type DEF AddOrRenew, Larger, TrackerTypeOK, Untracked
  <2>4. AddOnly'
    BY <1>3, <1>type DEF Register, UndisturbedInv, AddOnly, DaemonTypeOK
  <2>5. \A d \in Conns : batch'[d] \subseteq batch[d] \cup {a}
                         /\ (d # c => batch'[d] = batch[d] /\ pc'[d] = pc[d])
    BY <2>1, <1>type DEF NewIPs, DaemonTypeOK
  <2>6. NewAlive'
    <3> SUFFICES ASSUME NEW d \in Conns, pc'[d] \in {"track", "add"},
                        NEW b \in batch'[d]
                 PROVE  left'[b] > 0
      BY DEF NewAlive
    <3>1. pc[d] \in {"track", "add"}
      BY <1>3, <2>5 DEF Register
    <3>2. b = a \/ (b \in batch[d] /\ b \in Entries)
      BY <2>5, <1>type DEF DaemonTypeOK
    <3>3. QED
      BY <2>2, <2>3, <3>1, <3>2 DEF UndisturbedInv, NewAlive
  <2>7. Tracked' = Tracked \cup {a}
    BY <2>1, <2>2, <1>type, AddOrRenewTracked
  <2>8. NoOrphan'
    BY <1>3, <2>7 DEF Register, UndisturbedInv, NoOrphan
  <2>9. InstalledBy(c)' \subseteq InstalledBy(c) \cup ({a} \ Tracked)
    BY <1>3, <2>1, <1>type DEF Register, InstalledBy, NewIPs, DaemonTypeOK
  <2>10. \A d \in Conns \ {c} : InstalledBy(d)' = InstalledBy(d)
    BY <1>3, <2>5 DEF Register, InstalledBy
  <2>11. \A d \in Conns : InstalledBy(d) \subseteq Tracked
    BY <1>type DEF InstalledBy, UndisturbedInv, NewAlive, Tracked, Untracked,
       DaemonTypeOK, TrackerTypeOK
  <2>12. SingleInstaller'
    BY <2>9, <2>10, <2>11 DEF UndisturbedInv, SingleInstaller
  <2>13. QED
    BY <2>4, <2>6, <2>8, <2>12
<1>4. ASSUME NEW c \in Conns, Install(c)
      PROVE  Rest'
  <2>1. Tracked' = Tracked /\ batch[c] \subseteq Tracked
    BY <1>4, <1>type DEF Install, UndisturbedInv, NewAlive, Tracked, Untracked,
       DaemonTypeOK, TrackerTypeOK
  <2>2. AddOnly' /\ NewAlive'
    BY <1>4, <1>type DEF Install, UndisturbedInv, AddOnly, NewAlive, DaemonTypeOK
  <2>3. NoOrphan'
    BY <1>4, <2>1 DEF Install, UndisturbedInv, NoOrphan
  <2>4. \A d \in Conns : InstalledBy(d)' \subseteq InstalledBy(d)
    BY <1>4, <1>type DEF Install, InstalledBy, DaemonTypeOK
  <2>5. SingleInstaller'
    BY <2>4 DEF UndisturbedInv, SingleInstaller
  <2>6. QED
    BY <2>2, <2>3, <2>5
<1>5. ASSUME NEW c \in Conns, Forget(c) \/ Forfeit(c) \/ Remove(c)
      PROVE  FALSE
  BY <1>5, <1>type DEF Forget, Forfeit, Remove, UndisturbedInv, AddOnly, HandlerShape
<1>6. ASSUME NEW c \in Conns, Reply(c)
      PROVE  Rest'
  <2>1. AddOnly' /\ NewAlive'
    BY <1>6 DEF Reply, ClearHandlers, UndisturbedInv, AddOnly, NewAlive
  <2>2. NoOrphan'
    BY <1>6 DEF Reply, UndisturbedInv, NoOrphan, Tracked
  <2>3. \A d \in Conns : InstalledBy(d)' \subseteq InstalledBy(d)
    BY <1>6 DEF Reply, ClearHandlers, InstalledBy
  <2>4. SingleInstaller'
    BY <2>3 DEF UndisturbedInv, SingleInstaller
  <2>5. QED
    BY <2>1, <2>2, <2>4
<1>7. ASSUME CollectPop
      PROVE  Rest'
  <2>1. PICK S \in SUBSET Entries : PopExpired(S) /\ gcBatch' = S
    BY <1>7 DEF CollectPop
  <2>2. \A a \in Entries : left[a] > 0 => left'[a] = left[a]
    BY <2>1, <1>type DEF PopExpired, Poppable, Expired, Drop, TrackerTypeOK
  <2>3. Tracked' = Tracked \ S
    BY <2>1, <1>type, DropTracked DEF PopExpired
  <2>4. AddOnly'
    BY <1>7 DEF CollectPop, handlerVars, UndisturbedInv, AddOnly
  <2>5. NewAlive'
    BY <1>7, <2>2, <1>type DEF CollectPop, handlerVars, UndisturbedInv, NewAlive,
       DaemonTypeOK
  <2>6. NoOrphan'
    BY <1>7, <2>1, <2>3 DEF CollectPop, UndisturbedInv, NoOrphan
  <2>7. SingleInstaller'
    BY <1>7 DEF CollectPop, handlerVars, UndisturbedInv, SingleInstaller, InstalledBy
  <2>8. QED
    BY <2>4, <2>5, <2>6, <2>7
<1>8. ASSUME NEW t \in Tables, CollectDelete(t)
      PROVE  Rest'
  <2>1. PICK S : pf' = pf \ S /\ gcBatch' = gcBatch \ S
    BY <1>8 DEF CollectDelete, Undisturbed
  <2>2. UNCHANGED <<left, pc, cmd, ttl, batch>>
    BY <1>8 DEF CollectDelete, handlerVars
  <2>3. NoOrphan'
    BY <2>1, <2>2 DEF UndisturbedInv, NoOrphan, Tracked
  <2>4. AddOnly' /\ NewAlive' /\ SingleInstaller'
    BY <2>2 DEF UndisturbedInv, AddOnly, NewAlive, SingleInstaller, InstalledBy
  <2>5. QED
    BY <2>3, <2>4
<1>9. ASSUME Tick
      PROVE  Rest'
  <2>1. InTime /\ Elapse /\ UNCHANGED <<pf, pc, cmd, ttl, batch, gcBatch>>
    BY <1>9 DEF Tick, handlerVars, Undisturbed
  <2>2. Tracked' = Tracked
    BY <2>1, <1>type, ElapseTracked
  <2>3. NoOrphan'
    BY <2>1, <2>2 DEF UndisturbedInv, NoOrphan
  <2>4. AddOnly' /\ SingleInstaller'
    BY <2>1 DEF UndisturbedInv, AddOnly, SingleInstaller, InstalledBy
  <2>5. NewAlive'
    <3> SUFFICES ASSUME NEW c \in Conns, pc'[c] \in {"track", "add"},
                        NEW a \in batch'[c]
                 PROVE  left'[a] > 0
      BY DEF NewAlive
    <3>1. pc[c] \in {"track", "add"} /\ a \in batch[c] /\ a \in Entries
      BY <2>1, <1>type DEF DaemonTypeOK
    <3>2. left[a] > 0 /\ left[a] # 1 /\ left[a] \in Int
      BY <2>1, <3>1, <1>type DEF InTime, UndisturbedInv, NewAlive, AddOnly,
         TrackerTypeOK, Untracked
    <3>3. left'[a] = left[a] - 1
      BY <2>1, <3>1, <3>2 DEF Elapse
    <3>4. QED
      BY <3>2, <3>3
  <2>6. QED
    BY <2>3, <2>4, <2>5
<1>10. ASSUME Restart
       PROVE  FALSE
  BY <1>10 DEF Restart, Undisturbed
<1>11. ASSUME UNCHANGED daemonVars
       PROVE  Rest'
  BY <1>11 DEF daemonVars, UndisturbedInv, AddOnly, NewAlive, NoOrphan, Tracked,
     SingleInstaller, InstalledBy
<1>12. Rest'
  BY <1>1, <1>2, <1>3, <1>4, <1>5, <1>6, <1>7, <1>8, <1>9, <1>10, <1>11
     DEF DaemonNext, HandlerStep, Collect
<1>13. QED
  BY <1>inv, <1>12 DEF UndisturbedInv

(***************************************************************************)
(* Undisturbed, every address in the kernel has an entry that will expire  *)
(* or is in the batch the collector is deleting.                           *)
(***************************************************************************)
THEOREM OrphanFree == ASSUME Undisturbed PROVE DaemonSpec => []NoOrphan
<1>1. UndisturbedInv /\ [DaemonNext]_daemonVars => UndisturbedInv'
  BY UndisturbedNext
<1>2. UndisturbedInv => NoOrphan
  BY DEF UndisturbedInv
<1>3. QED
  BY UndisturbedInit, <1>1, <1>2, PTL DEF DaemonSpec

(***************************************************************************)
(* Undisturbed, two handlers never both take an address for new.           *)
(***************************************************************************)
THEOREM InstallersDisjoint == ASSUME Undisturbed PROVE DaemonSpec => []SingleInstaller
<1>1. UndisturbedInv /\ [DaemonNext]_daemonVars => UndisturbedInv'
  BY UndisturbedNext
<1>2. UndisturbedInv => SingleInstaller
  BY DEF UndisturbedInv
<1>3. QED
  BY UndisturbedInit, <1>1, <1>2, PTL DEF DaemonSpec

-----------------------------------------------------------------------------
(***************************************************************************)
(* Who holds which connection, and what its handler is doing meanwhile.    *)
(***************************************************************************)
HandlersAddOnly ==
    \A c \in Conns : /\ cmd[c] = "ADD" /\ pc[c] # "del"
                     /\ pc[c] \in {"add", "ack"} => todo[c] = {}

QueryShape ==
    \A q \in Queries :
        /\ qpc[q] \in {"idle", "send"} <=> qconn[q] = NoConn
        /\ qpc[q] = "wait" => pc[qconn[q]] # "read"
        /\ qpc[q] = "acked" => pc[qconn[q]] = "read"

ConnInv == PipelineTypeOK /\ HandlersAddOnly /\ QueryShape /\ PooledConnsIdle

-----------------------------------------------------------------------------
LEMMA ClampType == \A t \in TTLs : Clamp(t) \in Nat
  BY TrackerAssumption, PipelineAssumption DEF Clamp

LEMMA GiveSubset ==
    ASSUME NEW c
    PROVE  Give(c) \subseteq pool \cup {c}
  BY DEF Give

LEMMA ConnInitInv == PipelineInit => ConnInv
<1> SUFFICES ASSUME PipelineInit PROVE ConnInv
  OBVIOUS
<1>1. DaemonTypeOK
  BY DaemonInitInv DEF PipelineInit, DaemonInv
<1>2. PipelineTypeOK
  BY <1>1 DEF PipelineInit, PipelineTypeOK
<1>3. HandlersAddOnly /\ QueryShape /\ PooledConnsIdle
  BY DEF PipelineInit, DaemonInit, IdleHandlers, HandlersAddOnly, QueryShape,
     PooledConnsIdle
<1>4. QED
  BY <1>2, <1>3 DEF ConnInv

\* A query that ends lets its connection go and disturbs nobody else.
LEMMA FinishShape ==
    ASSUME ConnInv, NEW q \in Queries, Finish(q), UNCHANGED daemonVars
    PROVE  /\ QueryShape' /\ HandlersAddOnly' /\ pc' = pc
           /\ \A r \in Queries : qconn'[r] = IF r = q THEN NoConn ELSE qconn[r]
  BY DEF ConnInv, PipelineTypeOK, Finish, daemonVars, QueryShape, HandlersAddOnly

LEMMA FinishType ==
    ASSUME ConnInv, NEW q \in Queries, Finish(q), UNCHANGED daemonVars,
           cache' \in [Entries -> Nat], pool' \subseteq Conns
    PROVE  PipelineTypeOK'
  BY DEF ConnInv, PipelineTypeOK, DaemonTypeOK, TrackerTypeOK, Finish, daemonVars

LEMMA ConnNextInv == ConnInv /\ [PipelineNext]_pipelineVars => ConnInv'
<1> SUFFICES ASSUME ConnInv, [PipelineNext]_pipelineVars
             PROVE  ConnInv'
  OBVIOUS
<1>type. PipelineTypeOK /\ DaemonTypeOK /\ TrackerTypeOK
  BY DEF ConnInv, PipelineTypeOK, DaemonTypeOK
<1>1. ASSUME NEW q \in Queries, Exec(q)
      PROVE  ConnInv'
  <2>1. PICK S \in SUBSET Entries, t \in TTLs :
          /\ wanted' = [wanted EXCEPT ![q] = {a \in S : ~Fresh(a, Clamp(t))}]
          /\ qttl' = [qttl EXCEPT ![q] = Clamp(t)]
          /\ life' = [life EXCEPT ![q] = Clamp(t)]
    BY <1>1 DEF Exec
  <2>2. DaemonTypeOK'
    BY <1>1, <1>type DEF Exec, daemonVars, DaemonTypeOK, TrackerTypeOK
  <2>3. PipelineTypeOK'
    BY <1>1, <2>1, <2>2, <1>type, ClampType DEF Exec, PipelineTypeOK
  <2>4. (HandlersAddOnly /\ QueryShape /\ PooledConnsIdle)'
    BY <1>1, <1>type DEF Exec, daemonVars, ConnInv, PipelineTypeOK, HandlersAddOnly,
       QueryShape, PooledConnsIdle, Held
  <2>5. QED
    BY <2>3, <2>4 DEF ConnInv
<1>2. ASSUME NEW q \in Queries, Send(q)
      PROVE  ConnInv'
  <2>1. PICK c \in Available :
          /\ Receive(c, "ADD", wanted[q], qttl[q])
          /\ qconn' = [qconn EXCEPT ![q] = c]
          /\ pool' = pool \ {c}
    BY <1>2 DEF Send
  <2>2. c \in Conns /\ c \notin Held /\ pc[c] = "read"
    BY <1>type DEF Available, ConnInv, PooledConnsIdle, PipelineTypeOK
  <2>3. DaemonTypeOK'
    BY <2>1, <2>2, <1>type DEF Receive, PipelineTypeOK, DaemonTypeOK, TrackerTypeOK
  <2>4. PipelineTypeOK'
    BY <1>2, <2>1, <2>2, <2>3, <1>type DEF Send, PipelineTypeOK
  <2>5. HandlersAddOnly'
    BY <2>1, <2>2, <1>type DEF Receive, ConnInv, HandlersAddOnly, DaemonTypeOK
  <2>6. \A r \in Queries : qconn[r] # c
    BY <2>2 DEF Held
  <2>7. QueryShape'
    BY <1>2, <2>1, <2>2, <2>6, <1>type, PipelineAssumption
       DEF Send, Receive, ConnInv, QueryShape, PipelineTypeOK, DaemonTypeOK
  <2>8. PooledConnsIdle'
    BY <2>1, <2>2, <2>6, <1>type
       DEF Receive, ConnInv, PooledConnsIdle, Held, PipelineTypeOK, DaemonTypeOK
  <2>9. QED
    BY <2>4, <2>5, <2>7, <2>8 DEF ConnInv
<1>3. ASSUME NEW q \in Queries, SendFails(q) \/ Timeout(q)
      PROVE  ConnInv'
  <2>1. Finish(q) /\ UNCHANGED <<daemonVars, cache, pool>>
    BY <1>3 DEF SendFails, Timeout
  <2>2. PipelineTypeOK'
    BY <2>1, <1>type, FinishType DEF PipelineTypeOK
  <2>3. PooledConnsIdle'
    <3>1. PooledConnsIdle /\ NoConn \notin Conns /\ pool' = pool
      BY <2>1, PipelineAssumption DEF ConnInv
    <3>2. pc' = pc /\ \A r \in Queries : qconn'[r] \in {NoConn, qconn[r]}
      BY <2>1, FinishShape
    <3>3. QED
      BY <3>1, <3>2 DEF PooledConnsIdle, Held
  <2>4. QED
    BY <2>1, <2>2, <2>3, FinishShape DEF ConnInv
<1>4. ASSUME NEW q \in Queries, Update(q)
      PROVE  ConnInv'
  <2>1. qconn[q] \in Conns /\ pc[qconn[q]] = "read"
    BY <1>4, <1>type DEF Update, ConnInv, QueryShape, PipelineTypeOK
  <2>2. pool' \subseteq pool \cup {qconn[q]}
    BY <1>4, GiveSubset DEF Update
  <2>3. cache' \in [Entries -> Nat]
    BY <1>4, <1>type DEF Update, NewExpiry, PipelineTypeOK
  <2>4. Finish(q) /\ UNCHANGED daemonVars
    BY <1>4 DEF Update
  <2>5. PipelineTypeOK'
    BY <2>1, <2>2, <2>3, <2>4, <1>type, FinishType DEF PipelineTypeOK
  <2>6. \A r \in Queries : qconn'[r] # qconn[q]
    BY <2>1, <2>4, FinishShape, PipelineAssumption DEF ConnInv, PooledConnsIdle
  <2>7. PooledConnsIdle'
    <3>1. PooledConnsIdle /\ NoConn \notin Conns
      BY PipelineAssumption DEF ConnInv
    <3>2. pc' = pc /\ \A r \in Queries : qconn'[r] \in {NoConn, qconn[r]}
      BY <2>4, FinishShape
    <3>3. QED
      BY <2>1, <2>2, <2>6, <3>1, <3>2 DEF PooledConnsIdle, Held
  <2>8. QED
    BY <2>4, <2>5, <2>7, FinishShape DEF ConnInv
<1>5. ASSUME NEW c \in Conns, Acknowledge(c)
      PROVE  ConnInv'
  <2>1. DaemonTypeOK'
    BY <1>5, <1>type DEF Acknowledge, Reply, ClearHandlers, DaemonTypeOK, TrackerTypeOK
  <2>2. PipelineTypeOK'
    BY <1>5, <2>1, <1>type DEF Acknowledge, PipelineTypeOK, DaemonTypeOK
  <2>3. HandlersAddOnly'
    BY <1>5 DEF Acknowledge, Reply, ClearHandlers, ConnInv, HandlersAddOnly
  <2>4. pc[c] = "ack" /\ \A d \in Conns : pc'[d] = IF d = c THEN "read" ELSE pc[d]
    BY <1>5 DEF Acknowledge, Reply, ClearHandlers
  <2>5. \A r \in Queries :
          qpc'[r] = IF qconn[r] = c /\ qpc[r] = "wait" THEN "acked" ELSE qpc[r]
    BY <1>5 DEF Acknowledge
  <2>6. qconn' = qconn /\ pool' = pool
    BY <1>5 DEF Acknowledge
  <2>7. QueryShape'
    BY <2>4, <2>5, <2>6, <1>type DEF ConnInv, QueryShape, PipelineTypeOK
  <2>8. PooledConnsIdle'
    BY <2>4, <2>6, <1>type DEF ConnInv, PooledConnsIdle, Held, PipelineTypeOK
  <2>9. QED
    BY <2>2, <2>3, <2>7, <2>8 DEF ConnInv
<1>6. ASSUME NEW c \in Conns, Register(c) \/ Install(c), UNCHANGED pluginVars
      PROVE  ConnInv'
  <2>1. DaemonTypeOK' /\ todo[c] \in SUBSET Entries
    <3>1. CASE Register(c)
      <4>1. PICK a \in todo[c] :
              /\ AddOrRenew(a, ttl[c])
              /\ todo' = [todo EXCEPT ![c] = todo[c] \ {a}]
              /\ batch' = [batch EXCEPT ![c] = NewIPs(c, a)]
              /\ pc' = [pc EXCEPT ![c] =
                   IF todo[c] = {a} THEN AfterTracking(NewIPs(c, a)) ELSE "track"]
        BY <3>1 DEF Register
      <4>2. TrackerTypeOK'
        BY <4>1, <1>type, AddOrRenewType DEF DaemonTypeOK
      <4>3. NewIPs(c, a) \in SUBSET Entries
        BY <4>1, <1>type DEF NewIPs, DaemonTypeOK
      <4>4. AfterTracking(NewIPs(c, a)) \in {"ack", "add"}
        BY DEF AfterTracking
      <4>5. QED
        BY <3>1, <4>1, <4>2, <4>3, <4>4, <1>type DEF Register, DaemonTypeOK
    <3>2. CASE Install(c)
      BY <3>2, <1>type DEF Install, DaemonTypeOK, TrackerTypeOK
    <3>3. QED
      BY <1>6, <3>1, <3>2
  <2>2. PipelineTypeOK'
    BY <1>6, <2>1, <1>type DEF pluginVars, PipelineTypeOK
  <2>3. HandlersAddOnly'
    BY <1>6, <2>1, <1>type
       DEF Register, Install, ConnInv, HandlersAddOnly, DaemonTypeOK, AfterTracking
  <2>4. /\ pc[c] # "read" /\ pc'[c] # "read"
        /\ \A d \in Conns : d # c => pc'[d] = pc[d]
    BY <1>6, <1>type DEF Register, Install, AfterTracking, DaemonTypeOK
  <2>5. QueryShape'
    BY <1>6, <2>4, <1>type DEF pluginVars, ConnInv, QueryShape, PipelineTypeOK
  <2>6. PooledConnsIdle'
    BY <1>6, <2>4, <1>type DEF pluginVars, ConnInv, PooledConnsIdle, Held, PipelineTypeOK
  <2>7. QED
    BY <2>2, <2>3, <2>5, <2>6 DEF ConnInv
<1>7. ASSUME Collect, UNCHANGED pluginVars
      PROVE  ConnInv'
  <2>1. UNCHANGED <<handlerVars, pluginVars>>
    BY <1>7 DEF Collect, CollectPop, CollectDelete
  <2>2. TrackerTypeOK' /\ pf' \subseteq Entries /\ gcBatch' \subseteq Entries
    BY <1>7, <1>type, DropType
       DEF Collect, CollectPop, CollectDelete, PopExpired, DaemonTypeOK, TrackerTypeOK
  <2>3. QED
    BY <2>1, <2>2, <1>type DEF handlerVars, pluginVars, ConnInv, PipelineTypeOK,
       DaemonTypeOK, HandlersAddOnly, QueryShape, PooledConnsIdle, Held
<1>8. ASSUME PassTime
      PROVE  ConnInv'
  <2>1. TrackerTypeOK'
    BY <1>8, <1>type, ElapseType DEF PassTime, Tick
  <2>2. UNCHANGED <<pf, handlerVars, gcBatch, qpc, wanted, qttl, qconn, answer, pool>>
    BY <1>8 DEF PassTime, Tick
  <2>3. life' \in [Queries -> Nat] /\ cache' \in [Entries -> Nat]
    BY <1>8, <1>type DEF PassTime, Sooner, PipelineTypeOK
  <2>4. QED
    BY <2>1, <2>2, <2>3, <1>type DEF handlerVars, ConnInv, PipelineTypeOK,
       DaemonTypeOK, HandlersAddOnly, QueryShape, PooledConnsIdle, Held
<1>9. ASSUME UNCHANGED pipelineVars
      PROVE  ConnInv'
  BY <1>9 DEF pipelineVars, daemonVars, pluginVars, ConnInv, PipelineTypeOK,
     DaemonTypeOK, TrackerTypeOK, HandlersAddOnly, QueryShape, PooledConnsIdle, Held
<1>10. QED
  BY <1>1, <1>2, <1>3, <1>4, <1>5, <1>6, <1>7, <1>8, <1>9
     DEF PipelineNext, QueryStep, DaemonWork

LEMMA ConnInvariant == PipelineSpec => []ConnInv
  BY ConnInitInv, ConnNextInv, PTL DEF PipelineSpec

(***************************************************************************)
(* Type correctness of plugin and daemon together.                         *)
(***************************************************************************)
THEOREM PipelineTypeCorrect == PipelineSpec => []PipelineTypeOK
<1>1. ConnInv => PipelineTypeOK
  BY DEF ConnInv
<1>2. QED
  BY <1>1, ConnInvariant, PTL

(***************************************************************************)
(* A pooled connection has no request under way and nobody holds it, so no *)
(* query ever reads the ACK of another although sequence numbers are not   *)
(* compared.                                                               *)
(***************************************************************************)
THEOREM NoForeignAck == PipelineSpec => []PooledConnsIdle
<1>1. ConnInv => PooledConnsIdle
  BY DEF ConnInv
<1>2. QED
  BY <1>1, ConnInvariant, PTL

-----------------------------------------------------------------------------
(***************************************************************************)
(* The lease argument.  The plugin counts from before it sends, the daemon *)
(* from when it gets to the address, so the tracker's remainder is never   *)
(* the smaller.  The strengthening carries that through the three places   *)
(* the promise passes on its way to the cache: the request in the handler, *)
(* the tracker entry while the query waits, the ACK the query has read.    *)
(***************************************************************************)
Kept(q, a) == life[q] > 0 => left[a] >= life[q]

Leases ==
    /\ \A q \in Queries : life[q] <= qttl[q]
    /\ \A q \in Queries : qpc[q] = "wait" =>
         /\ ttl[qconn[q]] >= life[q]
         /\ \A a \in wanted[q] : a \in todo[qconn[q]] \/ Kept(q, a)
    /\ \A q \in Queries : qpc[q] = "acked" => \A a \in wanted[q] : Kept(q, a)

LeaseInv == ConnInv /\ Leases /\ CacheBacked

LEMMA LeaseInitInv == PipelineInit => LeaseInv
  BY ConnInitInv DEF PipelineInit, LeaseInv, Leases, CacheBacked

\* A step that takes time from no entry keeps what the plugin relies on.
LEMMA LeftGrows ==
    ASSUME ConnInv, Leases, CacheBacked,
           \A a \in Entries : left[a] > 0 => left'[a] >= left[a],
           TrackerTypeOK'
    PROVE  /\ \A a \in Entries : cache[a] > 0 => left'[a] >= cache[a]
           /\ \A q \in Queries, a \in Entries :
                Kept(q, a) => (life[q] > 0 => left'[a] >= life[q])
  BY DEF ConnInv, PipelineTypeOK, DaemonTypeOK, TrackerTypeOK, Untracked, CacheBacked, Kept

LEMMA LeaseNextInv == LeaseInv /\ [PipelineNext]_pipelineVars => LeaseInv'
<1> SUFFICES ASSUME LeaseInv, [PipelineNext]_pipelineVars
             PROVE  Leases' /\ CacheBacked'
  BY ConnNextInv DEF LeaseInv
<1>inv. ConnInv /\ Leases /\ CacheBacked /\ ConnInv'
  BY ConnNextInv DEF LeaseInv
<1>type. PipelineTypeOK /\ DaemonTypeOK /\ TrackerTypeOK /\ PipelineTypeOK'
         /\ DaemonTypeOK' /\ TrackerTypeOK'
  BY <1>inv DEF ConnInv, PipelineTypeOK, DaemonTypeOK
<1>1. ASSUME NEW q \in Queries, Exec(q)
      PROVE  Leases' /\ CacheBacked'
  <2>1. PICK t \in TTLs : /\ qttl' = [qttl EXCEPT ![q] = Clamp(t)]
                          /\ life' = [life EXCEPT ![q] = Clamp(t)]
    BY <1>1 DEF Exec
  <2>2. Clamp(t) \in Nat
    BY ClampType
  <2>3. UNCHANGED <<left, ttl, todo, qconn, cache>> /\ qpc' = [qpc EXCEPT ![q] = "send"]
    BY <1>1 DEF Exec, daemonVars
  <2>4. \A r \in Queries : r # q => wanted'[r] = wanted[r]
    BY <1>1, <1>type DEF Exec, PipelineTypeOK
  <2>5. Leases'
    BY <2>1, <2>2, <2>3, <2>4, <1>inv, <1>type DEF Leases, Kept, PipelineTypeOK
  <2>6. CacheBacked'
    BY <2>3, <1>inv DEF CacheBacked
  <2>7. QED
    BY <2>5, <2>6
<1>2. ASSUME NEW q \in Queries, Send(q)
      PROVE  Leases' /\ CacheBacked'
  <2>1. PICK c \in Available :
          /\ Receive(c, "ADD", wanted[q], qttl[q])
          /\ qconn' = [qconn EXCEPT ![q] = c]
    BY <1>2 DEF Send
  <2>2. c \in Conns /\ \A r \in Queries : qconn[r] # c
    BY <1>inv, <1>type DEF Available, ConnInv, PooledConnsIdle, Held, PipelineTypeOK
  <2>3. /\ left' = left
        /\ ttl' = [ttl EXCEPT ![c] = qttl[q]]
        /\ todo' = [todo EXCEPT ![c] = wanted[q]]
    BY <2>1 DEF Receive
  <2>4. UNCHANGED <<wanted, qttl, life, cache>> /\ qpc' = [qpc EXCEPT ![q] = "wait"]
    BY <1>2 DEF Send
  <2>5. \A r \in Queries : r # q /\ qpc'[r] = "wait" => qconn'[r] \in Conns \ {c}
    BY <2>1, <2>2, <2>4, <1>inv, <1>type DEF ConnInv, QueryShape, PipelineTypeOK
  <2>6. Leases'
    <3>1. ttl'[c] = qttl[q] /\ todo'[c] = wanted[q] /\ qconn'[q] = c
      BY <2>1, <2>2, <2>3, <1>type DEF DaemonTypeOK, PipelineTypeOK
    <3>2. \A r \in Queries : r # q /\ qpc'[r] = "wait" =>
            /\ qpc[r] = "wait" /\ qconn'[r] = qconn[r]
            /\ ttl'[qconn'[r]] = ttl[qconn[r]] /\ todo'[qconn'[r]] = todo[qconn[r]]
      BY <2>1, <2>3, <2>4, <2>5, <1>type DEF DaemonTypeOK, PipelineTypeOK
    <3>3. QED
      BY <2>3, <2>4, <3>1, <3>2, <1>inv, <1>type DEF Leases, Kept, PipelineTypeOK
  <2>7. CacheBacked'
    BY <2>3, <2>4, <1>inv DEF CacheBacked
  <2>8. QED
    BY <2>6, <2>7
<1>3. ASSUME NEW q \in Queries, Finish(q), UNCHANGED daemonVars
      PROVE  Leases'
  <2>1. qpc'[q] = "idle" /\ life'[q] = 0 /\ qttl'[q] = 0
    BY <1>3, <1>type DEF Finish, PipelineTypeOK
  <2>2. \A r \in Queries : r # q =>
          /\ qpc'[r] = qpc[r] /\ life'[r] = life[r] /\ qttl'[r] = qttl[r]
          /\ wanted'[r] = wanted[r] /\ qconn'[r] = qconn[r]
    BY <1>3, <1>type DEF Finish, PipelineTypeOK
  <2>3. UNCHANGED <<left, ttl, todo>>
    BY <1>3 DEF daemonVars
  <2>4. QED
    BY <2>1, <2>2, <2>3, <1>inv DEF Leases, Kept
<1>4. ASSUME NEW q \in Queries, SendFails(q) \/ Timeout(q)
      PROVE  Leases' /\ CacheBacked'
  <2>1. Finish(q) /\ UNCHANGED <<daemonVars, cache>>
    BY <1>4 DEF SendFails, Timeout
  <2>2. CacheBacked'
    BY <2>1, <1>inv DEF CacheBacked, daemonVars
  <2>3. QED
    BY <2>1, <2>2, <1>3
<1>5. ASSUME NEW q \in Queries, Update(q)
      PROVE  Leases' /\ CacheBacked'
  <2>1. Finish(q) /\ UNCHANGED daemonVars /\ qpc[q] = "acked"
    BY <1>5 DEF Update
  <2>2. left' = left /\ \A a \in wanted[q] : Kept(q, a)
    BY <2>1, <1>inv DEF daemonVars, Leases
  <2>3. \A a \in Entries : cache'[a] = cache[a] \/ (a \in wanted[q] /\ cache'[a] = life[q])
    BY <1>5, <1>type DEF Update, NewExpiry, PipelineTypeOK
  <2>4. CacheBacked'
    BY <2>2, <2>3, <1>inv DEF CacheBacked, Kept
  <2>5. QED
    BY <2>1, <2>4, <1>3
<1>6. ASSUME NEW c \in Conns, Acknowledge(c)
      PROVE  Leases' /\ CacheBacked'
  <2>1. pc[c] = "ack" /\ UNCHANGED <<left, wanted, qttl, life, qconn, cache>>
    BY <1>6 DEF Acknowledge, Reply
  <2>2. todo[c] = {}
    BY <2>1, <1>inv DEF ConnInv, HandlersAddOnly
  <2>3. \A d \in Conns \ {c} : ttl'[d] = ttl[d] /\ todo'[d] = todo[d]
    BY <1>6 DEF Acknowledge, Reply, ClearHandlers
  <2>4. \A r \in Queries :
          qpc'[r] = IF qconn[r] = c /\ qpc[r] = "wait" THEN "acked" ELSE qpc[r]
    BY <1>6 DEF Acknowledge
  <2>5. \A r \in Queries : qpc'[r] = "wait" => qpc[r] = "wait" /\ qconn[r] \in Conns \ {c}
    BY <2>4, <1>inv, <1>type DEF ConnInv, QueryShape, PipelineTypeOK
  <2>6. Leases'
    BY <2>1, <2>2, <2>3, <2>4, <2>5, <1>inv DEF Leases, Kept
  <2>7. CacheBacked'
    BY <2>1, <1>inv DEF CacheBacked
  <2>8. QED
    BY <2>6, <2>7
<1>7. ASSUME UNCHANGED <<ttl, pluginVars>>,
             \A a \in Entries : left[a] > 0 => left'[a] >= left[a],
             \A q \in Queries : qpc[q] = "wait" => \A a \in wanted[q] :
               a \in todo[qconn[q]] => \/ a \in todo'[qconn[q]]
                                       \/ left'[a] >= ttl[qconn[q]]
      PROVE  Leases' /\ CacheBacked'
  <2>1. /\ \A a \in Entries : cache[a] > 0 => left'[a] >= cache[a]
        /\ \A q \in Queries, a \in Entries :
             Kept(q, a) => (life[q] > 0 => left'[a] >= life[q])
    BY <1>7, <1>inv, <1>type, LeftGrows
  <2>2. UNCHANGED <<qpc, wanted, qttl, life, qconn, cache>>
    BY <1>7 DEF pluginVars
  <2>3. ASSUME NEW q \in Queries, qpc[q] = "wait", NEW a \in wanted[q],
               a \notin todo'[qconn[q]]
        PROVE  life[q] > 0 => left'[a] >= life[q]
    <3>1. a \in Entries /\ qconn[q] \in Conns /\ left'[a] \in Int /\ life[q] \in Nat
      BY <2>3, <1>inv, <1>type
         DEF PipelineTypeOK, TrackerTypeOK, Untracked, ConnInv, QueryShape
    <3>2. ttl[qconn[q]] \in Nat /\ ttl[qconn[q]] >= life[q]
      BY <2>3, <3>1, <1>inv, <1>type DEF DaemonTypeOK, Leases
    <3>3. CASE a \in todo[qconn[q]]
      BY <1>7, <2>3, <3>1, <3>2, <3>3
    <3>4. CASE a \notin todo[qconn[q]]
      BY <2>1, <2>3, <3>1, <3>4, <1>inv DEF Leases
    <3>5. QED
      BY <3>3, <3>4
  <2>4. \A q \in Queries : wanted[q] \subseteq Entries
    BY <1>type DEF PipelineTypeOK
  <2>5. Leases'
    BY <1>7, <2>1, <2>2, <2>3, <2>4, <1>inv DEF Leases, Kept
  <2>6. CacheBacked'
    BY <2>1, <2>2 DEF CacheBacked
  <2>7. QED
    BY <2>5, <2>6
<1>8. ASSUME NEW c \in Conns, Register(c), UNCHANGED pluginVars
      PROVE  Leases' /\ CacheBacked'
  <2>1. PICK a \in todo[c] : AddOrRenew(a, ttl[c])
                             /\ todo' = [todo EXCEPT ![c] = todo[c] \ {a}]
    BY <1>8 DEF Register
  <2>2. a \in Entries /\ ttl[c] \in Nat
    BY <1>type DEF DaemonTypeOK
  <2>3. left'[a] >= ttl[c] /\ \A b \in Entries : left'[b] >= left[b]
    BY <2>1, <2>2, <1>type DEF AddOrRenew, Larger, TrackerTypeOK, Untracked
  <2>4. \A q \in Queries : qpc[q] = "wait" => \A b \in wanted[q] :
          b \in todo[qconn[q]] => \/ b \in todo'[qconn[q]]
                                  \/ left'[b] >= ttl[qconn[q]]
    BY <2>1, <2>3, <1>type DEF DaemonTypeOK
  <2>5. ttl' = ttl
    BY <1>8 DEF Register
  <2>6. QED
    BY <1>8, <2>3, <2>4, <2>5, <1>7
<1>9. ASSUME NEW c \in Conns, Install(c), UNCHANGED pluginVars
      PROVE  Leases' /\ CacheBacked'
  <2>1. UNCHANGED <<left, ttl, todo>>
    BY <1>9 DEF Install
  <2>2. \A a \in Entries : left[a] > 0 => left'[a] >= left[a]
    BY <2>1, <1>type DEF TrackerTypeOK, Untracked
  <2>3. QED
    BY <1>9, <2>1, <2>2, <1>7
<1>10. ASSUME Collect, UNCHANGED pluginVars
       PROVE  Leases' /\ CacheBacked'
  <2>1. UNCHANGED <<ttl, todo>>
    BY <1>10 DEF Collect, CollectPop, CollectDelete, handlerVars
  <2>2. \A a \in Entries : left[a] > 0 => left'[a] = left[a]
    BY <1>10, <1>type DEF Collect, CollectPop, CollectDelete, PopExpired, Poppable,
       Expired, Drop, TrackerTypeOK
  <2>3. \A a \in Entries : left[a] > 0 => left'[a] >= left[a]
    BY <2>2, <1>type DEF TrackerTypeOK, Untracked
  <2>4. QED
    BY <1>10, <2>1, <2>3, <1>7
<1>11. ASSUME PassTime
       PROVE  Leases' /\ CacheBacked'
  <2>1. /\ Elapse /\ UNCHANGED <<ttl, todo, qpc, wanted, qttl, qconn>>
        /\ life' = [q \in Queries |-> Sooner(life[q])]
        /\ cache' = [a \in Entries |-> Sooner(cache[a])]
    BY <1>11 DEF PassTime, Tick, handlerVars
  <2>2. \A a \in Entries : left[a] > 0 => left'[a] = left[a] - 1
    BY <2>1 DEF Elapse
  <2>3. \A q \in Queries, a \in Entries : Kept(q, a) => Kept(q, a)'
    BY <2>1, <2>2, <1>type DEF Kept, Sooner, PipelineTypeOK, TrackerTypeOK, Untracked
  <2>4. \A q \in Queries : life'[q] <= life[q]
    BY <2>1, <1>type DEF Sooner, PipelineTypeOK
  <2>5. ASSUME NEW q \in Queries, qpc[q] = "wait"
        PROVE  ttl[qconn[q]] \in Nat
    <3>1. qconn[q] \in Conns
      BY <2>5, <1>inv, <1>type DEF ConnInv, QueryShape, PipelineTypeOK
    <3>2. QED
      BY <3>1, <1>type DEF DaemonTypeOK
  <2>6. Leases'
    <3>1. \A q \in Queries : life[q] \in Nat /\ life'[q] \in Nat /\ qttl[q] \in Nat
                             /\ wanted[q] \subseteq Entries
      BY <1>type DEF PipelineTypeOK
    <3>2. \A q \in Queries : life'[q] <= qttl'[q]
      BY <2>1, <2>4, <3>1, <1>inv DEF Leases
    <3>3. \A q \in Queries : qpc'[q] = "wait" => ttl'[qconn'[q]] >= life'[q]
      BY <2>1, <2>4, <2>5, <3>1, <1>inv DEF Leases
    <3>4. QED
      BY <2>1, <2>3, <3>1, <3>2, <3>3, <1>inv DEF Leases
  <2>7. CacheBacked'
    BY <2>1, <2>2, <1>inv, <1>type
       DEF CacheBacked, Sooner, PipelineTypeOK, TrackerTypeOK, Untracked
  <2>8. QED
    BY <2>6, <2>7
<1>12. ASSUME UNCHANGED pipelineVars
       PROVE  Leases' /\ CacheBacked'
  BY <1>12, <1>inv DEF pipelineVars, daemonVars, pluginVars, Leases, Kept, CacheBacked
<1>13. QED
  BY <1>1, <1>2, <1>4, <1>5, <1>6, <1>8, <1>9, <1>10, <1>11, <1>12
     DEF PipelineNext, QueryStep, DaemonWork

(***************************************************************************)
(* An address fresh in the plugin's cache is tracked by the daemon for at  *)
(* least as long.                                                          *)
(***************************************************************************)
THEOREM CacheNeverAhead == PipelineSpec => []CacheBacked
<1>1. LeaseInv => CacheBacked
  BY DEF LeaseInv
<1>2. QED
  BY LeaseInitInv, LeaseNextInv, <1>1, PTL DEF PipelineSpec
=============================================================================
