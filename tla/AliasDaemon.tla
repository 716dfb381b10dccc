------------------------------ MODULE AliasDaemon -----------------------------
(***************************************************************************)
(* cmd/pf-aliasd: one goroutine per client connection, one garbage         *)
(* collector goroutine, the tracker they share under its mutex, and the    *)
(* kernel PF tables they change through /dev/pf.                           *)
(*                                                                         *)
(* The tracker mutex is held for one tracker call and the device mutex for *)
(* one ioctl, so each of those calls is one step here and everything else  *)
(* interleaves: a handler is between two steps whenever the code holds     *)
(* neither lock.                                                           *)
(***************************************************************************)
EXTENDS TTLTracker

CONSTANTS
    Conns,      \* client connections, each with its handler goroutine
    Commands,   \* the commands the clients send, of "ADD", "DEL", "FLUSH"
    Faults,     \* the ioctls that may fail, of "add", "del"
    Restarts,   \* whether the daemon may crash or be restarted
    Stalls      \* whether a handler may be slower than a TTL

ASSUME DaemonAssumption ==
    /\ Commands \subseteq {"ADD", "DEL", "FLUSH"}
    /\ Faults \subseteq {"add", "del"}
    /\ Restarts \in BOOLEAN
    /\ Stalls \in BOOLEAN

VARIABLES
    pf,         \* the addresses in the kernel tables; they outlive the daemon
    pc,         \* where each handler is in dispatchMessage
    cmd,        \* the command it works on
    ttl,        \* the TTL of that request
    asked,      \* the addresses of that request
    todo,       \* msg.IPs the loop over the tracker has not reached
    batch,      \* newIPs of an ADD; the addresses a DEL or FLUSH removes
    status,     \* the status the ACK will carry
    gcBatch     \* popped by the collector and not yet deleted from pf

handlerVars == <<pc, cmd, ttl, asked, todo, batch, status>>
daemonVars == <<left, pf, pc, cmd, ttl, asked, todo, batch, status, gcBatch>>

DaemonTypeOK ==
    /\ TrackerTypeOK
    /\ pf \subseteq Entries
    /\ pc \in [Conns -> {"read", "track", "add", "del", "ack"}]
    /\ cmd \in [Conns -> {"ADD", "DEL", "FLUSH"}]
    /\ ttl \in [Conns -> Nat]
    /\ asked \in [Conns -> SUBSET Entries]
    /\ todo \in [Conns -> SUBSET Entries]
    /\ batch \in [Conns -> SUBSET Entries]
    /\ status \in [Conns -> {"OK", "ERR"}]
    /\ gcBatch \subseteq Entries

\* A handler blocked in conn.Read; the fields of the last request are cleared.
IdleHandlers ==
    /\ pc = [c \in Conns |-> "read"]
    /\ cmd = [c \in Conns |-> "ADD"]
    /\ ttl = [c \in Conns |-> 0]
    /\ asked = [c \in Conns |-> {}]
    /\ todo = [c \in Conns |-> {}]
    /\ batch = [c \in Conns |-> {}]
    /\ status = [c \in Conns |-> "OK"]

\* The handlers in S forget their request: it is answered, or they are gone.
ClearHandlers(S) ==
    /\ pc' = [c \in Conns |-> IF c \in S THEN "read" ELSE pc[c]]
    /\ cmd' = [c \in Conns |-> IF c \in S THEN "ADD" ELSE cmd[c]]
    /\ ttl' = [c \in Conns |-> IF c \in S THEN 0 ELSE ttl[c]]
    /\ asked' = [c \in Conns |-> IF c \in S THEN {} ELSE asked[c]]
    /\ todo' = [c \in Conns |-> IF c \in S THEN {} ELSE todo[c]]
    /\ batch' = [c \in Conns |-> IF c \in S THEN {} ELSE batch[c]]
    /\ status' = [c \in Conns |-> IF c \in S THEN "OK" ELSE status[c]]

DaemonInit ==
    /\ NewTracker
    /\ pf = {}
    /\ IdleHandlers
    /\ gcBatch = {}

-----------------------------------------------------------------------------
\* The requests clients send: a message names one table.
OneTable(S) == \A a, b \in S : TableOf[a] = TableOf[b]

\* A request arrives and is decoded.  ADD and DEL walk over its addresses; for
\* a FLUSH, asked is the table: the addresses that could be in it.
Receive(c, command, S, t) ==
    /\ pc[c] = "read"
    /\ S # {} /\ OneTable(S)
    /\ pc' = [pc EXCEPT ![c] = "track"]
    /\ cmd' = [cmd EXCEPT ![c] = command]
    /\ ttl' = [ttl EXCEPT ![c] = t]
    /\ asked' = [asked EXCEPT ![c] = S]
    /\ todo' = [todo EXCEPT ![c] = IF command = "FLUSH" THEN {} ELSE S]
    /\ UNCHANGED <<left, pf, batch, status, gcBatch>>

ReceiveAdd(c) ==
    /\ "ADD" \in Commands
    /\ \E S \in SUBSET Entries, t \in TTLs : Receive(c, "ADD", S, t)

ReceiveDel(c) ==
    /\ "DEL" \in Commands
    /\ \E S \in SUBSET Entries : Receive(c, "DEL", S, 0)

ReceiveFlush(c) ==
    /\ "FLUSH" \in Commands
    /\ \E t \in Tables : Receive(c, "FLUSH", {a \in Entries : TableOf[a] = t}, 0)

\* An ADD with nothing new goes straight to its ACK.
SilentOnRenewal(fresh) == IF fresh = {} THEN "read" ELSE "add"

AfterTracking(fresh) == IF fresh = {} THEN "ack" ELSE "add"

\* ADD: one iteration of the loop over msg.IPs, one AddOrRenew.  The addresses
\* that were new are collected for the ioctl, which an ADD of renewals skips.
NewIfExtended(c, a) == IF left[a] < ttl[c] THEN batch[c] \cup {a} ELSE batch[c]

NewIPs(c, a) == IF a \in Tracked THEN batch[c] ELSE batch[c] \cup {a}

Register(c) ==
    /\ pc[c] = "track" /\ cmd[c] = "ADD"
    /\ \E a \in todo[c] :
         /\ AddOrRenew(a, ttl[c])
         /\ todo' = [todo EXCEPT ![c] = todo[c] \ {a}]
         /\ batch' = [batch EXCEPT ![c] = NewIPs(c, a)]
         /\ pc' = [pc EXCEPT ![c] =
              IF todo[c] = {a} THEN AfterTracking(NewIPs(c, a)) ELSE "track"]
    /\ UNCHANGED <<pf, cmd, ttl, asked, status, gcBatch>>

\* DIOCRADDADDRS on the new addresses: all of them or, on an error, none.  The
\* tracker keeps its entries either way.
InstallFirst(c) ==
    /\ pc[c] = "add"
    /\ \E a \in batch[c] : pf' = pf \cup {a}
    /\ pc' = [pc EXCEPT ![c] = "ack"]
    /\ UNCHANGED <<left, cmd, ttl, asked, todo, batch, status, gcBatch>>

Install(c) ==
    /\ pc[c] = "add"
    /\ \/ pf' = pf \cup batch[c] /\ UNCHANGED status
       \/ /\ "add" \in Faults
          /\ status' = [status EXCEPT ![c] = "ERR"]
          /\ UNCHANGED pf
    /\ pc' = [pc EXCEPT ![c] = "ack"]
    /\ UNCHANGED <<left, cmd, ttl, asked, todo, batch, gcBatch>>

\* DEL: one tracker.Delete of the loop.  Tracked or not, every address of the
\* message then goes to DIOCRDELADDRS.
Forget(c) ==
    /\ pc[c] = "track" /\ cmd[c] = "DEL"
    /\ \E a \in todo[c] :
         /\ Delete(a)
         /\ todo' = [todo EXCEPT ![c] = todo[c] \ {a}]
         /\ pc' = [pc EXCEPT ![c] = IF todo[c] = {a} THEN "del" ELSE "track"]
    /\ batch' = [batch EXCEPT ![c] = asked[c]]
    /\ UNCHANGED <<pf, cmd, ttl, asked, status, gcBatch>>

\* FLUSH: tracker.Flush, and DIOCRDELADDRS only if it returned something.
Forfeit(c) ==
    /\ pc[c] = "track" /\ cmd[c] = "FLUSH"
    /\ batch' = [batch EXCEPT ![c] = asked[c] \cap Tracked]
    /\ pc' = [pc EXCEPT ![c] = IF asked[c] \cap Tracked = {} THEN "ack" ELSE "del"]
    /\ Drop(asked[c] \cap Tracked)
    /\ UNCHANGED <<pf, cmd, ttl, asked, todo, status, gcBatch>>

\* DIOCRDELADDRS of a DEL, which reports a failure, or of a FLUSH, which does not.
Remove(c) ==
    /\ pc[c] = "del"
    /\ \/ pf' = pf \ batch[c] /\ UNCHANGED status
       \/ /\ "del" \in Faults
          /\ status' = [status EXCEPT ![c] = IF cmd[c] = "DEL" THEN "ERR" ELSE "OK"]
          /\ UNCHANGED pf
    /\ pc' = [pc EXCEPT ![c] = "ack"]
    /\ UNCHANGED <<left, cmd, ttl, asked, todo, batch, gcBatch>>

\* The ACK is written and the handler goes back to conn.Read.
Reply(c) ==
    /\ pc[c] = "ack"
    /\ ClearHandlers({c})
    /\ UNCHANGED <<left, pf, gcBatch>>

-----------------------------------------------------------------------------
\* A tick of the collector that finds something: one PopExpired.  The popped
\* addresses are out of the tracker before any of them is out of the kernel.
CollectPop ==
    /\ gcBatch = {}
    /\ \E S \in SUBSET Entries : S # {} /\ PopExpired(S) /\ gcBatch' = S
    /\ UNCHANGED <<pf, handlerVars>>

\* One DelAddresses of the loop over expiredMap, whose order is random.  An
\* error is logged and the addresses are not retried.
DeleteOneTable(t) ==
    LET S == {a \in gcBatch : TableOf[a] = t}
    IN  /\ S # {}
        /\ pf' = pf \ S
        /\ gcBatch' = {}
        /\ UNCHANGED <<left, handlerVars>>

CollectDelete(t) ==
    LET S == {a \in gcBatch : TableOf[a] = t}
    IN  /\ S # {}
        /\ \/ pf' = pf \ S
           \/ "del" \in Faults /\ UNCHANGED pf
        /\ gcBatch' = gcBatch \ S
        /\ UNCHANGED <<left, handlerVars>>

\* An entry expires only after the ADD that created it reached its ioctl, which
\* takes microseconds where the TTL is at least a minute.  Stalls lifts this.
InTime ==
    \A c \in Conns : cmd[c] = "ADD" /\ pc[c] \in {"track", "add"} =>
        \A a \in batch[c] : left[a] # 1

Tick ==
    /\ Stalls \/ InTime
    /\ Elapse
    /\ UNCHANGED <<pf, handlerVars, gcBatch>>

\* A crash, or an exit by signal: the handlers are not waited for.  The new
\* process starts with an empty tracker and the kernel tables as they are.
Restart ==
    /\ Restarts
    /\ left' = [a \in Entries |-> Untracked]
    /\ ClearHandlers(Conns)
    /\ gcBatch' = {}
    /\ UNCHANGED pf

-----------------------------------------------------------------------------
HandlerStep(c) ==
    \/ Register(c) \/ Install(c) \/ Forget(c) \/ Forfeit(c) \/ Remove(c) \/ Reply(c)

Collect == CollectPop \/ \E t \in Tables : CollectDelete(t)

DaemonNext ==
    \/ \E c \in Conns : ReceiveAdd(c) \/ ReceiveDel(c) \/ ReceiveFlush(c)
    \/ \E c \in Conns : HandlerStep(c)
    \/ Collect
    \/ Tick
    \/ Restart

DaemonSpec == DaemonInit /\ [][DaemonNext]_daemonVars

(***************************************************************************)
(* Fairness.  The Go scheduler runs every ready goroutine, so a handler    *)
(* that got a request and the loop over expiredMap always go on.  The      *)
(* collector wakes on every ticker period, and PopExpired takes the oldest *)
(* ExpireAt first, so an expired entry is not passed over for ever by      *)
(* younger ones: strong fairness per entry.  Time passes whatever the      *)
(* daemon does; the guard of Tick only says what is finished before.       *)
(* Clients owe nothing: there is no fairness on the requests.              *)
(***************************************************************************)
DaemonFairness ==
    /\ \A c \in Conns : WF_daemonVars(HandlerStep(c))
    /\ \A t \in Tables : WF_daemonVars(CollectDelete(t))
    /\ \A a \in Entries : SF_daemonVars(CollectPop /\ a \in gcBatch')
    /\ SF_daemonVars(Tick)

FairDaemonSpec == DaemonSpec /\ DaemonFairness

-----------------------------------------------------------------------------
\* Addresses on their way out of the kernel: popped by the collector, named by
\* a DEL that is not done, or returned by a tracker.Flush that is not done.
Removing ==
    gcBatch \cup {a \in Entries : \E c \in Conns :
                    \/ cmd[c] = "DEL" /\ pc[c] \in {"track", "del"} /\ a \in asked[c]
                    \/ cmd[c] = "FLUSH" /\ pc[c] = "del" /\ a \in batch[c]}

\* Addresses on their way in: tracked as new by an ADD before its ioctl.
InstalledBy(c) ==
    IF cmd[c] = "ADD" /\ pc[c] \in {"track", "add"} THEN batch[c] ELSE {}

Installing == {a \in Entries : \E c \in Conns : a \in InstalledBy(c)}

\* In the kernel with nobody left to remove it: no TTL, no removal under way.
Leaked == pf \ (Tracked \cup Removing)

\* Tracked, so that the next ADD will not install it, and not in the kernel.
Missing == Tracked \ (pf \cup Installing)

(***************************************************************************)
(* An address leaks out of the tracker's control in three ways only: the   *)
(* daemon restarts, a DIOCRDELADDRS on it fails, or an ADD reaches its     *)
(* ioctl after the entry it created was deleted, flushed or collected.  No *)
(* other interleaving of handlers and collector leaves one behind.         *)
(***************************************************************************)
LeakExplained ==
    \/ Restart
    \/ \A a \in Leaked' \ Leaked :
         \/ "del" \in Faults /\ a \in Removing /\ UNCHANGED pf
         \/ \E c \in Conns : pc[c] = "add" /\ a \in batch[c] \ Tracked

NoSilentLeak == [][LeakExplained]_daemonVars

(***************************************************************************)
(* A tracked address goes missing from the kernel in two ways only: the    *)
(* ioctl of the ADD that created the entry fails, or a removal decided     *)
(* before the entry was created lands after it.                            *)
(***************************************************************************)
LossExplained ==
    \A a \in Missing' \ Missing :
      \/ "add" \in Faults /\ a \in Installing /\ UNCHANGED pf
      \/ a \in Tracked \cap Removing \cap pf

NoSilentLoss == [][LossExplained]_daemonVars

(***************************************************************************)
(* With clients that only ADD, as the DNS plugins do, no failing ioctl, no *)
(* restart and handlers faster than a TTL, the two ways out above are      *)
(* closed: every address in the kernel has an entry that will expire, or   *)
(* is in the batch the collector is deleting.                              *)
(***************************************************************************)
NoOrphan == pf \subseteq Tracked \cup gcBatch

(***************************************************************************)
(* Under the same conditions two handlers never both take an address for   *)
(* new: AddOrRenew tests and sets under one lock, so one ioctl installs it.*)
(***************************************************************************)
SingleInstaller ==
    \A c, d \in Conns : c # d => InstalledBy(c) \cap InstalledBy(d) = {}

(***************************************************************************)
(* An address clients stop asking for leaves the kernel for good, however  *)
(* the collector's batches and the requests for other addresses interleave.*)
(***************************************************************************)
Wanted(a) == \E c \in Conns : pc[c] # "read" /\ a \in asked[c]

EventuallyEvicted ==
    \A a \in Entries : <>[](~Wanted(a)) => <>[](a \notin pf)

(***************************************************************************)
(* Every request is answered: a handler that takes one reaches its ACK.    *)
(***************************************************************************)
EveryRequestAcked == \A c \in Conns : pc[c] = "track" ~> pc[c] = "ack"

(***************************************************************************)
(* README, GC: only expired addresses are evicted.  An address whose entry *)
(* is alive, and that no handler is about to install again, is not taken   *)
(* out of the kernel by the collector.                                     *)
(***************************************************************************)
OnlyExpiredEvicted ==
    [][\A a \in pf \ pf' : a \in Tracked \ Installing => left[a] = 0]_daemonVars
=============================================================================
