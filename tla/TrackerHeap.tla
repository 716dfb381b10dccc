------------------------------ MODULE TrackerHeap -----------------------------
(***************************************************************************)
(* pkg/ttlcleaner/tracker.go as it is built: a map from table and address  *)
(* to an entry, and a binary heap of the same entries ordered by ExpireAt, *)
(* in which every entry knows its own index so that a renewal or a delete  *)
(* can find it.  The heap algorithms are those of container/heap.          *)
(*                                                                         *)
(* Each method holds the mutex from its first line to its last.  A step is *)
(* one iteration of a loop: of the two that sift an entry up or down the   *)
(* heap, and of those of PopExpired and Flush around them.  Time is        *)
(* absolute here, passes meanwhile, and clock is time.Now().               *)
(***************************************************************************)
EXTENDS Integers, Sequences, FiniteSets, SequencesExt

CONSTANTS
    Entries, Tables, TableOf, TTLs, MaxBatch,   \* as in TTLTracker
    MaxTime,    \* bound: the clock stops here
    MaxCalls    \* bound: the number of AddOrRenew calls

ASSUME HeapAssumption ==
    /\ TableOf \in [Entries -> Tables]
    /\ TTLs \subseteq Nat
    /\ MaxBatch \in Nat \ {0}
    /\ MaxTime \in Nat /\ MaxCalls \in Nat

VARIABLES
    clock,
    tables,         \* tables[t]: the entries of the map of table t
    expireAt,       \* ExpireAt of each entry in a map
    pq, index,      \* the heap, and the back pointers into it
    op,             \* the method that holds the mutex
    pc,             \* where it is
    from, at,       \* in a sift: where it began, and where the entry is
    now,            \* PopExpired: its argument
    todo,           \* Delete, Flush: the entries still to be removed
    gone,           \* the entries it has taken out of the heap
    totalAdded, totalRenewed, totalExpired, totalDeleted

totals == <<totalAdded, totalRenewed, totalExpired, totalDeleted>>

maps == <<tables, expireAt>>

args == <<now, todo, gone>>

heapVars == <<clock, maps, pq, index, op, pc, from, at, args, totals>>

NoIndex == -1

Present == UNION {tables[t] : t \in Tables}

Removes == {"Delete", "Flush"}

HeapTypeOK ==
    /\ clock \in 0..MaxTime
    /\ tables \in [Tables -> SUBSET Entries]
    /\ expireAt \in [Entries -> Nat]
    /\ pq \in Seq(Entries)
    /\ index \in [Entries -> Nat \cup {NoIndex}]
    /\ op \in {"none", "AddOrRenew", "PopExpired"} \cup Removes
    /\ pc \in {"idle", "loop", "down", "up", "cut"}
    /\ from \in Nat /\ at \in Nat /\ now \in Nat
    /\ todo \subseteq Entries /\ gone \subseteq Entries
    /\ \A n \in {totalAdded, totalRenewed, totalExpired, totalDeleted} : n \in Nat

HeapInit ==
    /\ clock = 0
    /\ tables = [t \in Tables |-> {}]
    /\ expireAt = [a \in Entries |-> 0]
    /\ pq = <<>> /\ index = [a \in Entries |-> NoIndex]
    /\ op = "none" /\ pc = "idle" /\ from = 0 /\ at = 0
    /\ now = 0 /\ todo = {} /\ gone = {}
    /\ totalAdded = 0 /\ totalRenewed = 0 /\ totalExpired = 0 /\ totalDeleted = 0

-----------------------------------------------------------------------------
(***************************************************************************)
(* entryHeap and container/heap.  Positions count from 1, so the parent of *)
(* i is i \div 2.  A removal first swaps the entry to the last position,   *)
(* which the sift after it leaves alone.                                   *)
(***************************************************************************)
Time(i) == expireAt[pq[i]]

Less(i, j) == Time(i) < Time(j)

SwapOneIndex(i, j) ==
    /\ pq' = [pq EXCEPT ![i] = pq[j], ![j] = pq[i]]
    /\ index' = [index EXCEPT ![pq[j]] = i]

Swap(i, j) ==
    /\ pq' = [pq EXCEPT ![i] = pq[j], ![j] = pq[i]]
    /\ index' = [index EXCEPT ![pq[j]] = i, ![pq[i]] = j]

Sifted == IF op = "AddOrRenew" THEN Len(pq) ELSE Len(pq) - 1

EarlierChild(i) == IF 2 * i + 1 <= Sifted /\ Less(2 * i + 1, 2 * i) THEN 2 * i + 1 ELSE 2 * i

Sinks == 2 * at <= Sifted /\ Less(EarlierChild(at), at)

Rises == at > 1 /\ Less(at, at \div 2)

StartSift(where, i) == pc' = where /\ from' = i /\ at' = i

Return ==
    /\ op' = "none" /\ pc' = "idle" /\ from' = 0 /\ at' = 0
    /\ now' = 0 /\ todo' = {} /\ gone' = {}

\* The order is restored; a removal goes on.
EndSift ==
    IF op = "AddOrRenew" THEN Return
    ELSE pc' = "cut" /\ from' = 0 /\ at' = 0 /\ UNCHANGED <<op, args>>

SiftStep(i) == Swap(at, i) /\ at' = i /\ UNCHANGED <<op, pc, from, args>>

\* down: swap with the earlier child while that is earlier.  It tells whether the
\* entry has moved; if not, the entry may have to go up (heap.Pop omits the call of
\* up, which does nothing at the top).
Down ==
    /\ pc = "down"
    /\ IF Sinks THEN SiftStep(EarlierChild(at))
       ELSE /\ UNCHANGED <<pq, index>>
            /\ IF at = from THEN pc' = "up" /\ UNCHANGED <<op, from, at, args>> ELSE EndSift
    /\ UNCHANGED <<clock, maps, totals>>

\* up: swap with the parent while it is later.
Up ==
    /\ pc = "up"
    /\ IF Rises THEN SiftStep(at \div 2) ELSE UNCHANGED <<pq, index>> /\ EndSift
    /\ UNCHANGED <<clock, maps, totals>>

-----------------------------------------------------------------------------
\* AddOrRenew of a present entry: ExpireAt moves only later, and the call counts
\* as a renewal either way.
SetAndFix(a, ttl) ==
    /\ expireAt' = [expireAt EXCEPT ![a] = clock + ttl]
    /\ op' = "AddOrRenew" /\ StartSift("down", index[a])

Overwrite(a, ttl) == SetAndFix(a, ttl)

ExtendInPlace(a, ttl) ==
    /\ expireAt' = [expireAt EXCEPT ![a] = IF clock + ttl > @ THEN clock + ttl ELSE @]
    /\ UNCHANGED <<op, pc, from, at>>

Extend(a, ttl) ==
    IF clock + ttl > expireAt[a] THEN SetAndFix(a, ttl)
    ELSE UNCHANGED <<expireAt, op, pc, from, at>>

Renew(a, ttl) ==
    /\ a \in tables[TableOf[a]]
    /\ Extend(a, ttl)
    /\ totalRenewed' = totalRenewed + 1
    /\ UNCHANGED <<clock, tables, pq, index, args, totalAdded, totalExpired, totalDeleted>>

NewIndex == Len(pq) + 1

\* The entry goes to the end of the heap, from where up finds its place.
Add(a, ttl) ==
    /\ a \notin tables[TableOf[a]]
    /\ expireAt' = [expireAt EXCEPT ![a] = clock + ttl]
    /\ tables' = [tables EXCEPT ![TableOf[a]] = @ \cup {a}]
    /\ pq' = Append(pq, a) /\ index' = [index EXCEPT ![a] = NewIndex]
    /\ op' = "AddOrRenew" /\ StartSift("up", NewIndex)
    /\ totalAdded' = totalAdded + 1
    /\ UNCHANGED <<clock, args, totalRenewed, totalExpired, totalDeleted>>

AddOrRenew(a, ttl) ==
    /\ op = "none"
    /\ totalAdded + totalRenewed < MaxCalls
    /\ Renew(a, ttl) \/ Add(a, ttl)

-----------------------------------------------------------------------------
\* The entries of S leave the maps; their ExpireAt goes with them.
Unmap(S) ==
    /\ tables' = [t \in Tables |-> tables[t] \ S]
    /\ expireAt' = [a \in Entries |-> IF a \in S THEN 0 ELSE expireAt[a]]

Begin(method) ==
    /\ op = "none" /\ op' = method /\ pc' = "loop"
    /\ UNCHANGED <<clock, maps, pq, index, from, at, gone, totals>>

\* The top of the heap has expired at time t.
Due(t) == pq # <<>> /\ Time(1) <= t

\* t is the time the ticker fired, which is not after the clock.  With nothing due
\* the call does nothing.
PopExpired(t) == Due(t) /\ Begin("PopExpired") /\ now' = t /\ UNCHANGED todo

\* Delete of an entry that is there; of one that is not, it does nothing.
Delete(a) ==
    /\ a \in tables[TableOf[a]]
    /\ Begin("Delete") /\ todo' = {a} /\ UNCHANGED now

Flush(t) ==
    /\ tables[t] # {}
    /\ Begin("Flush") /\ todo' = tables[t] /\ UNCHANGED now

\* heap.Pop, while the batch has room and the top is not after now.
Room == Cardinality(gone) < MaxBatch

Pop ==
    /\ pc = "loop" /\ op = "PopExpired" /\ Room /\ Due(now)
    /\ Swap(1, Len(pq)) /\ StartSift("down", 1)
    /\ UNCHANGED <<clock, maps, op, args, totals>>

PopReturn ==
    /\ pc = "loop" /\ op = "PopExpired" /\ ~(Room /\ Due(now))
    /\ Return
    /\ UNCHANGED <<clock, maps, pq, index, totals>>

\* heap.Remove, of the entries of a table in the random order in which Go ranges over
\* a map.
HeapRemove(a) ==
    /\ pc = "loop" /\ a \in todo
    /\ todo' = todo \ {a}
    /\ IF index[a] = Len(pq) THEN pc' = "cut" /\ UNCHANGED <<pq, index, from, at>>
       ELSE Swap(index[a], Len(pq)) /\ StartSift("down", index[a])
    /\ UNCHANGED <<clock, maps, op, now, gone, totals>>

\* The map lets go of the entries when all are out of the heap.
RemoveReturn ==
    /\ pc = "loop" /\ op \in Removes /\ todo = {}
    /\ Unmap(gone)
    /\ Return
    /\ UNCHANGED <<clock, pq, index, totals>>

CountNoFlush == IF op = "Delete" THEN 1 ELSE 0

CountRemoved == IF op \in Removes THEN 1 ELSE 0

\* entryHeap.Pop cuts off the last position, and the method accounts for the entry.
Cut ==
    /\ pc = "cut" /\ pc' = "loop"
    /\ pq' = Front(pq) /\ index' = [index EXCEPT ![Last(pq)] = NoIndex]
    /\ gone' = gone \cup {Last(pq)}
    /\ IF op = "PopExpired"
       THEN Unmap({Last(pq)}) /\ totalExpired' = totalExpired + 1
       ELSE UNCHANGED <<maps, totalExpired>>
    /\ totalDeleted' = totalDeleted + CountRemoved
    /\ UNCHANGED <<clock, op, from, at, now, todo, totalAdded, totalRenewed>>

Elapse ==
    /\ clock < MaxTime
    /\ clock' = clock + 1
    /\ UNCHANGED <<maps, pq, index, op, pc, from, at, args, totals>>

HeapNext ==
    \/ \E a \in Entries, ttl \in TTLs : AddOrRenew(a, ttl)
    \/ \E t \in 0..clock : PopExpired(t)
    \/ \E a \in Entries : Delete(a) \/ HeapRemove(a)
    \/ \E t \in Tables : Flush(t)
    \/ Pop \/ PopReturn \/ RemoveReturn
    \/ Down \/ Up \/ Cut
    \/ Elapse

HeapSpec == HeapInit /\ [][HeapNext]_heapVars

-----------------------------------------------------------------------------
(***************************************************************************)
(* The two halves of the tracker agree when the mutex is free: the heap    *)
(* holds exactly the mapped entries, each once, at the position its back   *)
(* pointer names, and every position is no earlier than its parent.        *)
(***************************************************************************)
HeapConsistent ==
    /\ HeapTypeOK
    /\ op = "none" =>
         /\ Len(pq) = Cardinality(Present)
         /\ \A a \in Entries :
              IF a \in Present THEN index[a] \in 1..Len(pq) /\ pq[index[a]] = a
                               ELSE index[a] = NoIndex
         /\ \A i \in 2..Len(pq) : ~Less(i, i \div 2)

(***************************************************************************)
(* Metrics: every entry ever added is active, was counted as expired or    *)
(* was counted as deleted, once.  The counter is put together with the     *)
(* append or the cut it goes with: both are under the mutex.               *)
(***************************************************************************)
MetricsConserved == totalAdded = Len(pq) + totalExpired + totalDeleted

(***************************************************************************)
(* A collection never takes an entry and leaves an older one: under a      *)
(* backlog larger than the batch nothing starves.                          *)
(***************************************************************************)
OldestFirst ==
    [][totalExpired' > totalExpired =>
         \A a \in Present \ Present', b \in Present' :
            expireAt[a] <= expireAt[b]]_heapVars

(***************************************************************************)
(* The heap implements the abstract tracker the daemon is modelled with.   *)
(* There a method is one step: AddOrRenew when ExpireAt has been written,  *)
(* the others when they return.  Until then the entries PopExpired has     *)
(* popped still count as held, expired.                                    *)
(***************************************************************************)
Held == Present \cup IF op = "PopExpired" THEN gone ELSE {}

LeftOf(a) ==
    IF a \notin Held THEN -1
    ELSE IF expireAt[a] > clock THEN expireAt[a] - clock ELSE 0

Abstract == INSTANCE TTLTracker WITH left <- [a \in Entries |-> LeftOf(a)]

ImplementsTracker == Abstract!TrackerSpec
=============================================================================
