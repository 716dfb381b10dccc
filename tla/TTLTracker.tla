------------------------------ MODULE TTLTracker ------------------------------
(***************************************************************************)
(* What pkg/ttlcleaner promises its caller: a set of addresses, each with  *)
(* the time it has left to live.  The heap that implements it is the       *)
(* module TrackerHeap, which is shown to implement Spec below.             *)
(*                                                                         *)
(* An entry is one IP address in one PF table, so the two-level Go map     *)
(* tables[table][ip] is the function left.  Time is relative: left[a] is   *)
(* ExpireAt - now in ticks, 0 from the moment !ExpireAt.After(now) holds.  *)
(* The code compares ExpireAt with now and with another ExpireAt in the    *)
(* future, and both comparisons survive cutting the remainder at 0.        *)
(***************************************************************************)
EXTENDS Integers, FiniteSets

CONSTANTS
    Entries,    \* the addresses: one element per (table, IP) pair
    Tables,     \* the PF tables
    TableOf,    \* the table of each entry
    TTLs,       \* the TTLs, in ticks, that requests carry
    MaxBatch    \* -gc-batch: the most entries one PopExpired returns

ASSUME TrackerAssumption ==
    /\ TableOf \in [Entries -> Tables]
    /\ TTLs \subseteq Nat
    /\ MaxBatch \in Nat \ {0}

VARIABLE left

Untracked == -1

\* The entries the tracker holds (the keys of the Go map), and those of them
\* that have expired.
Tracked == {a \in Entries : left[a] # Untracked}
Expired == {a \in Entries : left[a] = 0}

Larger(m, n) == IF m < n THEN n ELSE m

-----------------------------------------------------------------------------
NewTracker == left = [a \in Entries |-> Untracked]

\* A renewal only ever moves ExpireAt further away.
AddOrRenew(a, ttl) == left' = [left EXCEPT ![a] = Larger(left[a], ttl)]

Delete(a) == left' = [left EXCEPT ![a] = Untracked]

\* The entries of table t the tracker drops and hands back.
FlushSet(t) == {a \in Tracked : TableOf[a] = t}

Drop(S) == left' = [a \in Entries |-> IF a \in S THEN Untracked ELSE left[a]]

Flush(t) == Drop(FlushSet(t))

\* One PopExpired hands out expired entries, MaxBatch at most.  It may leave
\* some behind: the batch is full, or the now it compares with is the time at
\* which the ticker fired and the clock has moved on.  Which ones it takes, the
\* earliest ExpireAt first, is a property of TrackerHeap.
Poppable(S) == S \subseteq Expired /\ Cardinality(S) <= MaxBatch

PopWithTable(S) ==
    Poppable(S) /\ Drop({a \in Entries : \E b \in S : TableOf[a] = TableOf[b]})

PopExpired(S) == Poppable(S) /\ Drop(S)

\* The passing of one tick.
Elapse ==
    left' = [a \in Entries |-> IF left[a] > 0 THEN left[a] - 1 ELSE left[a]]

-----------------------------------------------------------------------------
Next ==
    \/ \E a \in Entries, ttl \in TTLs : AddOrRenew(a, ttl)
    \/ \E a \in Entries : Delete(a)
    \/ \E t \in Tables : Flush(t)
    \/ \E S \in SUBSET Entries : PopExpired(S)
    \/ Elapse

TrackerSpec == NewTracker /\ [][Next]_left

TrackerTypeOK == left \in [Entries -> Nat \cup {Untracked}]
=============================================================================
