---------------------------- MODULE MCTrackerHeap ----------------------------
(* A small instance of TrackerHeap for TLC. *)
EXTENDS TrackerHeap

CONSTANTS b1, T1, T2

MCTableOf == [a \in Entries |-> IF a = b1 THEN T2 ELSE T1]

\* The addresses of table T1 can stand for each other.
MCSymmetry == Permutations(Entries \ {b1})
=============================================================================
