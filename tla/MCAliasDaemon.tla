---------------------------- MODULE MCAliasDaemon ----------------------------
(* Small instances of AliasDaemon for TLC. *)
EXTENDS AliasDaemon, TLC

CONSTANTS a1, a2, b1, T1, T2

\* a1 and a2 are in table T1, b1 is in table T2.
MCTableOf == [a \in Entries |-> IF a = b1 THEN T2 ELSE T1]

ConnSymmetry == Permutations(Conns)
=============================================================================
