--------------------------- MODULE MCAliasPipeline ---------------------------
(* Small instances of AliasPipeline for TLC: one table, as one plugin has. *)
EXTENDS AliasPipeline, TLC

CONSTANT T1

MCTableOf == [a \in Entries |-> T1]
=============================================================================
