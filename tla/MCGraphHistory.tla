--------------------------- MODULE MCGraphHistory ---------------------------
(* Instances of GraphHistory for TLC. *)
EXTENDS GraphHistory, TLC

CONSTANTS a, b

Unclaimed == [r \in 1..MaxRevision |-> NoPatch]
=============================================================================
