--------------------------- MODULE MCAgentDispatch ---------------------------
(* Instances of AgentDispatch for TLC. *)
EXTENDS AgentDispatch, TLC

CONSTANTS o1, o2, l1, l2

LauncherSymmetry == Permutations(Launchers)
=============================================================================
