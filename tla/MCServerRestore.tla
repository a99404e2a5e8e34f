---------------------------- MODULE MCServerRestore ----------------------------
(* Two projects and two members. *)
EXTENDS ServerRestore

CONSTANTS a1, a2, p1, p2, m1, m2
=============================================================================
