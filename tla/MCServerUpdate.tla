---------------------------- MODULE MCServerUpdate ----------------------------
(* Two roots, and updates that commit, roll back or abort. *)
EXTENDS ServerUpdate
=============================================================================
