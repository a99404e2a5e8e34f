-------------------------- MODULE MCProjectTransfer --------------------------
(* What happens around one move, a few kinds of event at a time. *)
EXTENDS ProjectTransfer

Some(turns, edits, pauses, changes, keys, crashes, restores) ==
    [turns |-> turns, edits |-> edits, pauses |-> pauses, changes |-> changes, keys |-> keys,
     crashes |-> crashes, restores |-> restores]

Bounds == {Some(1, 2, 0, 0, 0, 1, 0), Some(2, 0, 1, 0, 0, 0, 0), Some(0, 1, 0, 1, 1, 1, 0),
           Some(0, 0, 0, 0, 0, 1, 1), Some(0, 0, 0, 0, 1, 0, 1), Some(0, 0, 0, 0, 0, 2, 0)}
=============================================================================
