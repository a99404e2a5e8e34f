--------------------------- MODULE MCBranchMerge ----------------------------
EXTENDS BranchMerge, TLC

Some(e, w, f, c) == [edits |-> e, writes |-> w, faults |-> f, crashes |-> c]

(* A publication lost or landing late between two merges of one head; a
   branch written again beside a merge; main moving more often than a merge
   rebases; a crash between the patch and its receipt. *)
Bounds == {Some(1, 1, 1, 0), Some(0, 1, 1, 1), Some(2, 1, 0, 0), Some(0, 2, 1, 0)}
=============================================================================
