---------------------------- MODULE MCMemberWork ----------------------------
(* Two people at work on one project and a third who may join them. *)
EXTENDS MemberWork

CONSTANTS m1, m2, m3, p1, b, c1, o1, o2, e1, r1, r2

Pair == <<m1, m2>>

Some(edits, turns, runs, removals, pauses, uploads, expiries, restarts) ==
    [edits |-> edits, turns |-> turns, runs |-> runs, removals |-> removals, pauses |-> pauses,
     uploads |-> uploads, expiries |-> expiries, restarts |-> restarts]

(* People come and go; work is removed under them; files are sent. *)
Bounds == {Some(4, 0, 0, 1, 0, 0, 0, 0),
           Some(0, 1, 1, 1, 0, 0, 0, 0), Some(0, 0, 1, 1, 1, 0, 0, 1), Some(0, 1, 0, 1, 1, 0, 0, 1),
           Some(0, 2, 0, 0, 1, 1, 0, 0), Some(0, 2, 0, 0, 0, 2, 1, 1)}
=============================================================================
