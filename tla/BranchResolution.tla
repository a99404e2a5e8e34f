-------------------------- MODULE BranchResolution --------------------------
(***************************************************************************)
(* What the merge of a graph branch promises: the merge of one head of the *)
(* branch is decided once, either by one patch of main or by the statement *)
(* that a head of main needs none, and the decision stands.                *)
(***************************************************************************)
EXTENDS Naturals

CONSTANTS Heads, Revisions

VARIABLE resolution

Open == [outcome |-> "open", revision |-> 0]
Decisions == [outcome : {"committed", "no_change"}, revision : Revisions]

ResolutionInit == resolution = [h \in Heads |-> Open]

Decide(h) ==
    /\ resolution[h] = Open
    /\ resolution'[h] \in Decisions
    /\ resolution' = [resolution EXCEPT ![h] = resolution'[h]]

ResolutionNext == \E h \in Heads : Decide(h)

ResolutionSpec == ResolutionInit /\ [][ResolutionNext]_resolution
=============================================================================
