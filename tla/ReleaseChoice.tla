---------------------------- MODULE ReleaseChoice ----------------------------
(***************************************************************************)
(* What a source update promises: one release at a time answers for the    *)
(* data; while the choice between it and a candidate is pending nothing is *)
(* accepted; and a candidate that has been chosen is never taken back.     *)
(***************************************************************************)
EXTENDS Naturals

VARIABLES
    chosen,   \* the release that answers for the data
    pending,  \* the candidate under trial, 0 when there is none
    log       \* changes accepted so far

choiceVars == <<chosen, pending, log>>

Init == chosen \in Nat \ {0} /\ pending = 0 /\ log = 0

(* A candidate is always newer than what it would replace. *)
Try ==
    /\ pending = 0
    /\ pending' > chosen
    /\ UNCHANGED <<chosen, log>>

Take == pending # 0 /\ chosen' = pending /\ pending' = 0 /\ UNCHANGED log
Keep == pending # 0 /\ pending' = 0 /\ UNCHANGED <<chosen, log>>
Accept == pending = 0 /\ log' = log + 1 /\ UNCHANGED <<chosen, pending>>

Next == Try \/ Take \/ Keep \/ Accept

Spec == Init /\ [][Next]_choiceVars
=============================================================================
