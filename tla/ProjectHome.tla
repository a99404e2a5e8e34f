----------------------------- MODULE ProjectHome -----------------------------
(***************************************************************************)
(* What moving a project between spaces promises: the project is written   *)
(* in one space at a time, leaves it once, and arrives with everything     *)
(* that was ever written, or has not arrived.                              *)
(***************************************************************************)
EXTENDS Naturals

VARIABLES
    place,    \* "source", "between" or "target"
    written,  \* the head of the project's history
    arrived   \* the head the target opened the project at, 0 before that

homeVars == <<place, written, arrived>>

Init == place = "source" /\ written \in Nat \ {0} /\ arrived = 0

Write == place = "source" /\ written' = written + 1 /\ UNCHANGED <<place, arrived>>

(* The departure is itself the last entry of the history. *)
Depart == place = "source" /\ place' = "between" /\ written' = written + 1 /\ UNCHANGED arrived

Arrive == place = "between" /\ place' = "target" /\ arrived' = written /\ UNCHANGED written

Next == Write \/ Depart \/ Arrive

Spec == Init /\ [][Next]_homeVars
=============================================================================
