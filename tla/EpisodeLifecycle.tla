-------------------------- MODULE EpisodeLifecycle --------------------------
(***************************************************************************)
(* What an episode promises whoever authorized it: it spends at most the   *)
(* invocations it was given, only while it is running; it is fenced once,  *)
(* by Stop or by one ending; it ends as that fence says and stays ended.   *)
(***************************************************************************)
EXTENDS Naturals

CONSTANTS Episodes, Ceiling, Endings, StatusOf

VARIABLES status, spent, ending

lifecycleVars == <<status, spent, ending>>

Live == {"running", "stopping", "wrapping_up"}

Init ==
    /\ status = [e \in Episodes |-> "none"]
    /\ spent = [e \in Episodes |-> 0]
    /\ ending = [e \in Episodes |-> "none"]

(* One episode is live at a time; authorizing it pays its first invocation. *)
Authorize(e) ==
    /\ status[e] = "none" /\ \A f \in Episodes : status[f] \notin Live
    /\ status' = [status EXCEPT ![e] = "running"]
    /\ spent' = [spent EXCEPT ![e] = 1]
    /\ UNCHANGED ending

Spend(e) ==
    /\ status[e] = "running" /\ spent[e] < Ceiling
    /\ spent' = [spent EXCEPT ![e] = @ + 1]
    /\ UNCHANGED <<status, ending>>

Stop(e) ==
    /\ status[e] = "running"
    /\ status' = [status EXCEPT ![e] = "stopping"]
    /\ UNCHANGED <<spent, ending>>

Fence(e) ==
    /\ status[e] = "running"
    /\ \E x \in Endings \ {"stopped"} : ending' = [ending EXCEPT ![e] = x]
    /\ status' = [status EXCEPT ![e] = "wrapping_up"]
    /\ UNCHANGED spent

Settle(e) ==
    /\ \/ /\ status[e] = "stopping"
          /\ ending' = [ending EXCEPT ![e] = "stopped"]
       \/ /\ status[e] = "wrapping_up"
          /\ UNCHANGED ending
    /\ status' = [status EXCEPT ![e] = StatusOf[ending'[e]]]
    /\ UNCHANGED spent

(* Stop on an episode with nothing to wait for is asked and settled in one step. *)
StopNow(e) ==
    /\ status[e] = "running"
    /\ status' = [status EXCEPT ![e] = "stopped"]
    /\ ending' = [ending EXCEPT ![e] = "stopped"]
    /\ UNCHANGED spent

Next == \E e \in Episodes :
    Authorize(e) \/ Spend(e) \/ Stop(e) \/ Fence(e) \/ Settle(e) \/ StopNow(e)

Spec == Init /\ [][Next]_lifecycleVars
=============================================================================
