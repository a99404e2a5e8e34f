---------------------------- MODULE TaskLifecycle ----------------------------
(***************************************************************************)
(* What the task ledger promises its readers, with the engine left out: a  *)
(* row moves only along AGENT_TASK_TRANSITIONS, one admission (or one      *)
(* requeue of a hidden report) is given to at most one worker thread, and  *)
(* that thread begins at most one provider turn, while the row is live.    *)
(* AgentDispatch is shown to implement this specification.                 *)
(***************************************************************************)
EXTENDS Naturals

CONSTANTS Ops,      \* operation ids of graph_runs rows
          Reports   \* the hidden episode_report allocations among them

ASSUME ReportsAreOps == Reports \subseteq Ops

VARIABLES status,   \* graph_runs.status, "none" before the row is inserted
          runs,     \* worker threads begun since admission or last requeue
          turns     \* provider turns begun since admission or last requeue

lifecycleVars == <<status, runs, turns>>

Active == {"queued", "running", "pausing"}
Settled == {"paused", "succeeded", "failed", "interrupted"}
Statuses == Active \cup Settled \cup {"none"}

(* AGENT_TASK_TRANSITIONS: the statuses each target may be entered from. *)
AGENT_TASK_TRANSITIONS ==
    [to \in {"running", "pausing"} \cup Settled |->
        IF to = "running" THEN {"queued"}
        ELSE IF to = "pausing" THEN {"queued", "running"}
        ELSE Active]

(***************************************************************************)
(* The guarded compare-and-set every status change of a row goes through:  *)
(* a refused transition leaves the row as it is.                           *)
(***************************************************************************)
Transition(s, to) == IF s \in AGENT_TASK_TRANSITIONS[to] THEN to ELSE s

LifecycleInit ==
    /\ status = [o \in Ops |-> "none"]
    /\ runs = [o \in Ops |-> 0]
    /\ turns = [o \in Ops |-> 0]

Insert(o) ==
    /\ status[o] = "none"
    /\ status' = [status EXCEPT ![o] = "queued"]
    /\ UNCHANGED <<runs, turns>>

Begin(o) ==
    /\ runs[o] = 0
    /\ status[o] \in Active
    /\ runs' = [runs EXCEPT ![o] = 1]
    /\ UNCHANGED <<status, turns>>

Turn(o) ==
    /\ runs[o] = 1
    /\ turns[o] = 0
    /\ status[o] \in {"running", "pausing"}
    /\ turns' = [turns EXCEPT ![o] = 1]
    /\ UNCHANGED <<status, runs>>

Move(o, to) ==
    /\ status[o] \in AGENT_TASK_TRANSITIONS[to]
    /\ status' = [status EXCEPT ![o] = to]
    /\ UNCHANGED <<runs, turns>>

(* A restart settles, in one transaction, any set of live rows at once. *)
InterruptAll(S) ==
    /\ \A o \in S : status[o] \in Active
    /\ status' = [o \in Ops |-> IF o \in S THEN "interrupted" ELSE status[o]]
    /\ UNCHANGED <<runs, turns>>

Requeue(o) ==
    /\ o \in Reports
    /\ status[o] \in {"interrupted", "paused"}
    /\ status' = [status EXCEPT ![o] = "queued"]
    /\ runs' = [runs EXCEPT ![o] = 0]
    /\ turns' = [turns EXCEPT ![o] = 0]

LifecycleNext ==
    \/ \E o \in Ops :
          \/ Insert(o)
          \/ Begin(o)
          \/ Turn(o)
          \/ Requeue(o)
          \/ \E to \in {"running", "pausing"} \cup Settled : Move(o, to)
    \/ \E S \in SUBSET Ops : InterruptAll(S)

LifecycleSpec == LifecycleInit /\ [][LifecycleNext]_lifecycleVars
=============================================================================
