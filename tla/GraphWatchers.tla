---------------------------- MODULE GraphWatchers ----------------------------
(***************************************************************************)
(* Graph-condition watchers of one graph target: arming against a graph    *)
(* read earlier, reconciliation of the accepted boundaries behind the      *)
(* durable target head (graph_watcher_reconciliation), the per-project     *)
(* lock, the retry registry, process death and the startup sweep.          *)
(*                                                                         *)
(* A boundary is one accepted graph revision, reduced to the watched node: *)
(* its state after the transition, whether the transition's trace holds an *)
(* event that sets the awaited status, and whether a proposal about the    *)
(* node is resolved at that revision.                                      *)
(***************************************************************************)
EXTENDS Integers, Sequences

CONSTANTS Watchers,     \* graph watcher ids
          Proposals,    \* watchers of a proposal_resolved condition, the others
                        \* await a node status
          InTurn,       \* watchers armed by an Auto-research watch_graph command
          Callers,      \* threads that call evaluate_graph_wake_boundary
          Retrier,      \* the graph watcher retry worker
          NoCaller,     \* the project's reconciliation lock is free
          Boundaries,   \* what an accepted revision may do to the watched node
          MaxRevision,  \* bound: accepted revisions
          MaxFaults,    \* bound: transient reconciliation errors
          MaxCrashes    \* bound: process deaths

ASSUME GraphWatchersAssumption ==
    /\ Proposals \subseteq Watchers
    /\ InTurn \subseteq Watchers
    /\ Retrier \notin Callers
    /\ NoCaller \notin Callers \cup {Retrier}
    /\ Boundaries \subseteq [node : {"open", "met", "absent"}, event : BOOLEAN,
                             resolved : BOOLEAN]
    /\ MaxRevision \in Nat /\ MaxFaults \in Nat /\ MaxCrashes \in Nat

VARIABLES
    hist,      \* accepted boundaries of the target, in revision order
    wst,       \* each watcher's status
    armed,     \* each watcher's armed_revision
    fired,     \* history: the boundary that decided the watcher
    consumed,  \* revision of the durable reconciliation head, 0 before its first row
    calls,     \* evaluation calls threads have yet to make
    cpc,       \* where each caller is in evaluate_graph_wake_boundary
    next,      \* the next boundary of each caller's pass
    upto,      \* the last boundary of each caller's pass
    lock,      \* holder of the project's reconciliation lock
    retry,     \* the project is in the retry registry
    up,        \* the process is running
    faults, crashes   \* spent bounds

vars == <<hist, wst, armed, fired, consumed, calls, cpc, next, upto, lock, retry, up,
          faults, crashes>>

Threads == Callers \cup {Retrier}
WatcherStates == {"none", "arming", "active", "completed", "removed", "stopped"}
CallerStates == {"idle", "due", "consuming", "succeeded", "failed"}

Init ==
    /\ hist = <<>>
    /\ wst = [w \in Watchers |-> "none"]
    /\ armed = [w \in Watchers |-> 0]
    /\ fired = [w \in Watchers |-> 0]
    /\ consumed = 0
    /\ calls = 0
    /\ cpc = [c \in Threads |-> "idle"]
    /\ next = [c \in Threads |-> 0]
    /\ upto = [c \in Threads |-> 0]
    /\ lock = NoCaller
    /\ retry = FALSE
    /\ up = TRUE
    /\ faults = 0 /\ crashes = 0

-----------------------------------------------------------------------------
(* The condition read off the state of revision r alone. *)
graph_condition_result(w, r) ==
    IF hist[r].node = "absent" THEN "removed"
    ELSE IF w \in Proposals
      THEN IF \E q \in armed[w] + 1 .. r : hist[q].resolved THEN "completed" ELSE "active"
      ELSE IF hist[r].node = "met" THEN "completed" ELSE "active"

(* A status event of the transition decides even if its final state does not
   show it; proposal conditions have no event. *)
graph_watcher_boundary_result(w, r) ==
    IF w \notin Proposals /\ hist[r].event THEN "completed" ELSE graph_condition_result(w, r)

(* Another writer's patch is accepted; a thread of this process that applied
   it owes an evaluation. *)
AcceptBoundary(b) ==
    /\ Len(hist) < MaxRevision
    /\ hist' = Append(hist, b)
    /\ calls' = IF up THEN calls + 1 ELSE calls
    /\ UNCHANGED <<wst, armed, fired, consumed, cpc, next, upto, lock, retry, up, faults,
                   crashes>>

(* The arming turn reads the canonical graph, in which the node must exist. *)
ReadsGraph(w) ==
    /\ up
    /\ wst[w] = "none"
    /\ hist # <<>>
    /\ hist[Len(hist)].node # "absent"
    /\ wst' = [wst EXCEPT ![w] = "arming"]
    /\ armed' = [armed EXCEPT ![w] = Len(hist)]
    /\ UNCHANGED <<hist, fired, consumed, calls, cpc, next, upto, lock, retry, up, faults,
                   crashes>>

(* Mutant: a row may be inserted behind the consumed boundary. *)
arm_BehindHead(w) ==
    /\ up
    /\ wst[w] = "arming"
    /\ wst' = [wst EXCEPT ![w] =
                 IF graph_condition_result(w, armed[w]) = "completed"
                   THEN "completed" ELSE "active"]
    /\ fired' = [fired EXCEPT ![w] = IF wst'[w] = "completed" THEN armed[w] ELSE 0]
    /\ calls' = IF w \notin InTurn \/ wst'[w] = "completed" THEN calls + 1 ELSE calls
    /\ UNCHANGED <<hist, armed, consumed, cpc, next, upto, lock, retry, up, faults, crashes>>

(* arm_watchers inserts the row, refused when the head has moved past the
   graph it was read from.  The settlement of a turn that armed a watcher
   evaluates the target; watch_graph does so only for a met condition. *)
arm_watchers(w) ==
    /\ up
    /\ wst[w] = "arming"
    /\ \/ /\ armed[w] >= consumed
          /\ wst' = [wst EXCEPT ![w] =
                       IF graph_condition_result(w, armed[w]) = "completed"
                         THEN "completed" ELSE "active"]
          /\ fired' = [fired EXCEPT ![w] = IF wst'[w] = "completed" THEN armed[w] ELSE 0]
          /\ calls' = IF w \notin InTurn \/ wst'[w] = "completed" THEN calls + 1 ELSE calls
          /\ UNCHANGED armed
       \/ /\ armed[w] < consumed
          /\ wst' = [wst EXCEPT ![w] = "none"]
          /\ armed' = [armed EXCEPT ![w] = 0]
          /\ UNCHANGED <<fired, calls>>
    /\ UNCHANGED <<hist, consumed, cpc, next, upto, lock, retry, up, faults, crashes>>

StopWatcher(w) ==
    /\ up
    /\ wst[w] \in {"active", "completed"}
    /\ wst' = [wst EXCEPT ![w] = "stopped"]
    /\ UNCHANGED <<hist, armed, fired, consumed, calls, cpc, next, upto, lock, retry, up,
                   faults, crashes>>

-----------------------------------------------------------------------------
(* A pass with no active watcher leaves the head where it is; otherwise it
   fixes the boundaries it will consume, from the head to the graph it saw. *)
BeginsPass(c) ==
    /\ IF \E w \in Watchers : wst[w] = "active"
         THEN /\ next' = [next EXCEPT ![c] = IF consumed = 0 THEN 1 ELSE consumed]
              /\ upto' = [upto EXCEPT ![c] = Len(hist)]
              /\ cpc' = [cpc EXCEPT ![c] = "consuming"]
              /\ lock' = c
         ELSE /\ cpc' = [cpc EXCEPT ![c] = "succeeded"]
              /\ UNCHANGED <<next, upto, lock>>
    /\ UNCHANGED <<hist, wst, armed, fired, consumed, retry, up, faults, crashes>>

evaluate_graph_wake_boundary(c) ==
    /\ up
    /\ c # Retrier
    /\ cpc[c] = "idle"
    /\ calls > 0
    /\ lock = NoCaller
    /\ calls' = calls - 1
    /\ BeginsPass(c)

(* retry_graph_wakes_after_poll: the registry keeps the project due until a
   pass succeeds; the pass itself begins later, under the project lock. *)
RetryDue ==
    /\ up
    /\ retry
    /\ cpc[Retrier] = "idle"
    /\ cpc' = [cpc EXCEPT ![Retrier] = "due"]
    /\ UNCHANGED <<hist, wst, armed, fired, consumed, calls, next, upto, lock, retry, up,
                   faults, crashes>>

RetryPass ==
    /\ up
    /\ cpc[Retrier] = "due"
    /\ lock = NoCaller
    /\ UNCHANGED calls
    /\ BeginsPass(Retrier)

(* What boundary r makes of each watcher it may decide. *)
Evaluated(r) ==
    {w \in Watchers : wst[w] = "active" /\ armed[w] < r
                      /\ graph_watcher_boundary_result(w, r) # "active"}

(* One transaction: every watcher armed before r is evaluated and the head
   moves to r, or nothing is written for a boundary already consumed. *)
consume_graph_watcher_boundary(c) ==
    LET r == next[c] IN
    /\ up
    /\ cpc[c] = "consuming"
    /\ r <= upto[c]
    /\ IF consumed < r
         THEN /\ wst' = [w \in Watchers |->
                           IF w \in Evaluated(r) THEN graph_watcher_boundary_result(w, r)
                                                 ELSE wst[w]]
              /\ fired' = [w \in Watchers |-> IF w \in Evaluated(r) THEN r ELSE fired[w]]
              /\ consumed' = r
         ELSE UNCHANGED <<wst, fired, consumed>>
    /\ next' = [next EXCEPT ![c] = r + 1]
    /\ UNCHANGED <<hist, armed, calls, cpc, upto, lock, retry, up, faults, crashes>>

(* The pass returns: the lock and the pass's locals are gone. *)
LeavesPass(c, how) ==
    /\ cpc' = [cpc EXCEPT ![c] = how]
    /\ next' = [next EXCEPT ![c] = 0]
    /\ upto' = [upto EXCEPT ![c] = 0]
    /\ lock' = NoCaller

EndsPass(c) ==
    /\ up
    /\ cpc[c] = "consuming"
    /\ next[c] > upto[c]
    /\ LeavesPass(c, "succeeded")
    /\ UNCHANGED <<hist, wst, armed, fired, consumed, calls, retry, up, faults, crashes>>

(* A transient error (OSError, unavailable state, a busy database) rolls the
   open transaction back and leaves the lock. *)
PassFails(c) ==
    /\ up
    /\ cpc[c] = "consuming"
    /\ faults < MaxFaults
    /\ faults' = faults + 1
    /\ LeavesPass(c, "failed")
    /\ UNCHANGED <<hist, wst, armed, fired, consumed, calls, retry, up, crashes>>

(* The registry is updated after the lock is released: cleared by a pass that
   succeeded, scheduled by one that failed. *)
SettlesRetry(c) ==
    /\ up
    /\ cpc[c] \in {"succeeded", "failed"}
    /\ retry' = (cpc[c] = "failed")
    /\ cpc' = [cpc EXCEPT ![c] = "idle"]
    /\ UNCHANGED <<hist, wst, armed, fired, consumed, calls, next, upto, lock, up, faults,
                   crashes>>

-----------------------------------------------------------------------------
ProcessDies ==
    /\ up
    /\ crashes < MaxCrashes
    /\ crashes' = crashes + 1
    /\ up' = FALSE
    /\ wst' = [w \in Watchers |-> IF wst[w] = "arming" THEN "none" ELSE wst[w]]
    /\ armed' = [w \in Watchers |-> IF wst[w] = "arming" THEN 0 ELSE armed[w]]
    /\ calls' = 0
    /\ cpc' = [c \in Threads |-> "idle"]
    /\ next' = [c \in Threads |-> 0]
    /\ upto' = [c \in Threads |-> 0]
    /\ lock' = NoCaller
    /\ retry' = FALSE
    /\ UNCHANGED <<hist, fired, consumed, faults>>

(* Mutant: no sweep at startup. *)
sweep_Nothing ==
    /\ ~up
    /\ up' = TRUE
    /\ UNCHANGED <<hist, wst, armed, fired, consumed, calls, cpc, next, upto, lock, retry,
                   faults, crashes>>

(* The startup sweep evaluates every project with an open graph watcher. *)
sweep_graph_conditions_at_startup ==
    /\ ~up
    /\ up' = TRUE
    /\ calls' = IF \E w \in Watchers : wst[w] \in {"active", "completed"} THEN 1 ELSE 0
    /\ UNCHANGED <<hist, wst, armed, fired, consumed, cpc, next, upto, lock, retry, faults,
                   crashes>>

Next ==
    \/ \E b \in Boundaries : AcceptBoundary(b)
    \/ \E w \in Watchers : ReadsGraph(w) \/ arm_watchers(w) \/ StopWatcher(w)
    \/ \E c \in Callers : evaluate_graph_wake_boundary(c)
    \/ RetryDue
    \/ RetryPass
    \/ \E c \in Threads : \/ consume_graph_watcher_boundary(c)
                          \/ EndsPass(c)
                          \/ PassFails(c)
                          \/ SettlesRetry(c)
    \/ ProcessDies
    \/ sweep_graph_conditions_at_startup

Spec == Init /\ [][Next]_vars

(***************************************************************************)
(* Threads are scheduled and a dead server is restarted; revisions, human  *)
(* stops, errors and deaths need never happen.                             *)
(***************************************************************************)
Fairness ==
    /\ \A w \in Watchers : WF_vars(arm_watchers(w))
    /\ WF_vars(\E c \in Callers : evaluate_graph_wake_boundary(c))
    /\ WF_vars(RetryDue) /\ WF_vars(RetryPass)
    /\ \A c \in Threads :
          WF_vars(consume_graph_watcher_boundary(c) \/ EndsPass(c) \/ SettlesRetry(c))
    /\ WF_vars(sweep_graph_conditions_at_startup)

FairSpec == Spec /\ Fairness

-----------------------------------------------------------------------------
TypeOK ==
    /\ hist \in Seq(Boundaries) /\ Len(hist) <= MaxRevision
    /\ wst \in [Watchers -> WatcherStates]
    /\ armed \in [Watchers -> 0..MaxRevision]
    /\ fired \in [Watchers -> 0..MaxRevision]
    /\ consumed \in 0..MaxRevision
    /\ calls \in Nat
    /\ cpc \in [Threads -> CallerStates]
    /\ next \in [Threads -> 0..MaxRevision + 1]
    /\ upto \in [Threads -> 0..MaxRevision]
    /\ lock \in Threads \cup {NoCaller}
    /\ retry \in BOOLEAN /\ up \in BOOLEAN
    /\ faults \in 0..MaxFaults /\ crashes \in 0..MaxCrashes

(* Boundary r is the first after arming that decides watcher w. *)
FirstDeciding(w, r) ==
    /\ armed[w] < r
    /\ graph_watcher_boundary_result(w, r) = wst[w]
    /\ \A q \in armed[w] + 1 .. r - 1 : graph_watcher_boundary_result(w, q) = "active"

(***************************************************************************)
(* A watcher's status is exactly what the accepted history says of it: an  *)
(* active one has no deciding boundary between its arming and the consumed *)
(* head, and one decided by a boundary was decided by the first that could *)
(* have, never by one it was armed at or after.                            *)
(***************************************************************************)
WatcherVerdictExact ==
    \A w \in Watchers :
        /\ wst[w] = "active" =>
              \A r \in armed[w] + 1 .. consumed : graph_watcher_boundary_result(w, r) = "active"
        /\ wst[w] = "removed" => FirstDeciding(w, fired[w])
        /\ wst[w] = "completed" =>
              \/ FirstDeciding(w, fired[w])
              \/ fired[w] = armed[w] /\ hist[armed[w]].node = "met"

(***************************************************************************)
(* The durable head advances one accepted boundary at a time, never back   *)
(* and never over a boundary no transaction evaluated, across concurrent   *)
(* passes, rolled-back passes and restarts.                                *)
(***************************************************************************)
HeadMovesInOrder ==
    [][consumed' # consumed => consumed' = consumed + 1 /\ consumed' <= Len(hist)]_vars

(* Some accepted boundary decides the active watcher w. *)
Decidable(w) ==
    /\ wst[w] = "active"
    /\ \E r \in armed[w] + 1 .. Len(hist) : graph_watcher_boundary_result(w, r) # "active"

(***************************************************************************)
(* A watcher some accepted boundary decides is eventually decided (or      *)
(* stopped), also when the boundary was accepted between the read of the   *)
(* graph and the insertion of the row, while the process was down, or when *)
(* the first pass over it failed.  A watcher armed from inside an agent    *)
(* turn has no such guarantee: the turn does not signal what it missed.    *)
(***************************************************************************)
DecidedWatcherSettles ==
    \A w \in Watchers \ InTurn : Decidable(w) ~> wst[w] # "active"
=============================================================================
