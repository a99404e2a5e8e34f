--------------------------- MODULE ExperimentLoop ---------------------------
(***************************************************************************)
(* The loop of one Experiment: a person's Run pays the first invocation of *)
(* an episode, a completed watcher pays each later one, a turn hands over  *)
(* its graph update, its watchers and its ending, people resume, retry,    *)
(* repair and stop, and reconcilers, run by settled workers and by every   *)
(* watcher poll, fence the ending and have it reported.                    *)
(*                                                                         *)
(* Source: storage/experiments.py, runs/tasks/experiment_loop.py,          *)
(* runs/experiment_recovery.py, runs/episodes/reconcile.py, watchers.py,   *)
(* background.py.                                                          *)
(***************************************************************************)
EXTENDS EpisodeReports

CONSTANTS
    Ceiling,      \* the most invocations a Run authorizes
    Exits,        \* the endings turns hand over
    Budgets       \* how much of each kind of event is explored together

(* Deliveries of completed watchers, turns that fail or pause and sessions out of reach,
   recoveries and repairs people ask for, Stops, and ends of the process. *)
Events == {"wakes", "faults", "recoveries", "stops", "restarts"}

ASSUME LoopAssumption ==
    /\ Ceiling \in Nat \ {0} /\ Exits \subseteq {"completed", "human_pause"}
    /\ Budgets \subseteq [Events -> Nat]

VARIABLES
    task,     \* visible task rows, turns of the episodes, with their workers' position
    unit,     \* the watchers an episode's turns armed
    wake,     \* a watcher delivery in flight
    look,     \* reconcilers in flight: one for each settled worker, one for the poller
    boot,     \* what the start of the process has yet to recover
    budget

vars == <<reportVars, task, unit, wake, look, boot, budget>>

Poller == 0
Lookers == Ops \cup {Poller}

NoTask == [status |-> "none", ep |-> 0, parent |-> NoOp, inv |-> 0, kind |-> "turn", ctx |-> FALSE,
           session |-> FALSE, graph |-> "none", exit |-> "none", abandoned |-> FALSE, step |-> "none"]
NoWake == [step |-> "idle", ep |-> 0, inv |-> 0, admits |-> FALSE]
NoLook == [step |-> "idle", ep |-> 0, turn |-> NoOp, ending |-> "none"]

LiveTurn == {"queued", "running"}
Recoverable == {"paused", "failed", "interrupted"}

Init ==
    /\ ReportsInit
    /\ task = [o \in Ops |-> NoTask]
    /\ unit = [e \in Episodes |-> "none"]
    /\ wake = NoWake
    /\ look = [r \in Lookers |-> NoLook]
    /\ boot = "serving"
    /\ budget \in Budgets

Spend(event) == budget[event] > 0 /\ budget' = [budget EXCEPT ![event] = @ - 1]

Used(rows) == {o \in Ops : rows[o].status # "none"}
Fresh(o) == o = Cardinality(Used(task)) + 1
Newest(e) == ep[e].status # "none" /\ \A f \in Episodes : f > e => ep[f].status = "none"
TurnsOf(rows, e) == {o \in Ops : rows[o].ep = e}
Leaves(rows, e) == {o \in TurnsOf(rows, e) : ~\E c \in Ops : rows[c].parent = o}
Active(e) == \E o \in TurnsOf(task, e) : task[o].status \in LiveTurn
Exited(e) == \E o \in TurnsOf(task, e) : task[o].exit # "none"

(* Every turn of an Experiment is in its node's conversation, where one task runs at a time. *)
_has_active_chat_overlap == \E o \in Ops : task[o].status \in LiveTurn

PaidRoot(o) == CHOOSE p \in Ops :
    /\ task[p].ep = task[o].ep /\ task[p].inv = task[o].inv /\ task[p].parent = NoOp
(* _experiment_episode_recovery_context_problem, by the invocation's paid root. *)
ContextLost(o) == ~task[PaidRoot(o)].ctx

-----------------------------------------------------------------------------
(* Invocations. *)

Insert(o, row) == task' = [task EXCEPT ![o] = row]
Turn(e, inv, session) ==
    [NoTask EXCEPT !.status = "queued", !.ep = e, !.inv = inv, !.session = session, !.step = "queued"]

(* create_experiment_episode_with_invocation: a Run, which takes over the completions that
   earlier episodes left unclaimed. *)
create_experiment_episode_with_invocation(e, o) ==
    /\ Fresh(o) /\ ep[e].status = "none" /\ \A f \in Episodes : f < e => ep[f].status # "none"
    /\ \A f \in Episodes : ep[f].status \notin _LIVE_EPISODE_STATUSES
    /\ ~_has_active_chat_overlap
    /\ \E ceiling \in 1..Ceiling :
         ep' = [ep EXCEPT ![e].status = "running", ![e].used = 1, ![e].ceiling = ceiling]
    /\ Insert(o, Turn(e, 1, FALSE))
    /\ unit' = [f \in Episodes |-> IF unit[f] = "ready" THEN "claimed" ELSE unit[f]]
    /\ UNCHANGED <<report, wake, look, budget>>

(* A watcher of the episode completes. *)
WatcherCompletes(e) ==
    /\ unit[e] = "active"
    /\ unit' = [unit EXCEPT ![e] = "ready"]
    /\ UNCHANGED <<reportVars, task, wake, look, budget>>

(* deliver_watcher_group reads the runtime of the newest episode... *)
task_active(e) == \E o \in Leaves(task, e) : task[o].status \in LiveTurn \cup Recoverable /\ ~task[o].abandoned
WakeRead(e) ==
    /\ wake = NoWake /\ unit[e] = "ready" /\ Newest(e) /\ Spend("wakes")
    /\ wake' = [step |-> "preflight", ep |-> e, inv |-> ep[e].used + 1,
                admits |-> /\ ~task_active(e) /\ ~ep[e].stop /\ ep[e].used < ep[e].ceiling
                           /\ ep[e].ending = "none" /\ ~Exited(e)]
    /\ UNCHANGED <<reportVars, task, unit, look>>

(* ...proves its saved session, which may be gone or out of reach... *)
preflight_episode_wake ==
    /\ wake.step = "preflight"
    /\ \/ /\ Spend("faults") /\ wake' = NoWake
          /\ \/ ep' = [ep EXCEPT ![wake.ep].problem = TRUE]
             \/ UNCHANGED ep
       \/ /\ ep[wake.ep].bound
          /\ ep' = [ep EXCEPT ![wake.ep].problem = FALSE]
          /\ wake' = IF wake.admits THEN [wake EXCEPT !.step = "claim"] ELSE NoWake
          /\ UNCHANGED budget
    /\ UNCHANGED <<report, task, unit, look>>

(* ...and claims the watchers and the next invocation together, or neither. *)
ClaimAccepted(e) ==
    /\ unit[e] = "ready"
    /\ ep[e].status = "running" /\ ep[e].ending = "none" /\ ~ep[e].stop /\ ~Exited(e)
    /\ ep[e].used < ep[e].ceiling /\ wake.inv = ep[e].used + 1
    /\ ~_has_active_chat_overlap
create_experiment_watcher_invocation ==
    /\ wake.step = "claim" /\ wake' = NoWake
    /\ LET e == wake.ep IN
       IF ClaimAccepted(e)
         THEN \E o \in Ops :
                /\ Fresh(o) /\ Insert(o, Turn(e, wake.inv, TRUE))
                /\ ep' = [ep EXCEPT ![e].used = @ + 1]
                /\ unit' = [unit EXCEPT ![e] = "claimed"]
         ELSE UNCHANGED <<ep, task, unit>>
    /\ UNCHANGED <<report, look, budget>>

-----------------------------------------------------------------------------
(* A turn, stream_experiment_loop_task. *)

(* The context candidate is kept before the provider is launched. *)
Launch(o) ==
    /\ task[o].step = "queued"
    /\ task' = [task EXCEPT ![o].status = "running", ![o].step = "run", ![o].ctx = TRUE]
    /\ UNCHANGED <<reportVars, unit, wake, look, budget>>

(* The provider reports its session, and RCP checkpoints it. *)
BindSession(o) ==
    /\ task[o].step = "run" /\ ~task[o].session
    /\ task' = [task EXCEPT ![o].session = TRUE]
    /\ UNCHANGED <<reportVars, unit, wake, look, budget>>

(* The graph update is applied, or still refused after its corrections. *)
ApplyPatch(o) ==
    /\ task[o].step = "run" /\ task[o].session
    /\ \E result \in {"applied", "rejected"} :
         task' = [task EXCEPT ![o].graph = result, ![o].step = "patched"]
    /\ UNCHANGED <<reportVars, unit, wake, look, budget>>

(* commit_experiment_episode_handoff: watchers, binding and the ending receipt of an applied
   patch in one transaction, whatever the episode has become meanwhile. *)
commit_experiment_episode_handoff(o) ==
    /\ task[o].step = "patched"
    /\ \E exit \in {"none"} \cup Exits, arms \in BOOLEAN :
         LET e == task[o].ep IN
         /\ exit # "none" => task[o].graph = "applied"
         /\ task[o].kind = "repair" => ~arms
         /\ task[o].graph = "rejected" => arms \/ task[o].kind = "repair"
         /\ task' = [task EXCEPT ![o].exit = exit, ![o].step = "committed"]
         /\ ep' = [ep EXCEPT ![e].bound = TRUE, ![e].last = o, ![e].problem = FALSE]
         /\ unit' = [unit EXCEPT ![e] = IF arms THEN "active" ELSE @]
    /\ UNCHANGED <<report, wake, look, budget>>

(* complete_agent_task; the worker then has the stops and the episode to settle. *)
complete_agent_task(o) ==
    /\ task[o].step = "committed"
    /\ task' = [task EXCEPT ![o].status = "succeeded", ![o].step = "settling"]
    /\ UNCHANGED <<reportVars, unit, wake, look, budget>>

(* The turn fails or is paused; a session limit marks a bound episode. *)
TurnEnds(o) ==
    /\ task[o].step \in {"queued", "run", "patched", "committed"} /\ Spend("faults")
    /\ \E status \in {"failed", "paused"}, limit \in BOOLEAN :
         /\ limit => status = "failed" /\ ep[task[o].ep].bound /\ task[o].step = "run"
         /\ task' = [task EXCEPT ![o].status = status, ![o].step = "settling"]
         /\ ep' = IF limit THEN [ep EXCEPT ![task[o].ep].problem = TRUE] ELSE ep
    /\ UNCHANGED <<report, unit, wake, look>>

Worker(o) == Launch(o) \/ BindSession(o) \/ ApplyPatch(o) \/ commit_experiment_episode_handoff(o)
             \/ complete_agent_task(o)

-----------------------------------------------------------------------------
(* Stop. *)

Unresolved(e) == {o \in Leaves(task, e) : task[o].status \in LiveTurn \cup Recoverable}
Problem(eps, e) == eps[e].problem \/ \E o \in Unresolved(e) : ContextLost(o)

(* The authorized turn is resolved, or nobody can continue it any more. *)
Quiescent(eps, e) ==
    \A o \in Unresolved(e) : task[o].status \in Recoverable /\ Problem(eps, e)

(* settle_experiment_loop_stop with mark_episode_stop_skipped: a turn that cannot be continued
   is abandoned, and the episode's watchers are stopped. *)
settle_experiment_loop_stop(eps, rows, e) ==
    IF eps[e].status = "stopping" /\ Quiescent(eps, e)
      THEN /\ ep' = [eps EXCEPT ![e] = Skipped(@)]
           /\ task' = [o \in Ops |-> IF o \in Unresolved(e) THEN [rows[o] EXCEPT !.abandoned = TRUE]
                                     ELSE rows[o]]
           /\ unit' = [unit EXCEPT ![e] = IF @ = "none" THEN @ ELSE "stopped"]
      ELSE /\ ep' = IF eps[e].status = "stopping" THEN [eps EXCEPT ![e].problem = Problem(eps, e)] ELSE eps
           /\ task' = rows /\ UNCHANGED unit

(* request_experiment_loop_stop. *)
request_experiment_loop_stop(e) ==
    /\ StopAccepted(e) /\ ~ep[e].stop /\ Spend("stops")
    /\ settle_experiment_loop_stop(request_episode_stop(e), task, e)
    /\ UNCHANGED <<report, wake, look>>

(* At most one episode is live, so at most one waits for its Stop to settle. *)
Stopping == {e \in Episodes : ep[e].status = "stopping"}
settle_ready_experiment_loop_stops(rows) ==
    IF Stopping = {} THEN task' = rows /\ UNCHANGED <<ep, unit>>
    ELSE \E e \in Stopping : settle_experiment_loop_stop(ep, rows, e)

-----------------------------------------------------------------------------
(* Recovery of a turn, which spends no invocation. *)

(* Mutant: an accepted ending is not looked for. *)
EpisodeAdmitsRecovery_AfterExit(e) == ep[e].status \in {"running", "stopping"} /\ ep[e].ending = "none"
EpisodeAdmitsRecovery(e) ==
    ep[e].status \in {"running", "stopping"} /\ ep[e].ending = "none" /\ ~Exited(e)

(* _validate_experiment_recovery_claim: the latest attempt of the newest invocation. *)
LatestAttempt(o) ==
    /\ Newest(task[o].ep) /\ o \in Leaves(task, task[o].ep)
    /\ \A p \in TurnsOf(task, task[o].ep) : p <= o
RecoveryAccepted(o) ==
    /\ task[o].status \in Recoverable /\ ~task[o].abandoned /\ LatestAttempt(o)
    /\ EpisodeAdmitsRecovery(task[o].ep) /\ ~_has_active_chat_overlap

(* Mutant: the child is not tied to the turn it continues. *)
Child_Rootless(o, kind, session) == [Turn(task[o].ep, task[o].inv, session) EXCEPT !.kind = kind]
Child(o, kind, session) ==
    [Turn(task[o].ep, task[o].inv, session) EXCEPT !.parent = o, !.kind = kind]

(* resume, and retry_experiment_loop in the saved session or a provisional one. *)
Recover(o, c) ==
    /\ RecoveryAccepted(o) /\ Fresh(c) /\ ~ContextLost(o) /\ Spend("recoveries")
    /\ \E session \in {task[o].session, FALSE} :
         /\ task[o].kind = "repair" => session
         /\ Insert(c, Child(o, task[o].kind, session))
    /\ UNCHANGED <<reportVars, unit, wake, look>>

(* The context or the saved workspace is gone: the episode is marked, and a Stop that waited
   for this turn settles. *)
RecoveryImpossible(o) ==
    /\ task[o].status \in Recoverable /\ ~task[o].abandoned
    /\ ContextLost(o) \/ ep[task[o].ep].bound
    /\ Spend("recoveries")
    /\ settle_experiment_loop_stop([ep EXCEPT ![task[o].ep].problem = TRUE], task, task[o].ep)
    /\ UNCHANGED <<report, wake, look>>

(* create_experiment_graph_repair_task: one child for a refused graph update. *)
create_experiment_graph_repair_task(o, c) ==
    /\ task[o].status = "succeeded" /\ task[o].graph = "rejected" /\ task[o].session
    /\ LatestAttempt(o) /\ ~ep[task[o].ep].stop
    /\ EpisodeAdmitsRecovery(task[o].ep) /\ ~_has_active_chat_overlap
    /\ Fresh(c) /\ Spend("recoveries")
    /\ Insert(c, Child(o, "repair", TRUE))
    /\ UNCHANGED <<reportVars, unit, wake, look>>

-----------------------------------------------------------------------------
(* reconcile_experiment_episode. *)

LatestLeaf(e) == CHOOSE o \in Leaves(task, e) : \A p \in Leaves(task, e) : p <= o

(* The ending the ledger calls for, and the turn that reports it. *)
Signalled(e) == ep[e].last # NoOp /\ task[ep[e].last].exit # "none"
OperationalEnding(e, o) ==
    IF ep[e].ending # "none" THEN ep[e].ending
    ELSE IF task[o].status = "succeeded" /\ ep[e].used >= ep[e].ceiling THEN "exhausted"
    ELSE IF task[o].status = "failed" /\ (~task[o].session \/ ContextLost(o)) THEN "failed"
    ELSE "none"
Due(e, o) ==
    IF Signalled(e)
      THEN [step |-> "fence", ep |-> e, turn |-> ep[e].last, ending |-> task[ep[e].last].exit]
      ELSE [step |-> "fence", ep |-> e, turn |-> o, ending |-> OperationalEnding(e, o)]
Owed(e, o) ==
    /\ ep[e].status # "none" /\ ~ep[e].stop /\ ep[e].wrap \notin {"ready", "failed", "skipped"}
    /\ Due(e, o).ending \in (IF Signalled(e) THEN Endings ELSE {"exhausted", "failed"})

(* A settled worker looks at the stop its turn may have held back, or at the ending. *)
WorkerSettles(o) ==
    /\ task[o].step = "settling"
    /\ LET e == task[o].ep
           rows == [task EXCEPT ![o].step = "none"] IN
       IF ep[e].stop
         THEN settle_experiment_loop_stop(ep, rows, e) /\ UNCHANGED look
         ELSE /\ task' = rows
              /\ look' = IF Owed(e, o) THEN [look EXCEPT ![o] = Due(e, o)] ELSE look
              /\ UNCHANGED <<ep, unit>>
    /\ UNCHANGED <<report, wake, budget>>

(* Every watcher poll, and the start of the process, looks at every episode. *)
PollerLooks(e) ==
    /\ look[Poller] = NoLook
    /\ \/ /\ e \in Stopping
          /\ settle_experiment_loop_stop(ep, task, e)
          /\ UNCHANGED look
       \/ /\ ep[e].status \in _LIVE_EPISODE_STATUSES /\ Owed(e, LatestLeaf(e))
          /\ look' = [look EXCEPT ![Poller] = Due(e, LatestLeaf(e))]
          /\ UNCHANGED <<ep, task, unit>>
    /\ UNCHANGED <<report, wake, budget>>

FenceEnding(r) ==
    /\ look[r].step = "fence"
    /\ IF FenceAccepted(look[r].ep, look[r].ending)
         THEN /\ fence_episode_ending(look[r].ep, look[r].ending)
              /\ look' = [look EXCEPT ![r].step = "wrap"]
         ELSE look' = [look EXCEPT ![r] = NoLook] /\ UNCHANGED ep
    /\ UNCHANGED <<report, task, unit, wake, budget>>

settle_experiment_episode_wrapup(e) == ~Active(e)

(* Once no turn is live the watchers that were consumed are retired, the others left for the
   next Run, and the report is begun. *)
WrapUp(r) ==
    /\ look[r].step = "wrap" /\ look' = [look EXCEPT ![r] = NoLook]
    /\ LET e == look[r].ep IN
       IF settle_experiment_episode_wrapup(e)
         THEN /\ unit' = [unit EXCEPT ![e] = IF @ = "claimed" THEN "stopped" ELSE @]
              /\ begin_episode_report_wrapup(e, look[r].turn, look[r].ending, task[look[r].turn].session)
         ELSE UNCHANGED <<unit, reportVars>>
    /\ UNCHANGED <<task, wake, budget>>

Reconcile(r) == FenceEnding(r) \/ WrapUp(r)

-----------------------------------------------------------------------------
(* The process ends and starts again. *)

Restart ==
    /\ boot = "serving" /\ Spend("restarts")
    /\ \E graceful \in BOOLEAN :
         /\ ep' = [e \in Episodes |-> EpisodeLeft(e, graceful)]
         /\ report' = [e \in Episodes |-> ReportLeft(e, graceful)]
    /\ task' = [o \in Ops |-> [task[o] EXCEPT !.status = IF @ \in LiveTurn THEN "interrupted" ELSE @,
                                              !.step = "none"]]
    /\ wake' = NoWake /\ look' = [r \in Lookers |-> NoLook]
    /\ boot' = "stops"
    /\ UNCHANGED unit

(* restart_stopping_experiment_recoveries: the turn a Stop waits for is resumed, or the reason
   why it cannot be is recorded; an unreachable machine says nothing. *)
StopCandidate(o) ==
    /\ task[o].ep \in Stopping /\ ~ep[task[o].ep].problem
    /\ o \in Leaves(task, task[o].ep) /\ task[o].status \in Recoverable /\ ~task[o].abandoned
restart_stopping_experiment_recoveries ==
    /\ boot = "stops" /\ boot' = "settle"
    /\ IF ~\E o \in Ops : StopCandidate(o) THEN UNCHANGED <<ep, task>>
       ELSE \E o \in Ops :
         /\ StopCandidate(o)
         /\ \/ ep' = [ep EXCEPT ![task[o].ep].problem = TRUE] /\ UNCHANGED task
            \/ task[o].session /\ ~ContextLost(o) /\ UNCHANGED <<ep, task>>
            \/ /\ task[o].session /\ ~ContextLost(o) /\ RecoveryAccepted(o)
               /\ \E c \in Ops : Fresh(c) /\ Insert(c, Child(o, task[o].kind, TRUE))
               /\ UNCHANGED ep
    /\ UNCHANGED <<report, unit, wake, look, budget>>

RecoverStops ==
    /\ boot = "settle" /\ boot' = "reports"
    /\ settle_ready_experiment_loop_stops(task)
    /\ UNCHANGED <<report, wake, look, budget>>

(* restart_interrupted_episode_reports. *)
restart_interrupted_episode_reports ==
    /\ boot = "reports" /\ boot' = "serving"
    /\ IF \E e \in Episodes : Startable(e)
         THEN \E e \in Episodes : Startable(e) /\ start_episode_report(e)
         ELSE UNCHANGED reportVars
    /\ UNCHANGED <<task, unit, wake, look, budget>>

-----------------------------------------------------------------------------
Report(e) == ReportWorker(e) /\ UNCHANGED <<task, unit, wake, look, budget>>

Workers ==
    \/ \E o \in Ops : Worker(o) \/ TurnEnds(o) \/ WorkerSettles(o)
    \/ \E r \in Lookers : Reconcile(r)
    \/ \E e \in Episodes : Report(e)

Served ==
    \/ \E e \in Episodes, o \in Ops : create_experiment_episode_with_invocation(e, o)
    \/ \E e \in Episodes : WatcherCompletes(e) \/ WakeRead(e) \/ PollerLooks(e)
                           \/ request_experiment_loop_stop(e)
    \/ preflight_episode_wake \/ create_experiment_watcher_invocation
    \/ \E o, c \in Ops : Recover(o, c) \/ create_experiment_graph_repair_task(o, c)
    \/ \E o \in Ops : RecoveryImpossible(o)

Boot == restart_stopping_experiment_recoveries \/ RecoverStops \/ restart_interrupted_episode_reports

Next ==
    \/ Workers /\ UNCHANGED boot
    \/ boot = "serving" /\ Served /\ UNCHANGED boot
    \/ Restart
    \/ Boot

(* Threads run on: a provider call ends, a worker settles, a reconciler goes on, the poller
   comes round, the start of the process is carried through. *)
Fairness ==
    /\ \A o \in Ops : /\ WF_vars(Worker(o) /\ UNCHANGED boot)
                      /\ WF_vars(WorkerSettles(o) /\ UNCHANGED boot)
    /\ \A r \in Lookers : WF_vars(Reconcile(r) /\ UNCHANGED boot)
    /\ \A e \in Episodes : /\ WF_vars(Report(e) /\ UNCHANGED boot)
                           /\ WF_vars(boot = "serving" /\ PollerLooks(e) /\ UNCHANGED boot)
    /\ WF_vars(Boot)

Spec == Init /\ [][Next]_vars /\ Fairness

-----------------------------------------------------------------------------
TypeOK ==
    /\ ep \in [Episodes -> [status : {"none"} \cup _LIVE_EPISODE_STATUSES \cup Ended,
                            ending : {"none"} \cup Endings, stop : BOOLEAN, used : 0..Ceiling, ceiling : 0..Ceiling,
                            bound : BOOLEAN, problem : BOOLEAN, last : Ops \cup {NoOp},
                            wrap : {"not_started", "pending", "running", "ready", "failed", "skipped"},
                            attempts : 0.._REPORT_ATTEMPT_LIMIT, concluding : Ops \cup {NoOp}]]
    /\ report \in [Episodes -> [row : {"none", "queued", "running", "paused", "interrupted", "failed",
                                       "succeeded"},
                                step : {"none", "prepare", "launch", "call"},
                                attempt : {"none", "queued", "running"}, output : Nat, calls : Nat,
                                published : Nat]]
    /\ task \in [Ops -> [status : {"none", "succeeded"} \cup LiveTurn \cup Recoverable,
                         ep : Episodes \cup {0}, parent : Ops \cup {NoOp}, inv : 0..Ceiling,
                         kind : {"turn", "repair"}, ctx : BOOLEAN, session : BOOLEAN,
                         graph : {"none", "applied", "rejected"},
                         exit : {"none"} \cup Exits, abandoned : BOOLEAN,
                         step : {"none", "queued", "run", "patched", "committed", "settling", "settled"}]]
    /\ unit \in [Episodes -> {"none", "active", "ready", "claimed", "stopped"}]
    /\ wake \in [step : {"idle", "preflight", "claim"}, ep : Episodes \cup {0}, inv : 0..(Ceiling + 1),
                 admits : BOOLEAN]
    /\ look \in [Lookers -> [step : {"idle", "fence", "wrap"}, ep : Episodes \cup {0},
                             turn : Ops \cup {NoOp}, ending : {"none"} \cup Endings]]
    /\ boot \in {"serving", "stops", "settle", "reports"}

(* Every invocation an episode spent is one paid root turn, numbered in order: a recovery or
   a repair never pays, and a wake never pays twice
   (create_experiment_watcher_invocation, _insert_experiment_recovery_task). *)
InvocationsArePaid ==
    \A e \in Episodes :
        LET roots == {o \in TurnsOf(task, e) : task[o].parent = NoOp}
        IN  /\ {task[o].inv : o \in roots} = 1..ep[e].used /\ Cardinality(roots) = ep[e].used
            /\ \A o \in TurnsOf(task, e) : \E p \in roots : task[p].inv = task[o].inv /\ p <= o

(* The report is written when the work is over: no turn of the episode is live once its report
   is allocated, whichever of people, watchers and reconcilers came between
   (settle_experiment_episode_wrapup behind fence_episode_ending). *)
ReportAfterWork == \A e \in Episodes : report[e].row # "none" => ~Active(e)

(* A report costs at most the three provider calls of its episode, whatever restarts came
   between (allocate_episode_report_attempt). *)
ReportCallsBounded == \A e \in Episodes : report[e].calls <= _REPORT_ATTEMPT_LIMIT

(* What is published was written by the attempt that publishes it, never by a call that failed
   or was interrupted before (stream_episode_report_run). *)
ReportIsItsOwn == \A e \in Episodes : report[e].published # 0 => report[e].published = ep[e].attempts

(* The report of an episode comes after its work, at a bounded cost and from its own attempt. *)
ReportsAreSound == TypeOK /\ ReportAfterWork /\ ReportCallsBounded /\ ReportIsItsOwn

(* After Stop has settled nothing of the episode is alive: no turn, no watcher, no report
   (settle_experiment_loop_stop). *)
StoppedIsQuiet ==
    \A e \in Episodes : ep[e].status = "stopped" =>
        ~Active(e) /\ unit[e] \in {"none", "stopped"} /\ report[e] = NoReport

(* The ending a turn handed over is the last word of its episode: no later turn is admitted
   (_experiment_has_ending_receipt). *)
ExitIsFinal ==
    \A o \in Ops : task[o].exit # "none" => \A p \in TurnsOf(task, task[o].ep) : p <= o

(* Turns are paid for, and neither a settled Stop nor a handed over ending is followed by one. *)
WorkIsAuthorized == InvocationsArePaid /\ StoppedIsQuiet /\ ExitIsFinal

(* An accepted ending that another ending was fenced before. *)
Contradicted(e) == ep[e].ending # "none" /\ Signalled(e) /\ task[ep[e].last].exit # ep[e].ending

(* A fenced episode ends: its report is published, failed or not owed
   (reconcile_experiment_episode), unless a turn recovered in the meantime handed over
   another ending. *)
EndingsSettle ==
    \A e \in Episodes : ep[e].status = "wrapping_up" ~> (ep[e].status \in Ended \/ Contradicted(e))

(* The turn a Stop waits for is one that people can still take further. *)
LeftToPeople(e) == \E o \in Ops : task[o].ep = e /\ RecoveryAccepted(o) /\ ~ContextLost(o)
(* A Stop settles, across restarts, unless a turn is left that a person can resume or that had
   handed over its ending (settle_experiment_loop_stop,
   restart_stopping_experiment_recoveries). *)
StopsSettle ==
    \A e \in Episodes :
        ep[e].status = "stopping" ~> (ep[e].status = "stopped" \/ LeftToPeople(e) \/ Exited(e))

(* What has begun to end does: an accepted ending, and a Stop. *)
EpisodesEnd == EndingsSettle /\ StopsSettle

(* The loop is an episode as every mode promises one (EpisodeLifecycle). *)
Lifecycle == INSTANCE EpisodeLifecycle
    WITH status <- [e \in Episodes |-> ep[e].status],
         spent <- [e \in Episodes |-> ep[e].used],
         ending <- [e \in Episodes |-> ep[e].ending],
         StatusOf <- _status_for_ending
LifecycleSpec == Lifecycle!Spec
=============================================================================
