---------------------------- MODULE AgentDispatch ----------------------------
(***************************************************************************)
(* BackgroundAgentTasks (background.py) over the graph_runs ledger         *)
(* (storage/agent_tasks.py): admission, the in-process dispatch claim and  *)
(* its durable receipts, one worker thread per claim, the three pauses     *)
(* (human, shutdown, member removal), process death and startup recovery.  *)
(*                                                                         *)
(* status, runs and turns are TaskLifecycle's variables: the row's status  *)
(* and two history counters.  A thread is identified by its operation and  *)
(* the number of its dispatch attempt (the code's dispatch_attempt_id).    *)
(***************************************************************************)
EXTENDS TaskLifecycle, FiniteSets

CONSTANTS AutoRows,    \* rows startup may preserve: reserved Auto-research roots,
                       \* committed wakes and child dispatches
          Removable,   \* rows authorized by a member who is being removed
          Ingest,      \* seed and refresh rows, which owe a graph revision
          Launchers,   \* threads that may call launch_admitted
          NoLauncher,  \* _controls_lock is free
          NoOp,        \* an idle launcher's row
          MaxSpawns,   \* bound: threads created per operation
          MaxFaults,   \* bound: injected storage or thread-start errors
          MaxCrashes,  \* bound: process deaths
          MaxPauses    \* bound: pause requests by a human or a removal

ASSUME DispatchAssumption ==
    /\ AutoRows \subseteq Ops
    /\ Ingest \subseteq Ops
    /\ Removable \subseteq Ops
    /\ AutoRows \cap Reports = {}
    /\ NoLauncher \notin Launchers
    /\ NoOp \notin Ops
    /\ MaxSpawns \in Nat /\ MaxFaults \in Nat
    /\ MaxCrashes \in Nat /\ MaxPauses \in Nat

VARIABLES
    started,   \* rows whose started_at is set
    log,       \* what the proof reads of a row's operation_dispatch_* receipts
    owed,      \* rows whose admitting call has yet to launch them
    workers,   \* _workers and _controls: the registered attempt, 0 if none
    made,      \* dispatch attempts created per row (the next attempt's number)
    wpc,       \* where each worker thread is in _run
    flags,     \* threads whose control.pause_requested is set
    lpc, lop,  \* where each launcher is in launch_admitted, and its row
    lock,      \* holder of _controls_lock
    signals,   \* human pauses whose control has yet to be signalled
    removing,  \* progress of request_member_removal_pause on each row
    draining,  \* controls shutdown() has yet to pause
    mode,      \* "up", "stopping" (shutdown), "down" (process dead)
    faults, crashes, pauses   \* spent bounds

registryVars == <<workers, made, wpc, flags, lpc, lop, lock>>
pauseVars == <<signals, removing, draining, pauses>>
vars == <<status, runs, turns, started, log, owed, workers, made, wpc, flags, lpc, lop,
          lock, signals, removing, draining, mode, faults, crashes, pauses>>

Attempts == 1..MaxSpawns
Serving == mode \in {"up", "stopping"}

(* Where a worker is, from thread start to _forget_control. *)
BeforeTurn == {"starting", "ready", "streaming"}
Ended == {"ended_done", "ended_norevision", "ended_error", "ended_paused"}
Unsettled == BeforeTurn \cup {"prepause", "provider"} \cup Ended
Alive == Unsettled \cup {"settled"}
WorkerStates == Alive \cup {"none", "dead"}

(* Where a launcher is in launch_admitted. *)
LauncherStates == {"idle", "checked", "proven", "claimed", "attempted", "started"}

(* The latest attempt, the latest outcome and the attempt it names, and
   whether a reset receipt is newer than both. *)
Receipts == [attempt : Nat, outcome : {"none", "failed_before_start", "started"},
             outcomeOf : Nat, reset : BOOLEAN]
NoReceipts == [attempt |-> 0, outcome |-> "none", outcomeOf |-> 0, reset |-> FALSE]

Init ==
    /\ LifecycleInit
    /\ started = {}
    /\ log = [o \in Ops |-> NoReceipts]
    /\ owed = {}
    /\ workers = [o \in Ops |-> 0]
    /\ made = [o \in Ops |-> 0]
    /\ wpc = [o \in Ops |-> [a \in Attempts |-> "none"]]
    /\ flags = {}
    /\ lpc = [l \in Launchers |-> "idle"]
    /\ lop = [l \in Launchers |-> NoOp]
    /\ lock = NoLauncher
    /\ signals = {}
    /\ removing = [o \in Ops |-> "no"]
    /\ draining = {}
    /\ mode = "up"
    /\ faults = 0 /\ crashes = 0 /\ pauses = 0

(* Mutant: an attempt with no outcome yet is read as never started. *)
ProvenNotStarted_NoOutcomeNeeded(o) ==
    /\ status[o] = "queued"
    /\ log[o].reset \/ log[o].outcome # "started"

(***************************************************************************)
(* agent_task_dispatch_was_proven_not_started: a reset newer than every    *)
(* attempt and outcome, or no attempt and no outcome at all, or a latest   *)
(* outcome that says the latest attempt failed before its thread began.    *)
(***************************************************************************)
ProvenNotStarted(o) ==
    /\ status[o] = "queued"
    /\ \/ log[o].reset
       \/ log[o].attempt = 0 /\ log[o].outcome = "none"
       \/ /\ log[o].attempt # 0
          /\ log[o].outcome = "failed_before_start"
          /\ log[o].outcomeOf = log[o].attempt

RecordAttempt(o, a) ==
    log' = [log EXCEPT ![o] = [attempt |-> a, outcome |-> @.outcome,
                               outcomeOf |-> @.outcomeOf, reset |-> FALSE]]
RecordOutcome(o, a, outcome) ==
    log' = [log EXCEPT ![o] = [attempt |-> @.attempt, outcome |-> outcome,
                               outcomeOf |-> a, reset |-> FALSE]]

(* A receipt write the code wraps in suppress(Exception): it may be lost. *)
RecordOutcomeOrLoseIt(o, a, outcome) ==
    \/ RecordOutcome(o, a, outcome) /\ UNCHANGED faults
    \/ faults < MaxFaults /\ faults' = faults + 1 /\ UNCHANGED log

-----------------------------------------------------------------------------
(* Admission: the row and its operation_admitted receipt, in one transaction. *)
create_agent_task(o) ==
    /\ Serving
    /\ status[o] = "none"
    /\ status' = [status EXCEPT ![o] = "queued"]
    /\ owed' = owed \cup {o}
    /\ UNCHANGED <<runs, turns, started, log, registryVars, pauseVars, mode, faults, crashes>>

(* launch_admitted returns or raises. *)
Return(l) ==
    /\ lpc' = [lpc EXCEPT ![l] = "idle"]
    /\ lop' = [lop EXCEPT ![l] = NoOp]

(***************************************************************************)
(* launch_admitted, up to its registry and status checks.  An ordinary row *)
(* is launched once, by the call that admitted it; queued Auto-research    *)
(* rows and reports are launched again by every reconciliation pass.       *)
(***************************************************************************)
launch_admitted(l, o) ==
    /\ Serving
    /\ lpc[l] = "idle"
    /\ lock = NoLauncher
    /\ o \in owed \cup AutoRows \cup Reports
    /\ status[o] # "none"
    /\ owed' = owed \ {o}
    /\ \/ /\ workers[o] = 0 /\ status[o] = "queued"
          /\ lpc' = [lpc EXCEPT ![l] = "checked"]
          /\ lop' = [lop EXCEPT ![l] = o]
       \/ /\ workers[o] # 0 \/ status[o] # "queued"
          /\ o \in owed
          /\ UNCHANGED <<lpc, lop>>
    /\ UNCHANGED <<status, runs, turns, started, log, workers, made, wpc, flags, lock,
                   pauseVars, mode, faults, crashes>>

(* The receipt proof: without it the launch is refused as ambiguous. *)
ProveLaunch(l) ==
    /\ Serving
    /\ lpc[l] = "checked"
    /\ IF ProvenNotStarted(lop[l])
         THEN lpc' = [lpc EXCEPT ![l] = "proven"] /\ UNCHANGED lop
         ELSE Return(l)
    /\ UNCHANGED <<status, runs, turns, started, log, owed, workers, made, wpc, flags,
                   lock, pauseVars, mode, faults, crashes>>

(* _spawn_record enters _controls_lock, re-reads, and registers its claim. *)
_spawn_record(l) ==
    /\ Serving
    /\ lpc[l] = "proven"
    /\ lock = NoLauncher
    /\ LET o == lop[l] IN
       \/ /\ workers[o] = 0 /\ status[o] = "queued"
          /\ made[o] < MaxSpawns
          /\ made' = [made EXCEPT ![o] = @ + 1]
          /\ workers' = [workers EXCEPT ![o] = made[o] + 1]
          /\ lock' = l
          /\ lpc' = [lpc EXCEPT ![l] = "claimed"]
          /\ UNCHANGED lop
       \/ /\ workers[o] # 0 \/ status[o] # "queued"
          /\ Return(l)
          /\ UNCHANGED <<workers, made, lock>>
    /\ UNCHANGED <<status, runs, turns, started, log, owed, wpc, flags, pauseVars, mode,
                   faults, crashes>>

AttemptReceipt(l) ==
    /\ Serving
    /\ lpc[l] = "claimed"
    /\ RecordAttempt(lop[l], workers[lop[l]])
    /\ lpc' = [lpc EXCEPT ![l] = "attempted"]
    /\ UNCHANGED <<status, runs, turns, started, owed, workers, made, wpc, flags, lop, lock,
                   pauseVars, mode, faults, crashes>>

(* A receipt, or the thread itself, fails: the claim is withdrawn. *)
SpawnFails(l) ==
    /\ Serving
    /\ lpc[l] \in {"claimed", "attempted"}
    /\ faults < MaxFaults
    /\ LET o == lop[l] IN
       /\ \/ RecordOutcome(o, workers[o], "failed_before_start")
          \/ UNCHANGED log
       /\ workers' = [workers EXCEPT ![o] = 0]
       /\ flags' = flags \ {<<o, workers[o]>>}
    /\ faults' = faults + 1
    /\ lock' = NoLauncher
    /\ Return(l)
    /\ UNCHANGED <<status, runs, turns, started, owed, made, wpc, pauseVars, mode, crashes>>

StartThread(l) ==
    /\ Serving
    /\ lpc[l] = "attempted"
    /\ LET o == lop[l] IN
       /\ wpc' = [wpc EXCEPT ![o][workers[o]] = "starting"]
       /\ runs' = [runs EXCEPT ![o] = @ + 1]
    /\ lpc' = [lpc EXCEPT ![l] = "started"]
    /\ UNCHANGED <<status, turns, started, log, owed, workers, made, flags, lop, lock,
                   pauseVars, mode, faults, crashes>>

StartedReceipt(l) ==
    /\ Serving
    /\ lpc[l] = "started"
    /\ RecordOutcomeOrLoseIt(lop[l], workers[lop[l]], "started")
    /\ lock' = NoLauncher
    /\ Return(l)
    /\ UNCHANGED <<status, runs, turns, started, owed, workers, made, wpc, flags,
                   pauseVars, mode, crashes>>

-----------------------------------------------------------------------------
(* _run, one action per point where another thread can get in between. *)
WorkerReads(o, a) ==
    /\ wpc[o][a] = "starting"
    /\ wpc' = [wpc EXCEPT ![o][a] =
                 IF status[o] = "pausing" \/ <<o, a>> \in flags THEN "prepause" ELSE "ready"]
    /\ UNCHANGED <<status, runs, turns, started, log, owed, workers, made, flags, lpc, lop,
                   lock, pauseVars, mode, faults, crashes>>

PausesBeforeRunning(o, a) ==
    /\ wpc[o][a] = "prepause"
    /\ status' = [status EXCEPT ![o] = Transition(@, "paused")]
    /\ wpc' = [wpc EXCEPT ![o][a] = "settled"]
    /\ UNCHANGED <<runs, turns, started, log, owed, workers, made, flags, lpc, lop, lock,
                   pauseVars, mode, faults, crashes>>

(* Mutant: the row is marked running without the guarded transition. *)
mark_running_Unguarded(o, a) ==
    /\ wpc[o][a] = "ready"
    /\ status' = [status EXCEPT ![o] = "running"]
    /\ started' = started \cup {o}
    /\ wpc' = [wpc EXCEPT ![o][a] = "streaming"]
    /\ UNCHANGED <<runs, turns, log, owed, workers, made, flags, lpc, lop, lock,
                   pauseVars, mode, faults, crashes>>

(* A refused transition to running is only logged: the worker goes on. *)
mark_agent_task_running(o, a) ==
    /\ wpc[o][a] = "ready"
    /\ status' = [status EXCEPT ![o] = Transition(@, "running")]
    /\ started' = IF status[o] = "queued" THEN started \cup {o} ELSE started
    /\ wpc' = [wpc EXCEPT ![o][a] = "streaming"]
    /\ UNCHANGED <<runs, turns, log, owed, workers, made, flags, lpc, lop, lock,
                   pauseVars, mode, faults, crashes>>

(* A storage error outside _run's try block ends the thread while registered. *)
WorkerDies(o, a) ==
    /\ wpc[o][a] \in {"starting", "ready"}
    /\ faults < MaxFaults
    /\ faults' = faults + 1
    /\ wpc' = [wpc EXCEPT ![o][a] = "dead"]
    /\ UNCHANGED <<status, runs, turns, started, log, owed, workers, made, flags, lpc, lop,
                   lock, pauseVars, mode, crashes>>

(* The launcher's last look at the control before the provider process. *)
StartsProvider(o, a) ==
    /\ wpc[o][a] = "streaming"
    /\ IF <<o, a>> \in flags
         THEN wpc' = [wpc EXCEPT ![o][a] = "ended_paused"] /\ UNCHANGED turns
         ELSE /\ wpc' = [wpc EXCEPT ![o][a] = "provider"]
              /\ turns' = [turns EXCEPT ![o] = @ + 1]
    /\ UNCHANGED <<status, runs, started, log, owed, workers, made, flags, lpc, lop, lock,
                   pauseVars, mode, faults, crashes>>

(***************************************************************************)
(* The stream ends with an answer, an error, or a pause: one asked for, or *)
(* the loss of the canonical run lock, which a report run does not take.   *)
(***************************************************************************)
StreamEnds(o, a) ==
    /\ wpc[o][a] \in {"streaming", "provider"}
    /\ \E e \in Ended :
          /\ e \in {"ended_done", "ended_norevision"} => wpc[o][a] = "provider"
          /\ e = "ended_norevision" => o \in Ingest
          /\ e = "ended_paused" => o \notin Reports \/ <<o, a>> \in flags
          /\ wpc' = [wpc EXCEPT ![o][a] = e]
    /\ UNCHANGED <<status, runs, turns, started, log, owed, workers, made, flags, lpc,
                   lop, lock, pauseVars, mode, faults, crashes>>

(* An ingest run that applied no revision pauses if it was asked to, else fails. *)
Verdict(o, a) ==
    IF wpc[o][a] = "ended_done" THEN "succeeded"
    ELSE IF \/ wpc[o][a] = "ended_paused"
            \/ wpc[o][a] = "ended_norevision" /\ <<o, a>> \in flags
      THEN "paused" ELSE "failed"

Settles(o, a) ==
    /\ wpc[o][a] \in Ended
    /\ status' = [status EXCEPT ![o] = Transition(@, Verdict(o, a))]
    /\ wpc' = [wpc EXCEPT ![o][a] = "settled"]
    /\ UNCHANGED <<runs, turns, started, log, owed, workers, made, flags, lpc, lop, lock,
                   pauseVars, mode, faults, crashes>>

(* The settlement write itself fails; _run's finally still forgets the control. *)
SettlementFails(o, a) ==
    /\ wpc[o][a] \in Ended \cup {"prepause"}
    /\ faults < MaxFaults
    /\ faults' = faults + 1
    /\ wpc' = [wpc EXCEPT ![o][a] = IF wpc[o][a] = "prepause" THEN "dead" ELSE "settled"]
    /\ UNCHANGED <<status, runs, turns, started, log, owed, workers, made, flags, lpc, lop,
                   lock, pauseVars, mode, crashes>>

_forget_control(o, a) ==
    /\ wpc[o][a] = "settled"
    /\ lock = NoLauncher
    /\ workers' = [workers EXCEPT ![o] = 0]
    /\ flags' = flags \ {<<o, a>>}
    /\ wpc' = [wpc EXCEPT ![o][a] = "dead"]
    /\ UNCHANGED <<status, runs, turns, started, log, owed, made, lpc, lop, lock, pauseVars,
                   mode, faults, crashes>>

-----------------------------------------------------------------------------
(* pause: the durable request first, the in-process signal second. *)
pause(o) ==
    /\ Serving
    /\ o \notin Reports
    /\ pauses < MaxPauses
    /\ status[o] \in AGENT_TASK_TRANSITIONS["pausing"]
    /\ status' = [status EXCEPT ![o] = "pausing"]
    /\ signals' = signals \cup {o}
    /\ pauses' = pauses + 1
    /\ UNCHANGED <<runs, turns, started, log, owed, registryVars, removing, draining, mode,
                   faults, crashes>>

_signal_agent_task_pause(o) ==
    /\ Serving
    /\ o \in signals
    /\ lock = NoLauncher
    /\ signals' = signals \ {o}
    /\ flags' = IF workers[o] = 0 THEN flags ELSE flags \cup {<<o, workers[o]>>}
    /\ UNCHANGED <<status, runs, turns, started, log, owed, workers, made, wpc, lpc, lop, lock,
                   removing, draining, pauses, mode, faults, crashes>>

(* request_member_removal_pause: request, then look for a live worker, and
   only for an unowned row also the settlement itself. *)
request_member_removal_pause(o) ==
    /\ Serving
    /\ o \in Removable
    /\ removing[o] = "no"
    /\ pauses < MaxPauses
    /\ status[o] \in AGENT_TASK_TRANSITIONS["pausing"]
    /\ status' = [status EXCEPT ![o] = "pausing"]
    /\ removing' = [removing EXCEPT ![o] = "requested"]
    /\ pauses' = pauses + 1
    /\ UNCHANGED <<runs, turns, started, log, owed, registryVars, signals, draining, mode,
                   faults, crashes>>

(* Mutant: every requested row is taken for unowned. *)
RemovalLooksForWorker_Never(o) ==
    /\ Serving
    /\ removing[o] = "requested"
    /\ lock = NoLauncher
    /\ removing' = [removing EXCEPT ![o] = "unowned"]
    /\ UNCHANGED <<status, runs, turns, started, log, owed, registryVars, signals,
                   draining, pauses, mode, faults, crashes>>

RemovalLooksForWorker(o) ==
    /\ Serving
    /\ removing[o] = "requested"
    /\ lock = NoLauncher
    /\ removing' = [removing EXCEPT ![o] =
                      IF workers[o] # 0 /\ wpc[o][workers[o]] \in Alive
                        THEN "no" ELSE "unowned"]
    /\ UNCHANGED <<status, runs, turns, started, log, owed, registryVars, signals, draining,
                   pauses, mode, faults, crashes>>

RemovalSettlesUnowned(o) ==
    /\ Serving
    /\ removing[o] = "unowned"
    /\ status' = [status EXCEPT ![o] = Transition(@, "paused")]
    /\ removing' = [removing EXCEPT ![o] = "no"]
    /\ UNCHANGED <<runs, turns, started, log, owed, registryVars, signals, draining, pauses,
                   mode, faults, crashes>>

(* shutdown: snapshot the controls, then request and signal each in turn. *)
shutdown ==
    /\ mode = "up"
    /\ crashes < MaxCrashes
    /\ lock = NoLauncher
    /\ mode' = "stopping"
    /\ draining' = {<<o, workers[o]>> : o \in {p \in Ops : workers[p] # 0}}
    /\ UNCHANGED <<status, runs, turns, started, log, owed, registryVars, signals, removing,
                   pauses, faults, crashes>>

ShutdownPauses(o, a) ==
    /\ mode = "stopping"
    /\ <<o, a>> \in draining
    /\ draining' = draining \ {<<o, a>>}
    /\ status' = [status EXCEPT ![o] = Transition(@, "pausing")]
    /\ flags' = flags \cup {<<o, a>>}
    /\ UNCHANGED <<runs, turns, started, log, owed, workers, made, wpc, lpc, lop, lock,
                   signals, removing, pauses, mode, faults, crashes>>

-----------------------------------------------------------------------------
(* The process dies (a crash, or the end of shutdown's bounded join): every
   thread and every in-memory claim goes with it, the ledger stays. *)
ProcessDies ==
    /\ Serving
    /\ crashes < MaxCrashes
    /\ crashes' = crashes + 1
    /\ mode' = "down"
    /\ owed' = {}
    /\ workers' = [o \in Ops |-> 0]
    /\ wpc' = [o \in Ops |-> [a \in Attempts |->
                 IF wpc[o][a] = "none" THEN "none" ELSE "dead"]]
    /\ flags' = {}
    /\ lpc' = [l \in Launchers |-> "idle"]
    /\ lop' = [l \in Launchers |-> NoOp]
    /\ lock' = NoLauncher
    /\ signals' = {}
    /\ removing' = [o \in Ops |-> "no"]
    /\ draining' = {}
    /\ UNCHANGED <<status, runs, turns, started, log, made, pauses, faults>>

(* recover_at_startup: every live row is interrupted, except an Auto-research
   dispatch whose receipts prove no thread ever began. *)
Preserved == {o \in AutoRows : ProvenNotStarted(o)}

(* Mutant: only running rows are interrupted. *)
recover_RunningOnly ==
    /\ mode = "down"
    /\ mode' = "up"
    /\ status' = [o \in Ops |-> IF status[o] = "running" THEN "interrupted" ELSE status[o]]
    /\ UNCHANGED <<runs, turns, started, log, owed, registryVars, pauseVars, faults,
                   crashes>>

recover_at_startup ==
    /\ mode = "down"
    /\ mode' = "up"
    /\ status' = [o \in Ops |->
                    IF status[o] \in AGENT_TASK_TRANSITIONS["interrupted"] /\ o \notin Preserved
                      THEN "interrupted" ELSE status[o]]
    /\ UNCHANGED <<runs, turns, started, log, owed, registryVars, pauseVars, faults, crashes>>

(* requeue_interrupted_episode_report_allocation, at startup or in a later
   reconciliation pass of the same process. *)
requeue_report(o) ==
    /\ Serving
    /\ o \in Reports
    /\ status[o] \in {"interrupted", "paused"}
    /\ made[o] < MaxSpawns
    /\ status' = [status EXCEPT ![o] = "queued"]
    /\ started' = started \ {o}
    /\ log' = [log EXCEPT ![o].reset = TRUE]
    /\ runs' = [runs EXCEPT ![o] = 0]
    /\ turns' = [turns EXCEPT ![o] = 0]
    /\ UNCHANGED <<owed, registryVars, pauseVars, mode, faults, crashes>>

-----------------------------------------------------------------------------
LauncherStep(l) ==
    \/ ProveLaunch(l)
    \/ _spawn_record(l)
    \/ AttemptReceipt(l)
    \/ SpawnFails(l)
    \/ StartThread(l)
    \/ StartedReceipt(l)

_run(o, a) ==
    \/ WorkerReads(o, a)
    \/ PausesBeforeRunning(o, a)
    \/ mark_agent_task_running(o, a)
    \/ WorkerDies(o, a)
    \/ StartsProvider(o, a)
    \/ StreamEnds(o, a)
    \/ Settles(o, a)
    \/ SettlementFails(o, a)
    \/ _forget_control(o, a)

PauseStep(o) ==
    \/ pause(o)
    \/ _signal_agent_task_pause(o)
    \/ request_member_removal_pause(o)
    \/ RemovalLooksForWorker(o)
    \/ RemovalSettlesUnowned(o)

Next ==
    \/ \E o \in Ops : create_agent_task(o) \/ requeue_report(o) \/ PauseStep(o)
    \/ \E l \in Launchers : LauncherStep(l) \/ (\E o \in Ops : launch_admitted(l, o))
    \/ \E o \in Ops, a \in Attempts : _run(o, a) \/ ShutdownPauses(o, a)
    \/ shutdown
    \/ ProcessDies
    \/ recover_at_startup

Spec == Init /\ [][Next]_vars

(***************************************************************************)
(* Threads are scheduled, a started turn ends, a dead server is restarted. *)
(* Nothing obliges a human to act, a fault to happen or a process to die.  *)
(***************************************************************************)
LauncherProgress(l) ==
    \/ ProveLaunch(l)
    \/ _spawn_record(l)
    \/ AttemptReceipt(l)
    \/ StartThread(l)
    \/ StartedReceipt(l)

WorkerProgress(o, a) ==
    \/ WorkerReads(o, a)
    \/ PausesBeforeRunning(o, a)
    \/ mark_agent_task_running(o, a)
    \/ StartsProvider(o, a)
    \/ StreamEnds(o, a)
    \/ Settles(o, a)
    \/ _forget_control(o, a)

Fairness ==
    /\ \A l \in Launchers : WF_vars(LauncherProgress(l))
    /\ \A o \in Ops : /\ WF_vars(\E l \in Launchers : launch_admitted(l, o))
                      /\ WF_vars(_signal_agent_task_pause(o))
                      /\ WF_vars(RemovalLooksForWorker(o) \/ RemovalSettlesUnowned(o))
    /\ \A o \in Ops, a \in Attempts : WF_vars(WorkerProgress(o, a))
    /\ WF_vars(recover_at_startup)

FairSpec == Spec /\ Fairness

-----------------------------------------------------------------------------
TypeOK ==
    /\ status \in [Ops -> Statuses]
    /\ runs \in [Ops -> Nat]
    /\ turns \in [Ops -> Nat]
    /\ started \subseteq Ops
    /\ log \in [Ops -> Receipts]
    /\ owed \subseteq Ops
    /\ workers \in [Ops -> 0..MaxSpawns]
    /\ made \in [Ops -> 0..MaxSpawns]
    /\ wpc \in [Ops -> [Attempts -> WorkerStates]]
    /\ flags \subseteq Ops \X Attempts
    /\ lpc \in [Launchers -> LauncherStates]
    /\ lop \in [Launchers -> Ops \cup {NoOp}]
    /\ lock \in Launchers \cup {NoLauncher}
    /\ signals \subseteq Ops
    /\ removing \in [Ops -> {"no", "requested", "unowned"}]
    /\ draining \subseteq Ops \X Attempts
    /\ mode \in {"up", "stopping", "down"}
    /\ faults \in 0..MaxFaults /\ crashes \in 0..MaxCrashes /\ pauses \in 0..MaxPauses

(***************************************************************************)
(* Registry membership is the one in-process dispatch claim: every live    *)
(* worker thread is the registered one, so a row never has two.            *)
(***************************************************************************)
OneLiveWorker ==
    \A o \in Ops, a \in Attempts : wpc[o][a] \in Alive => workers[o] = a

(***************************************************************************)
(* The durable receipts never vouch for a thread that did begin, across    *)
(* lost receipts, failed starts, process deaths and report requeues.       *)
(***************************************************************************)
ReceiptProofSound ==
    \A o \in Ops : ProvenNotStarted(o) => runs[o] = 0

(***************************************************************************)
(* A worker that has not settled its row still finds it live: no pause,    *)
(* removal, recovery or requeue settles a row under a working thread.      *)
(***************************************************************************)
WorkerOwnsLiveRow ==
    \A o \in Ops, a \in Attempts : wpc[o][a] \in Unsettled => status[o] \in Active

(***************************************************************************)
(* Every admitted row settles: launched, run and given a verdict, or       *)
(* interrupted by a restart.                                               *)
(***************************************************************************)
EveryTaskSettles ==
    \A o \in Ops : status[o] \in Active ~> status[o] \in Settled

(***************************************************************************)
(* A registered worker is eventually forgotten, so the runtime can become  *)
(* idle for an update or a shutdown.                                       *)
(***************************************************************************)
WorkersAreForgotten ==
    \A o \in Ops : workers[o] # 0 ~> workers[o] = 0

(***************************************************************************)
(* The engine comes to rest: no row is left without a verdict and no       *)
(* worker is left in the registry.                                         *)
(***************************************************************************)
EngineDrains == EveryTaskSettles /\ WorkersAreForgotten
=============================================================================
