------------------------- MODULE AgentDispatchProofs -------------------------
(***************************************************************************)
(* The engine for every set of rows and launchers and every value of the   *)
(* bounds: its types, its safety, and that it implements the task ledger.  *)
(***************************************************************************)
EXTENDS AgentDispatch, TLAPS

(* A launcher that is under way has a row. *)
TypeInv == TypeOK /\ \A l \in Launchers : lpc[l] # "idle" => lop[l] \in Ops

-----------------------------------------------------------------------------
(***************************************************************************)
(* The guarded transition, as the rows of AGENT_TASK_TRANSITIONS.          *)
(***************************************************************************)
LEMMA TransitionTable ==
    /\ AGENT_TASK_TRANSITIONS["running"] = {"queued"}
    /\ AGENT_TASK_TRANSITIONS["pausing"] = {"queued", "running"}
    /\ \A to \in Settled : AGENT_TASK_TRANSITIONS[to] = Active
  BY DEF AGENT_TASK_TRANSITIONS, Settled

(* A guarded transition moves the row to its target or leaves it alone. *)
LEMMA TransitionResult ==
    ASSUME NEW s \in Statuses, NEW to \in {"running", "pausing"} \cup Settled
    PROVE  /\ Transition(s, to) \in {s, to}
           /\ Transition(s, to) \in Statuses
           /\ Transition(s, to) # s => s \in AGENT_TASK_TRANSITIONS[to]
           /\ Transition(s, "running") = IF s = "queued" THEN "running" ELSE s
           /\ Transition(s, "pausing") = IF s \in {"queued", "running"} THEN "pausing" ELSE s
           /\ to \in Settled /\ s \in Active => Transition(s, to) = to
  BY TransitionTable DEF Transition, Statuses, Active, Settled

(* Whatever way a stream ends, the verdict on it is a settled status. *)
LEMMA VerdictSettles ==
    ASSUME NEW o, NEW a
    PROVE  Verdict(o, a) \in Settled
  BY DEF Verdict, Settled

(* Recording an attempt, an outcome or a reset keeps the ledger well-formed. *)
LEMMA ReceiptUpdates ==
    ASSUME TypeOK, NEW o \in Ops, NEW a \in Nat,
           NEW outcome \in {"failed_before_start", "started"},
           \/ RecordAttempt(o, a)
           \/ RecordOutcome(o, a, outcome)
           \/ log' = [log EXCEPT ![o].reset = TRUE]
    PROVE  log' \in [Ops -> Receipts]
  <1>1. log \in [Ops -> Receipts] /\ log[o] \in Receipts
    BY DEF TypeOK
  <1>2. CASE RecordAttempt(o, a)
    <2>1. [attempt |-> a, outcome |-> log[o].outcome, outcomeOf |-> log[o].outcomeOf,
           reset |-> FALSE] \in Receipts
      BY <1>1 DEF Receipts
    <2> QED BY <1>1, <1>2, <2>1 DEF RecordAttempt
  <1>3. CASE RecordOutcome(o, a, outcome)
    <2>1. [attempt |-> log[o].attempt, outcome |-> outcome, outcomeOf |-> a,
           reset |-> FALSE] \in Receipts
      BY <1>1 DEF Receipts
    <2> QED BY <1>1, <1>3, <2>1 DEF RecordOutcome
  <1>4. CASE log' = [log EXCEPT ![o].reset = TRUE]
    <2>1. [log[o] EXCEPT !.reset = TRUE] \in Receipts
      BY <1>1 DEF Receipts
    <2> QED BY <1>1, <1>4, <2>1
  <1> QED BY <1>2, <1>3, <1>4

(* The worker states, spelled out. *)
LEMMA WorkerStatesAre ==
    /\ {"none", "dead", "starting", "ready", "streaming", "prepause", "provider",
        "settled"} \subseteq WorkerStates
    /\ Ended \subseteq WorkerStates
    /\ "ended_paused" \in WorkerStates
  BY DEF WorkerStates, Alive, Unsettled, BeforeTurn, Ended

(* The empty ledger of an idle engine is well-typed. *)
LEMMA TypeInvInit == Init => TypeInv
  BY DispatchAssumption, WorkerStatesAre
  DEF Init, LifecycleInit, TypeInv, TypeOK, NoReceipts, Receipts, Attempts,
      LauncherStates, Statuses

(* Every action of the engine keeps its state well-typed. *)
LEMMA TypeInvStep ==
    ASSUME TypeInv, [Next]_vars
    PROVE  TypeInv'
  <1> USE DispatchAssumption DEF TypeInv, TypeOK, Attempts, pauseVars, registryVars
  <1>1. ASSUME NEW o \in Ops, create_agent_task(o) PROVE TypeInv'
    <2>1. status' \in [Ops -> Statuses]
      BY <1>1 DEF create_agent_task, Statuses, Active, Settled
    <2>2. owed' \subseteq Ops
      BY <1>1 DEF create_agent_task
    <2> QED BY <1>1, <2>1, <2>2 DEF create_agent_task
  <1>2. ASSUME NEW o \in Ops, requeue_report(o) PROVE TypeInv'
    <2>1. status' \in [Ops -> Statuses]
      BY <1>2 DEF requeue_report, Statuses, Active, Settled
    <2>2. started' \subseteq Ops
      BY <1>2 DEF requeue_report
    <2>3. log' \in [Ops -> Receipts]
      BY <1>2, ReceiptUpdates DEF requeue_report
    <2>4. runs' \in [Ops -> Nat]
      BY <1>2 DEF requeue_report
    <2>5. turns' \in [Ops -> Nat]
      BY <1>2 DEF requeue_report
    <2> QED BY <1>2, <2>1, <2>2, <2>3, <2>4, <2>5 DEF requeue_report
  <1>3. ASSUME NEW o \in Ops, PauseStep(o) PROVE TypeInv'
    <2>1. CASE pause(o)
      <3>1. status' \in [Ops -> Statuses]
        BY <2>1 DEF pause, Statuses, Active, Settled
      <3>2. signals' \subseteq Ops
        BY <2>1 DEF pause
      <3>3. pauses' \in 0..MaxPauses
        BY <2>1 DEF pause
      <3> QED BY <2>1, <3>1, <3>2, <3>3 DEF pause
    <2>2. CASE _signal_agent_task_pause(o)
      <3>1. signals' \subseteq Ops
        BY <2>2 DEF _signal_agent_task_pause
      <3>2. flags' \subseteq Ops \X Attempts
        BY <2>2 DEF _signal_agent_task_pause
      <3> QED BY <2>2, <3>1, <3>2 DEF _signal_agent_task_pause
    <2>3. CASE request_member_removal_pause(o)
      <3>1. status' \in [Ops -> Statuses]
        BY <2>3 DEF request_member_removal_pause, Statuses, Active, Settled
      <3>2. removing' \in [Ops -> {"no", "requested", "unowned"}]
        BY <2>3 DEF request_member_removal_pause
      <3>3. pauses' \in 0..MaxPauses
        BY <2>3 DEF request_member_removal_pause
      <3> QED BY <2>3, <3>1, <3>2, <3>3 DEF request_member_removal_pause
    <2>4. CASE RemovalLooksForWorker(o)
      <3>1. removing' \in [Ops -> {"no", "requested", "unowned"}]
        BY <2>4 DEF RemovalLooksForWorker
      <3> QED BY <2>4, <3>1 DEF RemovalLooksForWorker
    <2>5. CASE RemovalSettlesUnowned(o)
      <3>0. Transition(status[o], "paused") \in Statuses
        BY TransitionResult DEF Settled
      <3>1. status' \in [Ops -> Statuses]
        BY <2>5, <3>0 DEF RemovalSettlesUnowned
      <3>2. removing' \in [Ops -> {"no", "requested", "unowned"}]
        BY <2>5 DEF RemovalSettlesUnowned
      <3> QED BY <2>5, <3>1, <3>2 DEF RemovalSettlesUnowned
    <2> QED BY <1>3, <2>1, <2>2, <2>3, <2>4, <2>5 DEF PauseStep
  <1>4. ASSUME NEW l \in Launchers, NEW o \in Ops, launch_admitted(l, o) PROVE TypeInv'
    <2>1. owed' \subseteq Ops
      BY <1>4 DEF launch_admitted
    <2>2. lpc' \in [Launchers -> LauncherStates]
      BY <1>4 DEF launch_admitted, LauncherStates
    <2>3. lop' \in [Launchers -> Ops \cup {NoOp}]
      BY <1>4 DEF launch_admitted
    <2>4. \A k \in Launchers : lpc'[k] # "idle" => lop'[k] \in Ops
      BY <1>4 DEF launch_admitted
    <2> QED BY <1>4, <2>1, <2>2, <2>3, <2>4 DEF launch_admitted
  <1>5. ASSUME NEW l \in Launchers, LauncherStep(l) PROVE TypeInv'
    <2>1. CASE ProveLaunch(l)
      <3>1. lpc' \in [Launchers -> LauncherStates]
        BY <2>1 DEF ProveLaunch, Return, LauncherStates
      <3>2. lop' \in [Launchers -> Ops \cup {NoOp}]
        BY <2>1 DEF ProveLaunch, Return
      <3>3. \A k \in Launchers : lpc'[k] # "idle" => lop'[k] \in Ops
        BY <2>1 DEF ProveLaunch, Return
      <3> QED BY <2>1, <3>1, <3>2, <3>3 DEF ProveLaunch, Return
    <2>2. CASE _spawn_record(l)
      <3>1. CASE /\ workers[lop[l]] = 0 /\ status[lop[l]] = "queued"
                 /\ made[lop[l]] < MaxSpawns
                 /\ made' = [made EXCEPT ![lop[l]] = @ + 1]
                 /\ workers' = [workers EXCEPT ![lop[l]] = made[lop[l]] + 1]
                 /\ lock' = l
                 /\ lpc' = [lpc EXCEPT ![l] = "claimed"]
                 /\ UNCHANGED lop
        <4>1. lop[l] \in Ops /\ made[lop[l]] + 1 \in 0..MaxSpawns
          BY <2>2, <3>1 DEF _spawn_record
        <4>2. workers' \in [Ops -> 0..MaxSpawns] /\ made' \in [Ops -> 0..MaxSpawns]
          BY <3>1, <4>1
        <4>3. lpc' \in [Launchers -> LauncherStates]
          BY <3>1 DEF LauncherStates
        <4>4. \A k \in Launchers : lpc'[k] # "idle" => lop'[k] \in Ops
          BY <3>1, <4>1
        <4> QED BY <2>2, <3>1, <4>2, <4>3, <4>4 DEF _spawn_record
      <3>2. CASE Return(l) /\ UNCHANGED <<workers, made, lock>>
        <4>1. lpc' \in [Launchers -> LauncherStates] /\ lop' \in [Launchers -> Ops \cup {NoOp}]
          BY <3>2 DEF Return, LauncherStates
        <4>2. \A k \in Launchers : lpc'[k] # "idle" => lop'[k] \in Ops
          BY <3>2 DEF Return
        <4> QED BY <2>2, <3>2, <4>1, <4>2 DEF _spawn_record
      <3> QED BY <2>2, <3>1, <3>2 DEF _spawn_record
    <2>3. CASE AttemptReceipt(l)
      <3>1. log' \in [Ops -> Receipts]
        <4>1. lop[l] \in Ops /\ workers[lop[l]] \in Nat
          BY <2>3 DEF AttemptReceipt
        <4> QED BY <2>3, <4>1, ReceiptUpdates DEF AttemptReceipt
      <3>2. lpc' \in [Launchers -> LauncherStates]
        BY <2>3 DEF AttemptReceipt, RecordAttempt, LauncherStates
      <3>3. \A k \in Launchers : lpc'[k] # "idle" => lop'[k] \in Ops
        BY <2>3 DEF AttemptReceipt, RecordAttempt
      <3> QED BY <2>3, <3>1, <3>2, <3>3 DEF AttemptReceipt, RecordAttempt
    <2>4. CASE SpawnFails(l)
      <3>1. log' \in [Ops -> Receipts]
        <4>1. CASE RecordOutcome(lop[l], workers[lop[l]], "failed_before_start")
          <5>1. lop[l] \in Ops /\ workers[lop[l]] \in Nat
            BY <2>4 DEF SpawnFails
          <5> QED BY <2>4, <4>1, <5>1, ReceiptUpdates DEF SpawnFails
        <4> QED BY <2>4, <4>1 DEF SpawnFails
      <3>2. workers' \in [Ops -> 0..MaxSpawns]
        BY <2>4 DEF SpawnFails, RecordOutcome, Return
      <3>3. flags' \subseteq Ops \X Attempts
        BY <2>4 DEF SpawnFails, RecordOutcome, Return
      <3>4. faults' \in 0..MaxFaults
        BY <2>4 DEF SpawnFails, RecordOutcome, Return
      <3>5. lpc' \in [Launchers -> LauncherStates]
        BY <2>4 DEF SpawnFails, RecordOutcome, Return, LauncherStates
      <3>6. lop' \in [Launchers -> Ops \cup {NoOp}]
        BY <2>4 DEF SpawnFails, RecordOutcome, Return
      <3>7. \A k \in Launchers : lpc'[k] # "idle" => lop'[k] \in Ops
        BY <2>4 DEF SpawnFails, RecordOutcome, Return
      <3> QED BY <2>4, <3>1, <3>2, <3>3, <3>4, <3>5, <3>6, <3>7 DEF SpawnFails, RecordOutcome, Return
    <2>5. CASE StartThread(l)
      <3>1. wpc' \in [Ops -> [Attempts -> WorkerStates]]
        BY <2>5, WorkerStatesAre DEF StartThread
      <3>2. runs' \in [Ops -> Nat]
        BY <2>5 DEF StartThread
      <3>3. lpc' \in [Launchers -> LauncherStates]
        BY <2>5 DEF StartThread, LauncherStates
      <3>4. \A k \in Launchers : lpc'[k] # "idle" => lop'[k] \in Ops
        BY <2>5 DEF StartThread
      <3> QED BY <2>5, <3>1, <3>2, <3>3, <3>4 DEF StartThread
    <2>6. CASE StartedReceipt(l)
      <3>1. log' \in [Ops -> Receipts]
        <4>1. CASE RecordOutcome(lop[l], workers[lop[l]], "started")
          <5>1. lop[l] \in Ops /\ workers[lop[l]] \in Nat
            BY <2>6 DEF StartedReceipt
          <5> QED BY <2>6, <4>1, <5>1, ReceiptUpdates DEF StartedReceipt
        <4> QED BY <2>6, <4>1 DEF StartedReceipt, RecordOutcomeOrLoseIt
      <3>2. faults' \in 0..MaxFaults
        BY <2>6 DEF StartedReceipt, RecordOutcomeOrLoseIt, RecordOutcome, Return
      <3>3. lpc' \in [Launchers -> LauncherStates]
        BY <2>6 DEF StartedReceipt, RecordOutcomeOrLoseIt, RecordOutcome, Return, LauncherStates
      <3>4. lop' \in [Launchers -> Ops \cup {NoOp}]
        BY <2>6 DEF StartedReceipt, RecordOutcomeOrLoseIt, RecordOutcome, Return
      <3>5. \A k \in Launchers : lpc'[k] # "idle" => lop'[k] \in Ops
        BY <2>6 DEF StartedReceipt, RecordOutcomeOrLoseIt, RecordOutcome, Return
      <3> QED BY <2>6, <3>1, <3>2, <3>3, <3>4, <3>5 DEF StartedReceipt, RecordOutcomeOrLoseIt, RecordOutcome, Return
    <2> QED BY <1>5, <2>1, <2>2, <2>3, <2>4, <2>5, <2>6 DEF LauncherStep
  <1>6. ASSUME NEW o \in Ops, NEW a \in Attempts, _run(o, a) PROVE TypeInv'
    <2>1. CASE WorkerReads(o, a)
      <3>1. wpc' \in [Ops -> [Attempts -> WorkerStates]]
        BY <2>1, WorkerStatesAre DEF WorkerReads
      <3> QED BY <2>1, <3>1 DEF WorkerReads
    <2>2. CASE PausesBeforeRunning(o, a)
      <3>0. Transition(status[o], "paused") \in Statuses
        BY TransitionResult DEF Settled
      <3>1. status' \in [Ops -> Statuses]
        BY <2>2, <3>0 DEF PausesBeforeRunning
      <3>2. wpc' \in [Ops -> [Attempts -> WorkerStates]]
        BY <2>2, WorkerStatesAre DEF PausesBeforeRunning
      <3> QED BY <2>2, <3>1, <3>2 DEF PausesBeforeRunning
    <2>3. CASE mark_agent_task_running(o, a)
      <3>0. Transition(status[o], "running") \in Statuses
        BY TransitionResult DEF Settled
      <3>1. status' \in [Ops -> Statuses]
        BY <2>3, <3>0 DEF mark_agent_task_running
      <3>2. started' \subseteq Ops
        BY <2>3 DEF mark_agent_task_running
      <3>3. wpc' \in [Ops -> [Attempts -> WorkerStates]]
        BY <2>3, WorkerStatesAre DEF mark_agent_task_running
      <3> QED BY <2>3, <3>1, <3>2, <3>3 DEF mark_agent_task_running
    <2>4. CASE WorkerDies(o, a)
      <3>1. wpc' \in [Ops -> [Attempts -> WorkerStates]]
        BY <2>4, WorkerStatesAre DEF WorkerDies
      <3>2. faults' \in 0..MaxFaults
        BY <2>4 DEF WorkerDies
      <3> QED BY <2>4, <3>1, <3>2 DEF WorkerDies
    <2>5. CASE StartsProvider(o, a)
      <3>1. wpc' \in [Ops -> [Attempts -> WorkerStates]]
        <4>1. "ended_paused" \in WorkerStates /\ "provider" \in WorkerStates
          BY WorkerStatesAre
        <4>2. PICK s \in WorkerStates : wpc' = [wpc EXCEPT ![o][a] = s]
          BY <2>5, <4>1 DEF StartsProvider
        <4> QED BY <4>2
      <3>2. turns' \in [Ops -> Nat]
        BY <2>5 DEF StartsProvider
      <3> QED BY <2>5, <3>1, <3>2 DEF StartsProvider
    <2>6. CASE StreamEnds(o, a)
      <3>1. wpc' \in [Ops -> [Attempts -> WorkerStates]]
        BY <2>6, WorkerStatesAre DEF StreamEnds
      <3> QED BY <2>6, <3>1 DEF StreamEnds
    <2>7. CASE Settles(o, a)
      <3>0. Transition(status[o], Verdict(o, a)) \in Statuses
        <4>1. Verdict(o, a) \in Settled BY VerdictSettles
        <4> QED BY <4>1, TransitionResult
      <3>1. status' \in [Ops -> Statuses]
        BY <2>7, <3>0 DEF Settles
      <3>2. wpc' \in [Ops -> [Attempts -> WorkerStates]]
        BY <2>7, WorkerStatesAre DEF Settles
      <3> QED BY <2>7, <3>1, <3>2 DEF Settles
    <2>8. CASE SettlementFails(o, a)
      <3>1. wpc' \in [Ops -> [Attempts -> WorkerStates]]
        BY <2>8, WorkerStatesAre DEF SettlementFails
      <3>2. faults' \in 0..MaxFaults
        BY <2>8 DEF SettlementFails
      <3> QED BY <2>8, <3>1, <3>2 DEF SettlementFails
    <2>9. CASE _forget_control(o, a)
      <3>1. workers' \in [Ops -> 0..MaxSpawns]
        BY <2>9 DEF _forget_control
      <3>2. flags' \subseteq Ops \X Attempts
        BY <2>9 DEF _forget_control
      <3>3. wpc' \in [Ops -> [Attempts -> WorkerStates]]
        BY <2>9, WorkerStatesAre DEF _forget_control
      <3> QED BY <2>9, <3>1, <3>2, <3>3 DEF _forget_control
    <2> QED
      BY <1>6, <2>1, <2>2, <2>3, <2>4, <2>5, <2>6, <2>7, <2>8, <2>9 DEF _run
  <1>7. ASSUME NEW o \in Ops, NEW a \in Attempts, ShutdownPauses(o, a) PROVE TypeInv'
    <2>0. Transition(status[o], "pausing") \in Statuses
      BY TransitionResult DEF Settled
    <2>1. status' \in [Ops -> Statuses]
      BY <1>7, <2>0 DEF ShutdownPauses
    <2>2. flags' \subseteq Ops \X Attempts
      BY <1>7 DEF ShutdownPauses
    <2>3. draining' \subseteq Ops \X Attempts
      BY <1>7 DEF ShutdownPauses
    <2> QED BY <1>7, <2>1, <2>2, <2>3 DEF ShutdownPauses
  <1>8. CASE shutdown
    <2>1. draining' \subseteq Ops \X Attempts
      BY <1>8 DEF shutdown
    <2>2. mode' \in {"up", "stopping", "down"}
      BY <1>8 DEF shutdown
    <2> QED BY <1>8, <2>1, <2>2 DEF shutdown
  <1>9. CASE ProcessDies
    <2>1. wpc' \in [Ops -> [Attempts -> WorkerStates]]
      BY <1>9, WorkerStatesAre DEF ProcessDies
    <2>2. workers' \in [Ops -> 0..MaxSpawns]
      BY <1>9 DEF ProcessDies
    <2>3. lpc' \in [Launchers -> LauncherStates]
      BY <1>9 DEF ProcessDies, LauncherStates
    <2>4. lop' \in [Launchers -> Ops \cup {NoOp}]
      BY <1>9 DEF ProcessDies
    <2>5. removing' \in [Ops -> {"no", "requested", "unowned"}]
      BY <1>9 DEF ProcessDies
    <2>6. mode' \in {"up", "stopping", "down"}
      BY <1>9 DEF ProcessDies
    <2>7. crashes' \in 0..MaxCrashes
      BY <1>9 DEF ProcessDies
    <2> QED BY <1>9, <2>1, <2>2, <2>3, <2>4, <2>5, <2>6, <2>7 DEF ProcessDies
  <1>10. CASE recover_at_startup
    <2>1. status' \in [Ops -> Statuses]
      BY <1>10 DEF recover_at_startup, Statuses, Active, Settled
    <2>2. mode' \in {"up", "stopping", "down"}
      BY <1>10 DEF recover_at_startup
    <2> QED BY <1>10, <2>1, <2>2 DEF recover_at_startup
  <1>11. CASE UNCHANGED vars BY <1>11 DEF vars
  <1> QED
    BY <1>1, <1>2, <1>3, <1>4, <1>5, <1>6, <1>7, <1>8, <1>9, <1>10, <1>11 DEF Next

(***************************************************************************)
(* Every reachable state of the engine and its ledger is well-typed, the   *)
(* spent bounds included, whatever the rows, launchers and bounds are.     *)
(***************************************************************************)
THEOREM TypeCorrect == Spec => []TypeOK
  <1>1. Init => TypeInv
    BY TypeInvInit
  <1>2. TypeInv /\ [Next]_vars => TypeInv'
    BY TypeInvStep
  <1>3. TypeInv => TypeOK
    BY DEF TypeInv
  <1> QED BY <1>1, <1>2, <1>3, PTL DEF Spec
-----------------------------------------------------------------------------
(***************************************************************************)
(* The dispatch engine's safety, for every set of rows and launchers and   *)
(* every value of the bounds, as long as no hidden report is authorized by *)
(* a member who is being removed: a removal that found such a row unowned  *)
(* can settle it after a requeue has given it a new thread.                *)
(*                                                                         *)
(* The inductive invariant follows one dispatch from the claim to the      *)
(* forgotten control: who holds _controls_lock (LockInv), what a claim     *)
(* still owns (ClaimInv), that attempt numbers are fresh (FreshInv), that  *)
(* a live thread is the registered one and its row is live (ThreadInv),    *)
(* what the receipts and the row say of a thread that began (ReceiptInv,   *)
(* QueueInv), that a removal only settles a row nobody can be working on   *)
(* (RemovalInv), and that a dead process owns nothing (DownInv).           *)
(***************************************************************************)

Claiming == {"claimed", "attempted"}

LockInv ==
    \A l \in Launchers : lpc[l] \in Claiming \cup {"started"} <=> lock = l

ClaimInv ==
    \A l \in Launchers :
        /\ lpc[l] \in Claiming \cup {"started"} =>
              /\ workers[lop[l]] = made[lop[l]]
              /\ made[lop[l]] \in Attempts
        /\ lpc[l] \in Claiming =>
              /\ wpc[lop[l]][made[lop[l]]] = "none"
              /\ runs[lop[l]] = 0
              /\ status[lop[l]] \in {"queued", "pausing"}
              /\ log[lop[l]].outcomeOf < made[lop[l]]
        /\ lpc[l] = "attempted" =>
              log[lop[l]].attempt = made[lop[l]] /\ ~log[lop[l]].reset

FreshInv ==
    \A o \in Ops :
        /\ workers[o] <= made[o]
        /\ log[o].outcomeOf <= made[o]
        /\ \A a \in Attempts : a > made[o] => wpc[o][a] = "none"

ThreadInv ==
    \A o \in Ops, a \in Attempts :
        /\ wpc[o][a] \in Alive => workers[o] = a
        /\ wpc[o][a] \in Unsettled => status[o] \in Active /\ runs[o] = 1
        /\ wpc[o][a] \in BeforeTurn \cup {"prepause"} => turns[o] = 0
        /\ wpc[o][a] \in {"streaming", "provider"} \cup Ended =>
              status[o] \in {"running", "pausing"}
        /\ wpc[o][a] = "settled" => status[o] # "queued" \/ runs[o] = 0

ReceiptInv ==
    \A o \in Ops :
        runs[o] > 0 =>
            /\ ~log[o].reset
            /\ log[o].attempt # 0
            /\ ~(log[o].outcome = "failed_before_start" /\ log[o].outcomeOf = log[o].attempt)

QueueInv ==
    \A o \in Ops :
        /\ runs[o] = 0 => turns[o] = 0
        /\ status[o] = "none" => runs[o] = 0
        /\ Serving /\ status[o] = "queued" /\ workers[o] = 0 => runs[o] = 0

RemovalInv ==
    \A o \in Ops :
        /\ removing[o] # "no" => o \notin Reports /\ status[o] \notin {"none", "queued"}
        /\ removing[o] = "unowned" =>
              /\ \A a \in Attempts : wpc[o][a] \notin Alive
              /\ \A l \in Launchers : lpc[l] \in Claiming => lop[l] # o

DownInv ==
    mode = "down" =>
        /\ \A o \in Ops : removing[o] = "no" /\ \A a \in Attempts : wpc[o][a] \notin Alive
        /\ \A l \in Launchers : lpc[l] = "idle"

IInv ==
    /\ LockInv
    /\ ClaimInv
    /\ FreshInv
    /\ ThreadInv
    /\ ReceiptInv
    /\ QueueInv
    /\ RemovalInv
    /\ DownInv


-----------------------------------------------------------------------------
(***************************************************************************)
(* What a live thread rules out: it is the registered attempt, so nobody   *)
(* holds a claim on its row, no removal has found the row unowned, and the *)
(* process is up.                                                          *)
(***************************************************************************)
LEMMA LiveThread ==
    ASSUME TypeInv, IInv, NEW o \in Ops, NEW a \in Attempts, wpc[o][a] \in Alive
    PROVE  /\ mode # "down"
           /\ removing[o] # "unowned"
           /\ workers[o] = a
           /\ a <= made[o]
           /\ \A k \in Launchers : lpc[k] \in Claiming => lop[k] # o
  <1>1. mode # "down" /\ removing[o] # "unowned"
    BY DEF IInv, DownInv, RemovalInv
  <1>2. workers[o] = a
    BY DEF IInv, ThreadInv
  <1>3. a <= made[o]
    BY <1>2 DEF IInv, FreshInv
  <1>4. ASSUME NEW k \in Launchers, lpc[k] \in Claiming, lop[k] = o PROVE FALSE
    <2>1. wpc[o][a] = "none"
      BY <1>2, <1>4 DEF IInv, ClaimInv, Claiming
    <2> QED BY <2>1 DEF Alive, Unsettled, BeforeTurn, Ended
  <1> QED BY <1>1, <1>2, <1>3, <1>4

(* Every action preserves the inductive invariant, as long as no hidden report
   is authorized by a member who can be removed. *)
LEMMA InductiveStep ==
    ASSUME Removable \cap Reports = {}, TypeInv, TypeInv', IInv, [Next]_vars
    PROVE  IInv'
  <1> USE DispatchAssumption DEF TypeInv, TypeOK, IInv, Attempts, pauseVars, registryVars
  <1>1. ASSUME NEW o \in Ops, create_agent_task(o) PROVE IInv'
    <2>1. ClaimInv'
      BY <1>1 DEF create_agent_task, ClaimInv, Claiming
    <2>2. ThreadInv'
      BY <1>1 DEF create_agent_task, ThreadInv, Alive, Unsettled, BeforeTurn, Ended,
        Active, QueueInv
    <2>3. QueueInv'
      BY <1>1 DEF create_agent_task, QueueInv, Serving
    <2>4. RemovalInv'
      BY <1>1 DEF create_agent_task, RemovalInv, Claiming
    <2>5. LockInv' /\ FreshInv' /\ ReceiptInv' /\ DownInv'
      BY <1>1 DEF create_agent_task, LockInv, FreshInv, ReceiptInv, DownInv
    <2> QED BY <2>1, <2>2, <2>3, <2>4, <2>5 DEF IInv
  <1>2. ASSUME NEW o \in Ops, requeue_report(o) PROVE IInv'
    <2>1. ClaimInv'
      BY <1>2 DEF requeue_report, ClaimInv, Claiming
    <2>2. FreshInv'
      BY <1>2 DEF requeue_report, FreshInv
    <2>3. ThreadInv'
      BY <1>2 DEF requeue_report, ThreadInv, Alive, Unsettled, BeforeTurn, Ended, Active
    <2>4. ReceiptInv'
      BY <1>2 DEF requeue_report, ReceiptInv
    <2>5. QueueInv'
      BY <1>2 DEF requeue_report, QueueInv, Serving
    <2>6. RemovalInv'
      BY <1>2 DEF requeue_report, RemovalInv, Claiming
    <2>7. LockInv' /\ DownInv'
      BY <1>2 DEF requeue_report, LockInv, DownInv
    <2> QED BY <2>1, <2>2, <2>3, <2>4, <2>5, <2>6, <2>7 DEF IInv
  <1>3. ASSUME NEW o \in Ops, PauseStep(o) PROVE IInv'
    <2>1. CASE pause(o)
      <3>1. ClaimInv'
        BY <2>1 DEF pause, ClaimInv, Claiming
      <3>2. ThreadInv'
        BY <2>1 DEF pause, ThreadInv, Alive, Unsettled, BeforeTurn, Ended, Active
      <3>3. QueueInv'
        BY <2>1 DEF pause, QueueInv, Serving
      <3>4. RemovalInv'
        BY <2>1 DEF pause, RemovalInv, Claiming
      <3>5. LockInv' /\ FreshInv' /\ ReceiptInv' /\ DownInv'
        BY <2>1 DEF pause, LockInv, FreshInv, ReceiptInv, DownInv
      <3> QED BY <3>1, <3>2, <3>3, <3>4, <3>5 DEF IInv
    <2>2. CASE _signal_agent_task_pause(o)
      <3>1. LockInv' /\ ClaimInv' /\ FreshInv' /\ ThreadInv' /\ ReceiptInv' /\ QueueInv' /\ RemovalInv' /\ DownInv'
        BY <2>2 DEF _signal_agent_task_pause, LockInv, ClaimInv, FreshInv, ThreadInv,
          ReceiptInv, QueueInv, RemovalInv, DownInv, Serving
      <3> QED BY <3>1 DEF IInv
    <2>3. CASE request_member_removal_pause(o)
      <3>1. ClaimInv'
        BY <2>3 DEF request_member_removal_pause, ClaimInv, Claiming
      <3>2. ThreadInv'
        BY <2>3 DEF request_member_removal_pause, ThreadInv, Alive, Unsettled, BeforeTurn,
          Ended, Active
      <3>3. QueueInv'
        BY <2>3 DEF request_member_removal_pause, QueueInv, Serving
      <3>4. RemovalInv'
        BY <2>3 DEF request_member_removal_pause, RemovalInv, Claiming
      <3>5. DownInv'
        BY <2>3 DEF request_member_removal_pause, DownInv, Serving
      <3>6. LockInv' /\ FreshInv' /\ ReceiptInv'
        BY <2>3 DEF request_member_removal_pause, LockInv, FreshInv, ReceiptInv
      <3> QED BY <3>1, <3>2, <3>3, <3>4, <3>5, <3>6 DEF IInv
    <2>4. CASE RemovalLooksForWorker(o)
      <3>1. RemovalInv'
        BY <2>4 DEF RemovalLooksForWorker, RemovalInv, Claiming, ThreadInv, LockInv
      <3>2. DownInv'
        BY <2>4 DEF RemovalLooksForWorker, DownInv
      <3>3. LockInv' /\ ClaimInv' /\ FreshInv' /\ ThreadInv' /\ ReceiptInv' /\ QueueInv'
        BY <2>4 DEF RemovalLooksForWorker, LockInv, ClaimInv, FreshInv, ThreadInv,
          ReceiptInv, QueueInv, Serving
      <3> QED BY <3>1, <3>2, <3>3 DEF IInv
    <2>5. CASE RemovalSettlesUnowned(o)
      <3>moved. status'[o] \in {status[o], "paused"} /\ \A p \in Ops \ {o} : status'[p] = status[p]
        BY <2>5, TransitionResult DEF RemovalSettlesUnowned, Settled
      <3>1. ClaimInv'
        BY <2>5, <3>moved DEF RemovalSettlesUnowned, ClaimInv, Claiming, RemovalInv
      <3>2. ThreadInv'
        BY <2>5, <3>moved DEF RemovalSettlesUnowned, ThreadInv, Alive, Unsettled,
          BeforeTurn, Ended, Active, RemovalInv
      <3>3. QueueInv'
        BY <2>5, <3>moved DEF RemovalSettlesUnowned, QueueInv, Serving, RemovalInv
      <3>4. RemovalInv'
        BY <2>5, <3>moved DEF RemovalSettlesUnowned, RemovalInv, Claiming
      <3>5. DownInv'
        BY <2>5 DEF RemovalSettlesUnowned, DownInv
      <3>6. LockInv' /\ FreshInv' /\ ReceiptInv'
        BY <2>5 DEF RemovalSettlesUnowned, LockInv, FreshInv, ReceiptInv
      <3> QED BY <3>1, <3>2, <3>3, <3>4, <3>5, <3>6 DEF IInv
    <2> QED BY <1>3, <2>1, <2>2, <2>3, <2>4, <2>5 DEF PauseStep
  <1>4. ASSUME NEW l \in Launchers, NEW o \in Ops, launch_admitted(l, o) PROVE IInv'
    <2>1. LockInv'
      BY <1>4 DEF launch_admitted, LockInv, Claiming
    <2>2. ClaimInv'
      BY <1>4 DEF launch_admitted, ClaimInv, Claiming
    <2>3. RemovalInv'
      BY <1>4 DEF launch_admitted, RemovalInv, Claiming
    <2>4. DownInv'
      BY <1>4 DEF launch_admitted, DownInv, Serving
    <2>5. FreshInv' /\ ThreadInv' /\ ReceiptInv' /\ QueueInv'
      BY <1>4 DEF launch_admitted, FreshInv, ThreadInv, ReceiptInv, QueueInv, Serving
    <2> QED BY <2>1, <2>2, <2>3, <2>4, <2>5 DEF IInv
  <1>5. ASSUME NEW l \in Launchers, LauncherStep(l) PROVE IInv'
    <2>1. CASE ProveLaunch(l)
      <3>1. LockInv'
        BY <2>1 DEF ProveLaunch, Return, LockInv, Claiming
      <3>2. ClaimInv'
        BY <2>1 DEF ProveLaunch, Return, ClaimInv, Claiming
      <3>3. RemovalInv'
        BY <2>1 DEF ProveLaunch, Return, RemovalInv, Claiming
      <3>4. DownInv'
        BY <2>1 DEF ProveLaunch, Return, DownInv
      <3>5. FreshInv' /\ ThreadInv' /\ ReceiptInv' /\ QueueInv'
        BY <2>1 DEF ProveLaunch, Return, FreshInv, ThreadInv, ReceiptInv, QueueInv, Serving
      <3> QED BY <3>1, <3>2, <3>3, <3>4, <3>5 DEF IInv
    <2>2. CASE _spawn_record(l)
      <3>1. LockInv'
        BY <2>2 DEF _spawn_record, Return, LockInv, Claiming
      <3>2. ClaimInv'
        <4>1. \A k \in Launchers : lpc[k] \notin Claiming \cup {"started"}
          BY <2>2 DEF _spawn_record, LockInv
        <4>2. CASE lpc' = [lpc EXCEPT ![l] = "claimed"]
          <5>1. lop[l] \in Ops /\ lop' = lop /\ lpc' = [lpc EXCEPT ![l] = "claimed"]
            BY <2>2, <4>2 DEF _spawn_record, Return
          <5>2. /\ workers[lop[l]] = 0 /\ status[lop[l]] = "queued" /\ made[lop[l]] < MaxSpawns
                /\ made' = [made EXCEPT ![lop[l]] = @ + 1]
                /\ workers' = [workers EXCEPT ![lop[l]] = made[lop[l]] + 1]
                /\ UNCHANGED <<status, runs, wpc, log>> /\ Serving
            BY <2>2, <4>2 DEF _spawn_record, Return
          <5>3. workers'[lop[l]] = made'[lop[l]] /\ made'[lop[l]] = made[lop[l]] + 1
            BY <5>1, <5>2
          <5>4. runs[lop[l]] = 0
            BY <5>1, <5>2 DEF QueueInv
          <5>5. /\ wpc[lop[l]][made[lop[l]] + 1] = "none"
                /\ log[lop[l]].outcomeOf < made[lop[l]] + 1
            BY <5>1, <5>2 DEF FreshInv, Receipts
          <5>6. \A k \in Launchers \ {l} : lpc'[k] \notin Claiming \cup {"started"}
            BY <4>1, <5>1
          <5> QED BY <5>1, <5>2, <5>3, <5>4, <5>5, <5>6 DEF ClaimInv, Claiming
        <4>3. CASE Return(l)
          BY <4>1, <4>3 DEF Return, ClaimInv, Claiming
        <4> QED BY <2>2, <4>2, <4>3 DEF _spawn_record
      <3>3. FreshInv'
        <4>1. UNCHANGED <<wpc, log>> /\ lop[l] \in Ops
          BY <2>2 DEF _spawn_record
        <4>2. CASE /\ workers' = [workers EXCEPT ![lop[l]] = made[lop[l]] + 1]
                   /\ made' = [made EXCEPT ![lop[l]] = @ + 1]
          <5>1. lop[l] \in Ops /\ made[lop[l]] \in Nat
            BY <4>1
          <5>2. workers'[lop[l]] = made[lop[l]] + 1 /\ made'[lop[l]] = made[lop[l]] + 1
            BY <4>2, <5>1
          <5>3. \A p \in Ops \ {lop[l]} : workers'[p] = workers[p] /\ made'[p] = made[p]
            BY <4>2, <5>1
          <5>4. /\ workers'[lop[l]] <= made'[lop[l]]
                /\ log'[lop[l]].outcomeOf <= made'[lop[l]]
                /\ \A a \in Attempts : a > made'[lop[l]] => wpc'[lop[l]][a] = "none"
            BY <4>1, <5>1, <5>2 DEF FreshInv, Receipts
          <5>5. \A p \in Ops \ {lop[l]} :
                  /\ workers'[p] <= made'[p]
                  /\ log'[p].outcomeOf <= made'[p]
                  /\ \A a \in Attempts : a > made'[p] => wpc'[p][a] = "none"
            BY <4>1, <5>3 DEF FreshInv
          <5> QED BY <5>4, <5>5 DEF FreshInv
        <4>3. CASE UNCHANGED <<workers, made>>
          BY <4>1, <4>3 DEF FreshInv
        <4> QED BY <2>2, <4>2, <4>3 DEF _spawn_record
      <3>4. ThreadInv'
        BY <2>2
        DEF _spawn_record, Return, ThreadInv, Alive, Unsettled, BeforeTurn, Ended, Active
      <3>5. QueueInv'
        BY <2>2 DEF _spawn_record, Return, QueueInv, Serving
      <3>6. RemovalInv'
        BY <2>2 DEF _spawn_record, Return, RemovalInv, Claiming
      <3>7. DownInv'
        BY <2>2 DEF _spawn_record, Return, DownInv
      <3>8. ReceiptInv'
        BY <2>2 DEF _spawn_record, Return, ReceiptInv
      <3> QED BY <3>1, <3>2, <3>3, <3>4, <3>5, <3>6, <3>7, <3>8 DEF IInv
    <2>3. CASE AttemptReceipt(l)
      <3>1. LockInv'
        BY <2>3 DEF AttemptReceipt, RecordAttempt, LockInv, Claiming
      <3>2. ClaimInv'
        BY <2>3 DEF AttemptReceipt, RecordAttempt, ClaimInv, Claiming
      <3>3. FreshInv'
        BY <2>3 DEF AttemptReceipt, RecordAttempt, FreshInv
      <3>4. ReceiptInv'
        BY <2>3 DEF AttemptReceipt, RecordAttempt, ReceiptInv, ClaimInv, Claiming
      <3>5. RemovalInv'
        BY <2>3 DEF AttemptReceipt, RecordAttempt, RemovalInv, Claiming
      <3>6. DownInv'
        BY <2>3 DEF AttemptReceipt, RecordAttempt, DownInv
      <3>7. ThreadInv' /\ QueueInv'
        BY <2>3 DEF AttemptReceipt, RecordAttempt, ThreadInv, QueueInv, Serving
      <3> QED BY <3>1, <3>2, <3>3, <3>4, <3>5, <3>6, <3>7 DEF IInv
    <2>4. CASE SpawnFails(l)
      <3>alone. \A k \in Launchers \ {l} : lpc[k] \notin Claiming \cup {"started"}
        BY <2>4 DEF SpawnFails, LockInv, Claiming
      <3>mine. /\ lop[l] \in Ops /\ runs[lop[l]] = 0
                 /\ workers[lop[l]] = made[lop[l]] /\ wpc[lop[l]][made[lop[l]]] = "none"
        BY <2>4 DEF SpawnFails, ClaimInv, Claiming
      <3>1. LockInv'
        BY <2>4 DEF SpawnFails, RecordOutcome, Return, LockInv, Claiming
      <3>2. ClaimInv'
        BY <2>4, <3>alone DEF SpawnFails, RecordOutcome, Return, ClaimInv, Claiming
      <3>3. FreshInv'
        BY <2>4 DEF SpawnFails, RecordOutcome, Return, FreshInv
      <3>4. ThreadInv'
        <4>1. \A a \in Attempts : wpc[lop[l]][a] \notin Alive
          BY <3>mine DEF ThreadInv, Alive, Unsettled, BeforeTurn, Ended
        <4>2. workers' = [workers EXCEPT ![lop[l]] = 0] /\ UNCHANGED <<wpc, status, runs, turns>>
          BY <2>4 DEF SpawnFails
        <4> QED BY <4>1, <4>2, <3>mine DEF ThreadInv, Alive, Unsettled, BeforeTurn, Ended, Active
      <3>5. ReceiptInv'
        <4>1. UNCHANGED runs /\ \A p \in Ops \ {lop[l]} : log'[p] = log[p]
          BY <2>4 DEF SpawnFails, RecordOutcome
        <4>2. \A p \in Ops : runs[p] > 0 => log'[p] = log[p]
          BY <3>mine, <4>1
        <4> QED BY <4>1, <4>2 DEF ReceiptInv
      <3>6. QueueInv'
        BY <2>4, <3>mine DEF SpawnFails, RecordOutcome, Return, QueueInv, Serving
      <3>7. RemovalInv'
        BY <2>4 DEF SpawnFails, RecordOutcome, Return, RemovalInv, Claiming
      <3>8. DownInv'
        BY <2>4 DEF SpawnFails, RecordOutcome, Return, DownInv
      <3> QED BY <3>1, <3>2, <3>3, <3>4, <3>5, <3>6, <3>7, <3>8 DEF IInv
    <2>5. CASE StartThread(l)
      <3>alone. \A k \in Launchers \ {l} : lpc[k] \notin Claiming \cup {"started"}
        BY <2>5 DEF StartThread, LockInv, Claiming
      <3>mine. /\ lop[l] \in Ops /\ runs[lop[l]] = 0 /\ turns[lop[l]] = 0
                 /\ workers[lop[l]] = made[lop[l]] /\ made[lop[l]] \in Attempts
                 /\ wpc[lop[l]][made[lop[l]]] = "none"
                 /\ status[lop[l]] \in {"queued", "pausing"}
                 /\ log[lop[l]].outcomeOf < made[lop[l]]
                 /\ log[lop[l]].attempt = made[lop[l]] /\ ~log[lop[l]].reset
        BY <2>5 DEF StartThread, ClaimInv, QueueInv, Claiming
      <3>1. LockInv'
        BY <2>5 DEF StartThread, LockInv, Claiming
      <3>2. ClaimInv'
        BY <2>5, <3>alone, <3>mine DEF StartThread, ClaimInv, Claiming
      <3>3. FreshInv'
        BY <2>5 DEF StartThread, FreshInv
      <3>4. ThreadInv'
        <4>1. \A a \in Attempts : wpc[lop[l]][a] \notin Alive
          BY <3>mine DEF ThreadInv, Alive, Unsettled, BeforeTurn, Ended
        <4>2. /\ wpc' = [wpc EXCEPT ![lop[l]][made[lop[l]]] = "starting"]
              /\ runs' = [runs EXCEPT ![lop[l]] = 1] /\ UNCHANGED <<workers, status, turns>>
          BY <2>5, <3>mine DEF StartThread
        <4>3. \A p \in Ops \ {lop[l]}, a \in Attempts : wpc'[p][a] = wpc[p][a] /\ runs'[p] = runs[p]
          BY <4>2
        <4>4. \A a \in Attempts \ {made[lop[l]]} : wpc'[lop[l]][a] = wpc[lop[l]][a]
          BY <4>2, <3>mine
        <4>5. wpc'[lop[l]][made[lop[l]]] = "starting" /\ runs'[lop[l]] = 1
          BY <4>2, <3>mine
        <4>6. ASSUME NEW p \in Ops, NEW a \in Attempts PROVE
                /\ wpc'[p][a] \in Alive => workers[p] = a
                /\ wpc'[p][a] \in Unsettled => status[p] \in Active /\ runs'[p] = 1
                /\ wpc'[p][a] \in BeforeTurn \cup {"prepause"} => turns[p] = 0
                /\ wpc'[p][a] \in {"streaming", "provider"} \cup Ended =>
                      status[p] \in {"running", "pausing"}
                /\ wpc'[p][a] = "settled" => status[p] # "queued" \/ runs'[p] = 0
          <5>1. CASE p # lop[l]
            BY <5>1, <4>3 DEF ThreadInv
          <5>2. CASE p = lop[l] /\ a # made[lop[l]]
            BY <5>2, <4>1, <4>4 DEF Alive, Unsettled, BeforeTurn, Ended
          <5>3. CASE p = lop[l] /\ a = made[lop[l]]
            BY <5>3, <4>5, <3>mine DEF Alive, Unsettled, BeforeTurn, Ended, Active
          <5> QED BY <5>1, <5>2, <5>3
        <4> QED BY <4>2, <4>6 DEF ThreadInv
      <3>5. ReceiptInv'
        BY <2>5, <3>mine DEF StartThread, ReceiptInv, Receipts
      <3>6. QueueInv'
        BY <2>5, <3>mine DEF StartThread, QueueInv, Serving
      <3>7. RemovalInv'
        BY <2>5 DEF StartThread, RemovalInv, Claiming
      <3>8. DownInv'
        BY <2>5 DEF StartThread, DownInv
      <3> QED BY <3>1, <3>2, <3>3, <3>4, <3>5, <3>6, <3>7, <3>8 DEF IInv
    <2>6. CASE StartedReceipt(l)
      <3>alone. \A k \in Launchers \ {l} : lpc[k] \notin Claiming \cup {"started"}
        BY <2>6 DEF StartedReceipt, LockInv, Claiming
      <3>mine. lop[l] \in Ops /\ workers[lop[l]] = made[lop[l]]
        BY <2>6 DEF StartedReceipt, ClaimInv
      <3>log. \/ UNCHANGED log
             \/ log' = [log EXCEPT ![lop[l]] = [attempt |-> @.attempt, outcome |-> "started",
                          outcomeOf |-> workers[lop[l]], reset |-> FALSE]]
        BY <2>6 DEF StartedReceipt, RecordOutcomeOrLoseIt, RecordOutcome
      <3>1. LockInv'
        BY <2>6
        DEF StartedReceipt, RecordOutcomeOrLoseIt, RecordOutcome, Return, LockInv, Claiming
      <3>2. ClaimInv'
        <4>1. \A k \in Launchers : lpc'[k] \notin Claiming \cup {"started"}
          BY <2>6, <3>alone DEF StartedReceipt, Return, Claiming
        <4> QED BY <4>1 DEF ClaimInv, Claiming
      <3>3. FreshInv'
        <4>1. UNCHANGED <<workers, made, wpc>>
          BY <2>6 DEF StartedReceipt
        <4>2. \A p \in Ops : log'[p].outcomeOf \in {log[p].outcomeOf, workers[p]}
          <5>1. CASE UNCHANGED log BY <5>1
          <5>2. CASE log' = [log EXCEPT ![lop[l]] = [attempt |-> @.attempt, outcome |-> "started",
                               outcomeOf |-> workers[lop[l]], reset |-> FALSE]]
            <6>1. \A p \in Ops \ {lop[l]} : log'[p] = log[p]
              BY <5>2
            <6>2. log'[lop[l]] = [attempt |-> log[lop[l]].attempt, outcome |-> "started",
                                  outcomeOf |-> workers[lop[l]], reset |-> FALSE]
              BY <3>mine, <5>2
            <6>3. log'[lop[l]].outcomeOf = workers[lop[l]]
              BY <6>2
            <6> QED BY <6>1, <6>3
          <5> QED BY <3>log, <5>1, <5>2
        <4> QED BY <4>1, <4>2 DEF FreshInv, Receipts
      <3>4. ReceiptInv'
        <4>1. UNCHANGED runs
          BY <2>6 DEF StartedReceipt
        <4>2. \A p \in Ops :
                \/ log'[p] = log[p]
                \/ /\ ~log'[p].reset
                   /\ log'[p].attempt = log[p].attempt
                   /\ log'[p].outcome = "started"
          <5>1. CASE UNCHANGED log BY <5>1
          <5>2. CASE log' = [log EXCEPT ![lop[l]] = [attempt |-> @.attempt, outcome |-> "started",
                               outcomeOf |-> workers[lop[l]], reset |-> FALSE]]
            <6>1. \A p \in Ops \ {lop[l]} : log'[p] = log[p]
              BY <5>2
            <6>2. log'[lop[l]] = [attempt |-> log[lop[l]].attempt, outcome |-> "started",
                                  outcomeOf |-> workers[lop[l]], reset |-> FALSE]
              BY <3>mine, <5>2
            <6> QED BY <6>1, <6>2
          <5> QED BY <3>log, <5>1, <5>2
        <4> QED BY <4>1, <4>2 DEF ReceiptInv
      <3>5. RemovalInv'
        BY <2>6 DEF StartedReceipt, RecordOutcomeOrLoseIt, RecordOutcome, Return,
          RemovalInv, Claiming
      <3>6. DownInv'
        BY <2>6 DEF StartedReceipt, RecordOutcomeOrLoseIt, RecordOutcome, Return, DownInv
      <3>7. ThreadInv' /\ QueueInv'
        BY <2>6 DEF StartedReceipt, RecordOutcomeOrLoseIt, RecordOutcome, Return,
          ThreadInv, QueueInv, Serving
      <3> QED BY <3>1, <3>2, <3>3, <3>4, <3>5, <3>6, <3>7 DEF IInv
    <2> QED BY <1>5, <2>1, <2>2, <2>3, <2>4, <2>5, <2>6 DEF LauncherStep
  <1>6. ASSUME NEW o \in Ops, NEW a \in Attempts, _run(o, a) PROVE IInv'
    <2>1. CASE WorkerReads(o, a)
      <3>alive. wpc[o][a] \in Alive
        BY <2>1 DEF WorkerReads, Alive, Unsettled, BeforeTurn, Ended
      <3>live. /\ mode # "down" /\ removing[o] # "unowned" /\ workers[o] = a /\ a <= made[o]
                 /\ \A k \in Launchers : lpc[k] \in Claiming => lop[k] # o
        BY <3>alive, LiveThread
      <3>1. ClaimInv'
        BY <2>1, <3>live DEF WorkerReads, ClaimInv, Claiming
      <3>2. FreshInv'
        BY <2>1, <3>live DEF WorkerReads, FreshInv
      <3>3. ThreadInv'
        BY <2>1 DEF WorkerReads, ThreadInv, Alive, Unsettled, BeforeTurn, Ended, Active
      <3>4. RemovalInv'
        BY <2>1, <3>live DEF WorkerReads, RemovalInv, Claiming
      <3>5. DownInv'
        BY <2>1, <3>live DEF WorkerReads, DownInv
      <3>6. LockInv' /\ ReceiptInv' /\ QueueInv'
        BY <2>1 DEF WorkerReads, LockInv, ReceiptInv, QueueInv, Serving
      <3> QED BY <3>1, <3>2, <3>3, <3>4, <3>5, <3>6 DEF IInv
    <2>2. CASE PausesBeforeRunning(o, a)
      <3>alive. wpc[o][a] \in Alive
        BY <2>2 DEF PausesBeforeRunning, Alive, Unsettled, BeforeTurn, Ended
      <3>live. /\ mode # "down" /\ removing[o] # "unowned" /\ workers[o] = a /\ a <= made[o]
                 /\ \A k \in Launchers : lpc[k] \in Claiming => lop[k] # o
        BY <3>alive, LiveThread
      <3>row. runs[o] = 1 /\ status[o] \in Active
        BY <2>2 DEF PausesBeforeRunning, ThreadInv, Unsettled, BeforeTurn, Ended
      <3>moved. status'[o] \in Settled /\ \A p \in Ops \ {o} : status'[p] = status[p]
        BY <2>2, <3>row, TransitionResult DEF PausesBeforeRunning, Settled
      <3>1. ClaimInv'
        <4>1. \A p \in Ops \ {o} : wpc'[p] = wpc[p] /\ status'[p] = status[p]
          BY <2>2, <3>moved DEF PausesBeforeRunning
        <4>2. UNCHANGED <<runs, log, workers, made, lpc, lop>>
          BY <2>2 DEF PausesBeforeRunning
        <4> QED BY <3>live, <4>1, <4>2 DEF ClaimInv, Claiming
      <3>2. FreshInv'
        <4>1. UNCHANGED <<workers, made, log>>
          BY <2>2 DEF PausesBeforeRunning
        <4>2. \A p \in Ops, b \in Attempts : wpc'[p][b] # wpc[p][b] => p = o /\ b = a
          BY <2>2 DEF PausesBeforeRunning
        <4> QED BY <3>live, <4>1, <4>2 DEF FreshInv
      <3>3. ThreadInv'
        <4>1. UNCHANGED <<workers, turns, runs>>
          BY <2>2 DEF PausesBeforeRunning
        <4>2. \A p \in Ops, b \in Attempts : p # o \/ b # a => wpc'[p][b] = wpc[p][b]
          BY <2>2 DEF PausesBeforeRunning
        <4>3. wpc'[o][a] = "settled"
          BY <2>2 DEF PausesBeforeRunning
        <4>4. \A b \in Attempts \ {a} : wpc[o][b] \notin Alive
          BY <3>live DEF ThreadInv
        <4>5. ASSUME NEW p \in Ops, NEW b \in Attempts PROVE
                /\ wpc'[p][b] \in Alive => workers[p] = b
                /\ wpc'[p][b] \in Unsettled => status'[p] \in Active /\ runs[p] = 1
                /\ wpc'[p][b] \in BeforeTurn \cup {"prepause"} => turns[p] = 0
                /\ wpc'[p][b] \in {"streaming", "provider"} \cup Ended =>
                      status'[p] \in {"running", "pausing"}
                /\ wpc'[p][b] = "settled" => status'[p] # "queued" \/ runs[p] = 0
          <5>1. CASE p # o
            <6>1. wpc'[p][b] = wpc[p][b] /\ status'[p] = status[p]
              BY <5>1, <4>2, <3>moved
            <6> QED BY <6>1 DEF ThreadInv
          <5>2. CASE p = o /\ b # a
            BY <5>2, <4>2, <4>4 DEF Alive, Unsettled, BeforeTurn, Ended
          <5>3. CASE p = o /\ b = a
            BY <5>3, <3>live, <3>row, <3>moved, <4>3
            DEF Alive, Unsettled, BeforeTurn, Ended, Active, Settled
          <5> QED BY <5>1, <5>2, <5>3
        <4> QED BY <4>1, <4>5 DEF ThreadInv
      <3>4. QueueInv'
        <4>1. UNCHANGED <<turns, runs, mode, workers>>
          BY <2>2 DEF PausesBeforeRunning
        <4> QED BY <3>moved, <3>row, <4>1 DEF QueueInv, Serving, Settled
      <3>5. RemovalInv'
        <4>1. \A p \in Ops \ {o} : wpc'[p] = wpc[p]
          BY <2>2 DEF PausesBeforeRunning
        <4>2. UNCHANGED <<removing, lpc, lop>>
          BY <2>2 DEF PausesBeforeRunning
        <4> QED BY <3>live, <3>moved, <4>1, <4>2 DEF RemovalInv, Settled
      <3>6. DownInv'
        BY <2>2, <3>live DEF PausesBeforeRunning, DownInv
      <3>7. LockInv' /\ ReceiptInv'
        BY <2>2 DEF PausesBeforeRunning, LockInv, ReceiptInv
      <3> QED BY <3>1, <3>2, <3>3, <3>4, <3>5, <3>6, <3>7 DEF IInv
    <2>3. CASE mark_agent_task_running(o, a)
      <3>alive. wpc[o][a] \in Alive
        BY <2>3 DEF mark_agent_task_running, Alive, Unsettled, BeforeTurn, Ended
      <3>live. /\ mode # "down" /\ removing[o] # "unowned" /\ workers[o] = a /\ a <= made[o]
                 /\ \A k \in Launchers : lpc[k] \in Claiming => lop[k] # o
        BY <3>alive, LiveThread
      <3>row. runs[o] = 1 /\ status[o] \in Active
        BY <2>3 DEF mark_agent_task_running, ThreadInv, Unsettled, BeforeTurn, Ended
      <3>turn. turns[o] = 0
        BY <2>3 DEF mark_agent_task_running, ThreadInv, BeforeTurn
      <3>moved. status'[o] \in {"running", "pausing"} /\ \A p \in Ops \ {o} : status'[p] = status[p]
        BY <2>3, <3>row, TransitionResult DEF mark_agent_task_running, Active
      <3>1. ClaimInv'
        <4>1. \A p \in Ops \ {o} : wpc'[p] = wpc[p] /\ status'[p] = status[p]
          BY <2>3, <3>moved DEF mark_agent_task_running
        <4>2. UNCHANGED <<runs, log, workers, made, lpc, lop>>
          BY <2>3 DEF mark_agent_task_running
        <4> QED BY <3>live, <4>1, <4>2 DEF ClaimInv, Claiming
      <3>2. FreshInv'
        <4>1. UNCHANGED <<workers, made, log>>
          BY <2>3 DEF mark_agent_task_running
        <4>2. \A p \in Ops, b \in Attempts : wpc'[p][b] # wpc[p][b] => p = o /\ b = a
          BY <2>3 DEF mark_agent_task_running
        <4> QED BY <3>live, <4>1, <4>2 DEF FreshInv
      <3>3. ThreadInv'
        <4>1. UNCHANGED <<workers, turns, runs>>
          BY <2>3 DEF mark_agent_task_running
        <4>2. \A p \in Ops, b \in Attempts : p # o \/ b # a => wpc'[p][b] = wpc[p][b]
          BY <2>3 DEF mark_agent_task_running
        <4>3. wpc'[o][a] = "streaming"
          BY <2>3 DEF mark_agent_task_running
        <4>4. \A b \in Attempts \ {a} : wpc[o][b] \notin Alive
          BY <3>live DEF ThreadInv
        <4>5. ASSUME NEW p \in Ops, NEW b \in Attempts PROVE
                /\ wpc'[p][b] \in Alive => workers[p] = b
                /\ wpc'[p][b] \in Unsettled => status'[p] \in Active /\ runs[p] = 1
                /\ wpc'[p][b] \in BeforeTurn \cup {"prepause"} => turns[p] = 0
                /\ wpc'[p][b] \in {"streaming", "provider"} \cup Ended =>
                      status'[p] \in {"running", "pausing"}
                /\ wpc'[p][b] = "settled" => status'[p] # "queued" \/ runs[p] = 0
          <5>1. CASE p # o
            <6>1. wpc'[p][b] = wpc[p][b] /\ status'[p] = status[p]
              BY <5>1, <4>2, <3>moved
            <6> QED BY <6>1 DEF ThreadInv
          <5>2. CASE p = o /\ b # a
            BY <5>2, <4>2, <4>4 DEF Alive, Unsettled, BeforeTurn, Ended
          <5>3. CASE p = o /\ b = a
            BY <5>3, <3>live, <3>row, <3>turn, <3>moved, <4>3
            DEF Alive, Unsettled, BeforeTurn, Ended, Active, Settled
          <5> QED BY <5>1, <5>2, <5>3
        <4> QED BY <4>1, <4>5 DEF ThreadInv
      <3>4. QueueInv'
        <4>1. UNCHANGED <<turns, runs, mode, workers>>
          BY <2>3 DEF mark_agent_task_running
        <4> QED BY <3>moved, <3>row, <4>1 DEF QueueInv, Serving, Settled
      <3>5. RemovalInv'
        <4>1. \A p \in Ops \ {o} : wpc'[p] = wpc[p]
          BY <2>3 DEF mark_agent_task_running
        <4>2. UNCHANGED <<removing, lpc, lop>>
          BY <2>3 DEF mark_agent_task_running
        <4> QED BY <3>live, <3>moved, <4>1, <4>2 DEF RemovalInv, Settled
      <3>6. DownInv'
        BY <2>3, <3>live DEF mark_agent_task_running, DownInv
      <3>7. LockInv' /\ ReceiptInv'
        BY <2>3 DEF mark_agent_task_running, LockInv, ReceiptInv
      <3> QED BY <3>1, <3>2, <3>3, <3>4, <3>5, <3>6, <3>7 DEF IInv
    <2>4. CASE WorkerDies(o, a)
      <3>alive. wpc[o][a] \in Alive
        BY <2>4 DEF WorkerDies, Alive, Unsettled, BeforeTurn, Ended
      <3>live. /\ mode # "down" /\ removing[o] # "unowned" /\ workers[o] = a /\ a <= made[o]
                 /\ \A k \in Launchers : lpc[k] \in Claiming => lop[k] # o
        BY <3>alive, LiveThread
      <3>1. ClaimInv'
        BY <2>4, <3>live DEF WorkerDies, ClaimInv, Claiming
      <3>2. FreshInv'
        BY <2>4, <3>live DEF WorkerDies, FreshInv
      <3>3. ThreadInv'
        BY <2>4 DEF WorkerDies, ThreadInv, Alive, Unsettled, BeforeTurn, Ended, Active
      <3>4. RemovalInv'
        BY <2>4, <3>live DEF WorkerDies, RemovalInv, Claiming
      <3>5. DownInv'
        BY <2>4, <3>live DEF WorkerDies, DownInv
      <3>6. LockInv' /\ ReceiptInv' /\ QueueInv'
        BY <2>4 DEF WorkerDies, LockInv, ReceiptInv, QueueInv, Serving
      <3> QED BY <3>1, <3>2, <3>3, <3>4, <3>5, <3>6 DEF IInv
    <2>5. CASE StartsProvider(o, a)
      <3>alive. wpc[o][a] \in Alive
        BY <2>5 DEF StartsProvider, Alive, Unsettled, BeforeTurn, Ended
      <3>live. /\ mode # "down" /\ removing[o] # "unowned" /\ workers[o] = a /\ a <= made[o]
                 /\ \A k \in Launchers : lpc[k] \in Claiming => lop[k] # o
        BY <3>alive, LiveThread
      <3>row. runs[o] = 1 /\ turns[o] = 0 /\ status[o] \in {"running", "pausing"}
        BY <2>5 DEF StartsProvider, ThreadInv, BeforeTurn, Unsettled, Alive
      <3>1. ClaimInv'
        <4>1. \A p \in Ops \ {o} : wpc'[p] = wpc[p]
          BY <2>5 DEF StartsProvider
        <4>2. UNCHANGED <<status, runs, log, workers, made, lpc, lop>>
          BY <2>5 DEF StartsProvider
        <4> QED BY <3>live, <4>1, <4>2 DEF ClaimInv, Claiming
      <3>2. FreshInv'
        <4>1. UNCHANGED <<workers, made, log>>
          BY <2>5 DEF StartsProvider
        <4>2. \A p \in Ops, b \in Attempts : wpc'[p][b] # wpc[p][b] => p = o /\ b = a
          BY <2>5 DEF StartsProvider
        <4> QED BY <3>live, <4>1, <4>2 DEF FreshInv
      <3>3. ThreadInv'
        <4>1. UNCHANGED <<workers, status, runs>> /\ \A p \in Ops \ {o} : turns'[p] = turns[p]
          BY <2>5 DEF StartsProvider
        <4>2. PICK s \in {"ended_paused", "provider"} : wpc' = [wpc EXCEPT ![o][a] = s]
          BY <2>5 DEF StartsProvider
        <4>3. \A p \in Ops, b \in Attempts : p # o \/ b # a => wpc'[p][b] = wpc[p][b]
          BY <4>2
        <4>4. wpc'[o][a] \in {"ended_paused", "provider"}
          BY <4>2
        <4>5. \A b \in Attempts \ {a} : wpc[o][b] \notin Alive
          BY <3>live DEF ThreadInv
        <4>6. ASSUME NEW p \in Ops, NEW b \in Attempts PROVE
                /\ wpc'[p][b] \in Alive => workers[p] = b
                /\ wpc'[p][b] \in Unsettled => status[p] \in Active /\ runs[p] = 1
                /\ wpc'[p][b] \in BeforeTurn \cup {"prepause"} => turns'[p] = 0
                /\ wpc'[p][b] \in {"streaming", "provider"} \cup Ended =>
                      status[p] \in {"running", "pausing"}
                /\ wpc'[p][b] = "settled" => status[p] # "queued" \/ runs[p] = 0
          <5>1. CASE p # o
            BY <5>1, <4>1, <4>3 DEF ThreadInv
          <5>2. CASE p = o /\ b # a
            BY <5>2, <4>3, <4>5 DEF Alive, Unsettled, BeforeTurn, Ended
          <5>3. CASE p = o /\ b = a
            BY <5>3, <3>live, <3>row, <4>4 DEF Alive, Unsettled, BeforeTurn, Ended, Active
          <5> QED BY <5>1, <5>2, <5>3
        <4> QED BY <4>1, <4>6 DEF ThreadInv
      <3>4. QueueInv'
        <4>1. UNCHANGED <<status, runs, mode, workers>> /\ \A p \in Ops \ {o} : turns'[p] = turns[p]
          BY <2>5 DEF StartsProvider
        <4> QED BY <3>row, <4>1 DEF QueueInv, Serving
      <3>5. RemovalInv'
        <4>1. \A p \in Ops \ {o} : wpc'[p] = wpc[p]
          BY <2>5 DEF StartsProvider
        <4>2. UNCHANGED <<status, removing, lpc, lop>>
          BY <2>5 DEF StartsProvider
        <4> QED BY <3>live, <4>1, <4>2 DEF RemovalInv
      <3>6. DownInv'
        BY <2>5, <3>live DEF StartsProvider, DownInv
      <3>7. LockInv' /\ ReceiptInv'
        BY <2>5 DEF StartsProvider, LockInv, ReceiptInv
      <3> QED BY <3>1, <3>2, <3>3, <3>4, <3>5, <3>6, <3>7 DEF IInv
    <2>6. CASE StreamEnds(o, a)
      <3>alive. wpc[o][a] \in Alive
        BY <2>6 DEF StreamEnds, Alive, Unsettled, BeforeTurn, Ended
      <3>live. /\ mode # "down" /\ removing[o] # "unowned" /\ workers[o] = a /\ a <= made[o]
                 /\ \A k \in Launchers : lpc[k] \in Claiming => lop[k] # o
        BY <3>alive, LiveThread
      <3>1. ClaimInv'
        BY <2>6, <3>live DEF StreamEnds, ClaimInv, Claiming
      <3>2. FreshInv'
        BY <2>6, <3>live DEF StreamEnds, FreshInv
      <3>3. ThreadInv'
        BY <2>6 DEF StreamEnds, ThreadInv, Alive, Unsettled, BeforeTurn, Ended, Active
      <3>4. RemovalInv'
        BY <2>6, <3>live DEF StreamEnds, RemovalInv, Claiming
      <3>5. DownInv'
        BY <2>6, <3>live DEF StreamEnds, DownInv
      <3>6. LockInv' /\ ReceiptInv' /\ QueueInv'
        BY <2>6 DEF StreamEnds, LockInv, ReceiptInv, QueueInv, Serving
      <3> QED BY <3>1, <3>2, <3>3, <3>4, <3>5, <3>6 DEF IInv
    <2>7. CASE Settles(o, a)
      <3>alive. wpc[o][a] \in Alive
        BY <2>7 DEF Settles, Alive, Unsettled, BeforeTurn, Ended
      <3>live. /\ mode # "down" /\ removing[o] # "unowned" /\ workers[o] = a /\ a <= made[o]
                 /\ \A k \in Launchers : lpc[k] \in Claiming => lop[k] # o
        BY <3>alive, LiveThread
      <3>row. runs[o] = 1 /\ status[o] \in Active
        BY <2>7 DEF Settles, ThreadInv, Unsettled, BeforeTurn, Ended
      <3>moved. status'[o] \in Settled /\ \A p \in Ops \ {o} : status'[p] = status[p]
        <4>1. Verdict(o, a) \in Settled
          BY VerdictSettles
        <4>2. Transition(status[o], Verdict(o, a)) = Verdict(o, a)
          BY <3>row, <4>1, TransitionResult
        <4> QED BY <2>7, <4>1, <4>2 DEF Settles
      <3>1. ClaimInv'
        <4>1. \A p \in Ops \ {o} : wpc'[p] = wpc[p] /\ status'[p] = status[p]
          BY <2>7, <3>moved DEF Settles
        <4>2. UNCHANGED <<runs, log, workers, made, lpc, lop>>
          BY <2>7 DEF Settles
        <4> QED BY <3>live, <4>1, <4>2 DEF ClaimInv, Claiming
      <3>2. FreshInv'
        <4>1. UNCHANGED <<workers, made, log>>
          BY <2>7 DEF Settles
        <4>2. \A p \in Ops, b \in Attempts : wpc'[p][b] # wpc[p][b] => p = o /\ b = a
          BY <2>7 DEF Settles
        <4> QED BY <3>live, <4>1, <4>2 DEF FreshInv
      <3>3. ThreadInv'
        <4>1. UNCHANGED <<workers, turns, runs>>
          BY <2>7 DEF Settles
        <4>2. \A p \in Ops, b \in Attempts : p # o \/ b # a => wpc'[p][b] = wpc[p][b]
          BY <2>7 DEF Settles
        <4>3. wpc'[o][a] = "settled"
          BY <2>7 DEF Settles
        <4>4. \A b \in Attempts \ {a} : wpc[o][b] \notin Alive
          BY <3>live DEF ThreadInv
        <4>5. ASSUME NEW p \in Ops, NEW b \in Attempts PROVE
                /\ wpc'[p][b] \in Alive => workers[p] = b
                /\ wpc'[p][b] \in Unsettled => status'[p] \in Active /\ runs[p] = 1
                /\ wpc'[p][b] \in BeforeTurn \cup {"prepause"} => turns[p] = 0
                /\ wpc'[p][b] \in {"streaming", "provider"} \cup Ended =>
                      status'[p] \in {"running", "pausing"}
                /\ wpc'[p][b] = "settled" => status'[p] # "queued" \/ runs[p] = 0
          <5>1. CASE p # o
            <6>1. wpc'[p][b] = wpc[p][b] /\ status'[p] = status[p]
              BY <5>1, <4>2, <3>moved
            <6> QED BY <6>1 DEF ThreadInv
          <5>2. CASE p = o /\ b # a
            BY <5>2, <4>2, <4>4 DEF Alive, Unsettled, BeforeTurn, Ended
          <5>3. CASE p = o /\ b = a
            BY <5>3, <3>live, <3>row, <3>moved, <4>3
            DEF Alive, Unsettled, BeforeTurn, Ended, Active, Settled
          <5> QED BY <5>1, <5>2, <5>3
        <4> QED BY <4>1, <4>5 DEF ThreadInv
      <3>4. QueueInv'
        <4>1. UNCHANGED <<turns, runs, mode, workers>>
          BY <2>7 DEF Settles
        <4> QED BY <3>moved, <3>row, <4>1 DEF QueueInv, Serving, Settled
      <3>5. RemovalInv'
        <4>1. \A p \in Ops \ {o} : wpc'[p] = wpc[p]
          BY <2>7 DEF Settles
        <4>2. UNCHANGED <<removing, lpc, lop>>
          BY <2>7 DEF Settles
        <4> QED BY <3>live, <3>moved, <4>1, <4>2 DEF RemovalInv, Settled
      <3>6. DownInv'
        BY <2>7, <3>live DEF Settles, DownInv
      <3>7. LockInv' /\ ReceiptInv'
        BY <2>7 DEF Settles, LockInv, ReceiptInv
      <3> QED BY <3>1, <3>2, <3>3, <3>4, <3>5, <3>6, <3>7 DEF IInv
    <2>8. CASE SettlementFails(o, a)
      <3>alive. wpc[o][a] \in Alive
        BY <2>8 DEF SettlementFails, Alive, Unsettled, BeforeTurn, Ended
      <3>live. /\ mode # "down" /\ removing[o] # "unowned" /\ workers[o] = a /\ a <= made[o]
                 /\ \A k \in Launchers : lpc[k] \in Claiming => lop[k] # o
        BY <3>alive, LiveThread
      <3>1. ClaimInv'
        <4>1. \A p \in Ops \ {o} : wpc'[p] = wpc[p]
          BY <2>8 DEF SettlementFails
        <4>2. UNCHANGED <<status, runs, log, workers, made, lpc, lop>>
          BY <2>8 DEF SettlementFails
        <4> QED BY <3>live, <4>1, <4>2 DEF ClaimInv, Claiming
      <3>2. FreshInv'
        <4>1. UNCHANGED <<workers, made, log>>
          BY <2>8 DEF SettlementFails
        <4>2. \A p \in Ops, b \in Attempts : wpc'[p][b] # wpc[p][b] => p = o /\ b = a
          BY <2>8 DEF SettlementFails
        <4> QED BY <3>live, <4>1, <4>2 DEF FreshInv
      <3>3. ThreadInv'
        BY <2>8 DEF SettlementFails, ThreadInv, Alive, Unsettled, BeforeTurn, Ended, Active
      <3>4. RemovalInv'
        BY <2>8, <3>live DEF SettlementFails, RemovalInv, Claiming
      <3>5. DownInv'
        BY <2>8, <3>live DEF SettlementFails, DownInv
      <3>6. LockInv' /\ ReceiptInv' /\ QueueInv'
        BY <2>8 DEF SettlementFails, LockInv, ReceiptInv, QueueInv, Serving
      <3> QED BY <3>1, <3>2, <3>3, <3>4, <3>5, <3>6 DEF IInv
    <2>9. CASE _forget_control(o, a)
      <3>alive. wpc[o][a] \in Alive
        BY <2>9 DEF _forget_control, Alive, Unsettled, BeforeTurn, Ended
      <3>live. /\ mode # "down" /\ removing[o] # "unowned" /\ workers[o] = a /\ a <= made[o]
                 /\ \A k \in Launchers : lpc[k] \in Claiming => lop[k] # o
        BY <3>alive, LiveThread
      <3>row. status[o] # "queued" \/ runs[o] = 0
        BY <2>9 DEF _forget_control, ThreadInv
      <3>1. ClaimInv'
        <4>1. \A k \in Launchers : lpc[k] \notin Claiming \cup {"started"}
          BY <2>9 DEF _forget_control, LockInv
        <4>2. UNCHANGED lpc
          BY <2>9 DEF _forget_control
        <4> QED BY <4>1, <4>2 DEF ClaimInv, Claiming
      <3>2. FreshInv'
        BY <2>9, <3>live DEF _forget_control, FreshInv
      <3>3. ThreadInv'
        BY <2>9 DEF _forget_control, ThreadInv, Alive, Unsettled, BeforeTurn, Ended, Active
      <3>4. QueueInv'
        BY <2>9, <3>row DEF _forget_control, QueueInv, Serving
      <3>5. RemovalInv'
        BY <2>9, <3>live DEF _forget_control, RemovalInv, Claiming
      <3>6. DownInv'
        BY <2>9, <3>live DEF _forget_control, DownInv
      <3>7. LockInv' /\ ReceiptInv'
        BY <2>9 DEF _forget_control, LockInv, ReceiptInv
      <3> QED BY <3>1, <3>2, <3>3, <3>4, <3>5, <3>6, <3>7 DEF IInv
    <2> QED
      BY <1>6, <2>1, <2>2, <2>3, <2>4, <2>5, <2>6, <2>7, <2>8, <2>9 DEF _run
  <1>7. ASSUME NEW o \in Ops, NEW a \in Attempts, ShutdownPauses(o, a) PROVE IInv'
    <2>moved. /\ status'[o] = IF status[o] \in {"queued", "running"} THEN "pausing" ELSE status[o]
              /\ \A p \in Ops \ {o} : status'[p] = status[p]
      BY <1>7, TransitionResult DEF ShutdownPauses
    <2>1. ClaimInv'
      <3>1. UNCHANGED <<workers, runs, log, made, wpc, lpc, lop>>
        BY <1>7 DEF ShutdownPauses
      <3>2. \A p \in Ops : status[p] \in {"queued", "pausing"} => status'[p] \in {"queued", "pausing"}
        BY <2>moved
      <3> QED BY <3>1, <3>2 DEF ClaimInv, Claiming
    <2>2. ThreadInv'
      <3>1. UNCHANGED <<workers, runs, turns, log, made, wpc, lpc, lop, removing, mode>>
        BY <1>7 DEF ShutdownPauses, pauseVars
      <3> QED BY <2>moved, <3>1 DEF ThreadInv, Alive, Unsettled, BeforeTurn, Ended, Active
    <2>3. QueueInv'
      <3>1. UNCHANGED <<workers, runs, turns, log, made, wpc, lpc, lop, removing, mode>>
        BY <1>7 DEF ShutdownPauses, pauseVars
      <3> QED BY <2>moved, <3>1 DEF QueueInv, Claiming, Serving
    <2>4. RemovalInv'
      <3>1. UNCHANGED <<workers, runs, turns, log, made, wpc, lpc, lop, removing, mode>>
        BY <1>7 DEF ShutdownPauses, pauseVars
      <3> QED BY <2>moved, <3>1 DEF RemovalInv, Claiming, Serving
    <2>5. LockInv' /\ FreshInv' /\ ReceiptInv' /\ DownInv'
      BY <1>7 DEF ShutdownPauses, LockInv, FreshInv, ReceiptInv, DownInv
    <2> QED BY <2>1, <2>2, <2>3, <2>4, <2>5 DEF IInv
  <1>8. CASE shutdown
    <2>1. QueueInv'
      BY <1>8 DEF shutdown, QueueInv, Serving
    <2>2. DownInv'
      BY <1>8 DEF shutdown, DownInv
    <2>3. LockInv' /\ ClaimInv' /\ FreshInv' /\ ThreadInv' /\ ReceiptInv' /\ RemovalInv'
      BY <1>8 DEF shutdown, LockInv, ClaimInv, FreshInv, ThreadInv, ReceiptInv, RemovalInv
    <2> QED BY <2>1, <2>2, <2>3 DEF IInv
  <1>9. CASE ProcessDies
    <2>1. LockInv'
      BY <1>9 DEF ProcessDies, LockInv, Claiming
    <2>2. ClaimInv'
      BY <1>9 DEF ProcessDies, ClaimInv, Claiming
    <2>3. FreshInv'
      BY <1>9 DEF ProcessDies, FreshInv
    <2>4. ThreadInv'
      BY <1>9 DEF ProcessDies, ThreadInv, Alive, Unsettled, BeforeTurn, Ended, Active
    <2>5. QueueInv'
      BY <1>9 DEF ProcessDies, QueueInv, Serving
    <2>6. RemovalInv'
      BY <1>9 DEF ProcessDies, RemovalInv, Claiming
    <2>7. DownInv'
      BY <1>9 DEF ProcessDies, DownInv, Alive, Unsettled, BeforeTurn, Ended
    <2>8. ReceiptInv'
      BY <1>9 DEF ProcessDies, ReceiptInv
    <2> QED BY <2>1, <2>2, <2>3, <2>4, <2>5, <2>6, <2>7, <2>8 DEF IInv
  <1>10. CASE recover_at_startup
    <2>idle. /\ \A p \in Ops, a \in Attempts : wpc[p][a] \notin Alive
             /\ \A k \in Launchers : lpc[k] = "idle"
      BY <1>10 DEF recover_at_startup, DownInv
    <2>moved. /\ \A p \in Ops : status'[p] = status[p] \/ status'[p] = "interrupted"
              /\ \A p \in Ops : status[p] = "queued" /\ status'[p] = "queued" => ProvenNotStarted(p)
      BY <1>10, TransitionTable DEF recover_at_startup, Preserved, Active, Settled
    <2>same. UNCHANGED <<workers, runs, turns, log, made, wpc, lpc, lop, removing>>
      BY <1>10 DEF recover_at_startup
    <2>1. ClaimInv'
      <3> QED BY <2>idle, <2>same DEF ClaimInv, Claiming
    <2>2. ThreadInv'
      <3> QED BY <2>idle, <2>same DEF ThreadInv, Alive, Unsettled, BeforeTurn, Ended
    <2>3. QueueInv'
      <3>1. \A p \in Ops : status'[p] = "queued" => runs[p] = 0
        <4> SUFFICES ASSUME NEW p \in Ops, status'[p] = "queued" PROVE runs[p] = 0
          OBVIOUS
        <4>1. ProvenNotStarted(p)
          BY <2>moved
        <4> QED BY <4>1 DEF ProvenNotStarted, ReceiptInv
      <3> QED BY <2>moved, <2>same, <3>1 DEF QueueInv
    <2>4. RemovalInv'
      BY <1>10 DEF recover_at_startup, RemovalInv, Claiming
    <2>5. DownInv'
      BY <1>10 DEF recover_at_startup, DownInv
    <2>6. LockInv' /\ FreshInv' /\ ReceiptInv'
      BY <1>10 DEF recover_at_startup, LockInv, FreshInv, ReceiptInv
    <2> QED BY <2>1, <2>2, <2>3, <2>4, <2>5, <2>6 DEF IInv
  <1>11. CASE UNCHANGED vars
    <2>1. LockInv' /\ ClaimInv' /\ FreshInv' /\ ThreadInv'
      BY <1>11 DEF vars, LockInv, ClaimInv, FreshInv, ThreadInv
    <2>2. ReceiptInv' /\ QueueInv' /\ RemovalInv' /\ DownInv'
      BY <1>11 DEF vars, ReceiptInv, QueueInv, RemovalInv, DownInv, Serving
    <2> QED BY <2>1, <2>2
  <1> QED
    BY <1>1, <1>2, <1>3, <1>4, <1>5, <1>6, <1>7, <1>8, <1>9, <1>10, <1>11 DEF Next

(* The inductive invariant holds in every reachable state. *)
LEMMA InductiveInvariant ==
    ASSUME Removable \cap Reports = {}
    PROVE  Spec => [](TypeInv /\ IInv)
  <1>1. Init => TypeInv /\ IInv
    <2> SUFFICES ASSUME Init PROVE TypeInv /\ IInv
      OBVIOUS
    <2>1. TypeInv
      BY TypeInvInit
    <2>2. LockInv /\ ClaimInv /\ DownInv
      BY DispatchAssumption DEF Init, LockInv, ClaimInv, DownInv, Claiming
    <2>3. FreshInv /\ ReceiptInv /\ QueueInv
      BY DispatchAssumption
      DEF Init, LifecycleInit, NoReceipts, FreshInv, ReceiptInv, QueueInv
    <2>4. ThreadInv /\ RemovalInv
      BY DEF Init, LifecycleInit, ThreadInv, RemovalInv, Alive, Unsettled, BeforeTurn, Ended,
             Claiming
    <2> QED BY <2>1, <2>2, <2>3, <2>4 DEF IInv
  <1>2. TypeInv /\ IInv /\ [Next]_vars => (TypeInv /\ IInv)'
    BY TypeInvStep, InductiveStep
  <1> QED BY <1>1, <1>2, PTL DEF Spec

(***************************************************************************)
(* Every live worker thread is the registered one, so a row is never       *)
(* worked on by two, however launches, requeues, failed starts and         *)
(* restarts interleave.                                                    *)
(***************************************************************************)
THEOREM OneWorkerPerRow ==
    ASSUME Removable \cap Reports = {}
    PROVE  Spec => []OneLiveWorker
  <1>1. IInv => OneLiveWorker
    BY DEF IInv, ThreadInv, OneLiveWorker
  <1> QED BY <1>1, InductiveInvariant, PTL

(***************************************************************************)
(* The receipts never prove "not started" of a row one of whose threads    *)
(* did begin, so startup never hands a begun dispatch to a second thread.  *)
(***************************************************************************)
THEOREM ReceiptsNeverVouchForABegunRun ==
    ASSUME Removable \cap Reports = {}
    PROVE  Spec => []ReceiptProofSound
  <1>1. TypeInv /\ IInv => ReceiptProofSound
    <2> SUFFICES ASSUME TypeInv, IInv, NEW o \in Ops, ProvenNotStarted(o)
                 PROVE  runs[o] = 0
      BY DEF ReceiptProofSound
    <2>1. runs[o] \in Nat
      BY DEF TypeInv, TypeOK
    <2>2. ~(runs[o] > 0)
      BY DEF IInv, ReceiptInv, ProvenNotStarted
    <2> QED BY <2>1, <2>2
  <1> QED BY <1>1, InductiveInvariant, PTL

(***************************************************************************)
(* No pause, removal, recovery or requeue settles a row while a thread     *)
(* that has yet to settle it is alive.                                     *)
(***************************************************************************)
THEOREM WorkersOwnTheirRows ==
    ASSUME Removable \cap Reports = {}
    PROVE  Spec => []WorkerOwnsLiveRow
  <1>1. IInv => WorkerOwnsLiveRow
    BY DEF IInv, ThreadInv, WorkerOwnsLiveRow
  <1> QED BY <1>1, InductiveInvariant, PTL
-----------------------------------------------------------------------------
(***************************************************************************)
(* The engine implements the ledger's promise: every step of AgentDispatch *)
(* is a step of TaskLifecycle or leaves its variables alone.  The ledger   *)
(* variables are the engine's own, so the refinement mapping is the        *)
(* identity; what needs the inductive invariant is that a thread begins    *)
(* only on a live row no thread has begun on, and a turn only once.        *)
(***************************************************************************)

(* A guarded transition of a row is a Move of the ledger, or nothing. *)
LEMMA TransitionMoves ==
    ASSUME TypeInv, NEW o \in Ops, NEW to \in {"running", "pausing"} \cup Settled,
           status' = [status EXCEPT ![o] = Transition(@, to)],
           UNCHANGED <<runs, turns>>
    PROVE  [LifecycleNext]_lifecycleVars
  <1>1. CASE status[o] \in AGENT_TASK_TRANSITIONS[to]
    <2>1. Move(o, to)
      BY <1>1 DEF Move, Transition
    <2> QED BY <2>1 DEF LifecycleNext
  <1>2. CASE status[o] \notin AGENT_TASK_TRANSITIONS[to]
    BY <1>2 DEF Transition, TypeInv, TypeOK, lifecycleVars
  <1> QED BY <1>1, <1>2

(* Each step of the engine, seen through the ledger. *)
LEMMA StepRefines ==
    ASSUME TypeInv, IInv, [Next]_vars
    PROVE  [LifecycleNext]_lifecycleVars
  <1>1. ASSUME NEW o \in Ops, create_agent_task(o) PROVE [LifecycleNext]_lifecycleVars
    <2>1. Insert(o)
      BY <1>1 DEF create_agent_task, Insert
    <2> QED BY <2>1 DEF LifecycleNext
  <1>2. ASSUME NEW o \in Ops, requeue_report(o) PROVE [LifecycleNext]_lifecycleVars
    <2>1. Requeue(o)
      BY <1>2 DEF requeue_report, Requeue
    <2> QED BY <2>1 DEF LifecycleNext
  <1>3. ASSUME NEW o \in Ops, PauseStep(o) PROVE [LifecycleNext]_lifecycleVars
    <2>1. CASE pause(o) \/ request_member_removal_pause(o)
      <3>1. Move(o, "pausing")
        BY <2>1 DEF pause, request_member_removal_pause, Move
      <3> QED BY <3>1 DEF LifecycleNext
    <2>2. CASE _signal_agent_task_pause(o) \/ RemovalLooksForWorker(o)
      BY <2>2 DEF _signal_agent_task_pause, RemovalLooksForWorker, lifecycleVars
    <2>3. CASE RemovalSettlesUnowned(o)
      BY <2>3, TransitionMoves DEF RemovalSettlesUnowned, Settled
    <2> QED BY <1>3, <2>1, <2>2, <2>3 DEF PauseStep
  <1>4. ASSUME NEW l \in Launchers, LauncherStep(l) \/ (\E o \in Ops : launch_admitted(l, o))
        PROVE  [LifecycleNext]_lifecycleVars
    <2>1. CASE StartThread(l)
      <3>1. /\ lop[l] \in Ops
            /\ runs[lop[l]] = 0
            /\ status[lop[l]] \in Active
        BY <2>1 DEF StartThread, TypeInv, IInv, ClaimInv, Claiming, Active
      <3>2. Begin(lop[l])
        BY <2>1, <3>1 DEF StartThread, Begin, TypeInv, TypeOK
      <3> QED BY <3>1, <3>2 DEF LifecycleNext
    <2>2. CASE ~StartThread(l)
      BY <1>4, <2>2
      DEF LauncherStep, launch_admitted, ProveLaunch, _spawn_record, AttemptReceipt, SpawnFails,
          StartedReceipt, lifecycleVars
    <2> QED BY <2>1, <2>2
  <1>5. ASSUME NEW o \in Ops, NEW a \in Attempts, _run(o, a)
        PROVE  [LifecycleNext]_lifecycleVars
    <2>1. CASE PausesBeforeRunning(o, a)
      BY <2>1, TransitionMoves DEF PausesBeforeRunning, Settled
    <2>2. CASE mark_agent_task_running(o, a)
      BY <2>2, TransitionMoves DEF mark_agent_task_running
    <2>3. CASE Settles(o, a)
      <3>1. Verdict(o, a) \in Settled
        BY VerdictSettles
      <3> QED BY <2>3, <3>1, TransitionMoves DEF Settles
    <2>4. CASE StartsProvider(o, a) /\ turns' # turns
      <3>1. /\ runs[o] = 1 /\ turns[o] = 0
            /\ status[o] \in {"running", "pausing"}
        BY <2>4 DEF StartsProvider, IInv, ThreadInv, Unsettled, BeforeTurn
      <3>2. Turn(o)
        BY <2>4, <3>1 DEF StartsProvider, Turn, TypeInv, TypeOK
      <3> QED BY <3>2 DEF LifecycleNext
    <2>5. CASE StartsProvider(o, a) /\ turns' = turns
      BY <2>5 DEF StartsProvider, lifecycleVars
    <2>6. CASE \/ WorkerReads(o, a) \/ WorkerDies(o, a) \/ StreamEnds(o, a)
               \/ SettlementFails(o, a) \/ _forget_control(o, a)
      BY <2>6 DEF WorkerReads, WorkerDies, StreamEnds, SettlementFails, _forget_control,
                  lifecycleVars
    <2> QED BY <1>5, <2>1, <2>2, <2>3, <2>4, <2>5, <2>6 DEF _run
  <1>6. ASSUME NEW o \in Ops, NEW a \in Attempts, ShutdownPauses(o, a)
        PROVE  [LifecycleNext]_lifecycleVars
    BY <1>6, TransitionMoves DEF ShutdownPauses
  <1>7. CASE recover_at_startup
    <2> DEFINE S == {o \in Ops : status[o] \in AGENT_TASK_TRANSITIONS["interrupted"]
                                 /\ o \notin Preserved}
    <2>1. \A o \in S : status[o] \in Active
      BY TransitionTable DEF Settled
    <2>2. status' = [o \in Ops |-> IF o \in S THEN "interrupted" ELSE status[o]]
      BY <1>7 DEF recover_at_startup
    <2>3. InterruptAll(S)
      BY <1>7, <2>1, <2>2 DEF recover_at_startup, InterruptAll
    <2>4. S \in SUBSET Ops
      OBVIOUS
    <2> QED BY <2>3, <2>4 DEF LifecycleNext
  <1>8. CASE shutdown \/ ProcessDies \/ UNCHANGED vars
    BY <1>8 DEF shutdown, ProcessDies, vars, lifecycleVars
  <1> QED BY <1>1, <1>2, <1>3, <1>4, <1>5, <1>6, <1>7, <1>8 DEF Next

(***************************************************************************)
(* Through every launch, pause, removal, crash and recovery the ledger is  *)
(* only ever seen to move along AGENT_TASK_TRANSITIONS, with one thread    *)
(* per admission and one provider turn per thread.                         *)
(***************************************************************************)
THEOREM DispatchImplementsLifecycle ==
    ASSUME Removable \cap Reports = {}
    PROVE  Spec => LifecycleSpec
  <1>1. Init => LifecycleInit
    BY DEF Init
  <1>2. TypeInv /\ IInv /\ [Next]_vars => [LifecycleNext]_lifecycleVars
    BY StepRefines
  <1> QED BY <1>1, <1>2, InductiveInvariant, PTL DEF Spec, LifecycleSpec
=============================================================================
