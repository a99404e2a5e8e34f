---------------------------- MODULE ServerUpdate ----------------------------
(***************************************************************************)
(* A source update of the installed server: the root command that prepares *)
(* a candidate, closes the running release, saves a checkpoint, switches   *)
(* the release pointer and has the candidate verified behind the startup   *)
(* effect fence; the automatic rollback; and the recovery of a command or  *)
(* a machine that died anywhere in between.                                *)
(*                                                                         *)
(* Source: server_ops/update_cutover.py (both coordinators),               *)
(* server_ops/update_checkpoint.py (restore), server_ops/update.py         *)
(* (admission and recovery), server_ops/install.py (the systemd unit),     *)
(* background.py (StartupEffectFence), api/app.py (start of the runtime).  *)
(***************************************************************************)
EXTENDS Integers, FiniteSets

CONSTANTS
    Roots,      \* the directories a checkpoint replaces
    DataRoot,   \* the one of them that holds rcp.sqlite3
    MaxRelease, \* releases that are ever built
    MaxWrites,  \* changes accepted by the runtime
    MaxFaults,  \* failed steps of the command, refused or lost control calls
    MaxCrashes  \* deaths of the command, the server or both

ASSUME UpdateAssumption ==
    /\ DataRoot \in Roots /\ IsFiniteSet(Roots)
    /\ MaxRelease \in Nat \ {0}
    /\ MaxWrites \in Nat /\ MaxFaults \in Nat /\ MaxCrashes \in Nat

VARIABLES
    current,   \* the release the installed pointer names
    op,        \* the receipt of the latest update operation
    root,      \* the step the root command is at
    held,      \* the receipt as the command last read it
    wanted,    \* systemd keeps the unit running
    srv,       \* the server process
    ask,       \* the control request the process serves
    live,      \* the content of each live root, Gone while it is quarantined
    saved,     \* the content of each root in the checkpoint
    aside,     \* roots with a quarantine directory
    journal,   \* phase of the rollback journal
    accepted,  \* changes the runtime has acknowledged
    astray,    \* an abort has opened the runtime and has not recorded it
    faults, crashes

cmdVars == <<root, held>>
dataVars == <<live, saved, aside, journal>>
countVars == <<faults, crashes>>
vars == <<current, op, cmdVars, wanted, srv, ask, dataVars, accepted, astray, countVars>>

Releases == 1..MaxRelease
Gone == [fmt |-> 0, w |-> 0, used |-> FALSE]

TERMINAL_UPDATE_STATES == {"committed", "rolled_back", "aborted_before_switch"}
BeforeSwitch == {"maintenance_closing", "maintenance_closed", "checkpoint_ready"}
Reopening == {"candidate_reopening", "old_release_reopening"}

_ALLOWED_TRANSITIONS ==
    [maintenance_closing |-> {"maintenance_closed", "aborted_before_switch", "repair_required"},
     maintenance_closed |-> {"checkpoint_ready", "aborted_before_switch", "repair_required"},
     checkpoint_ready |-> {"candidate_starting", "aborted_before_switch", "repair_required"},
     candidate_starting |-> {"candidate_verified", "rollback_restoring", "repair_required"},
     candidate_verified |-> {"candidate_reopening", "rollback_restoring", "repair_required"},
     candidate_reopening |-> {"committed"},
     rollback_restoring |-> {"old_release_starting", "repair_required"},
     old_release_starting |-> {"old_release_verified", "repair_required"},
     old_release_verified |-> {"old_release_reopening", "repair_required"},
     old_release_reopening |-> {"rolled_back"},
     repair_required |-> {"rollback_restoring", "old_release_starting", "old_release_verified"},
     committed |-> {}, rolled_back |-> {}, aborted_before_switch |-> {}]

States == DOMAIN _ALLOWED_TRANSITIONS
Terminal == op.state \in TERMINAL_UPDATE_STATES

(* The release a process must run to be started while o is unfinished; 0 is
   either. *)
expected_running_commit(o) ==
    CASE o.state \in BeforeSwitch \cup {"old_release_starting", "old_release_verified",
                                        "old_release_reopening"} -> o.base
      [] o.state \in {"candidate_starting", "candidate_verified", "candidate_reopening"} -> o.cand
      [] OTHER -> 0

(* The release and the terminal state a recorded decision stands for. *)
Chosen(o) == IF o.state \in {"candidate_reopening", "committed"} THEN o.cand ELSE o.base
Decided(o) == IF o.state \in {"candidate_reopening", "committed"} THEN "committed" ELSE "rolled_back"

(* No process: nothing open, nothing running. *)
NoServer == [rel |-> 0, fence |-> "none", adm |-> FALSE, bg |-> FALSE, own |-> FALSE,
             begun |-> FALSE, base |-> FALSE, busy |-> FALSE, launch |-> "none"]
NoOp == [state |-> "aborted_before_switch", base |-> 0, cand |-> 0, ckpt |-> FALSE, bad |-> FALSE]
NoAsk == [call |-> "none", digest |-> NoOp, at |-> "none"]

Init ==
    /\ current = 1
    /\ op = [state |-> "committed", base |-> 0, cand |-> 1, ckpt |-> FALSE, bad |-> FALSE]
    /\ root = "idle" /\ held = op
    /\ wanted = TRUE
    /\ srv = NoServer
    /\ ask = NoAsk
    /\ live = [r \in Roots |-> [fmt |-> 1, w |-> 0, used |-> r = DataRoot]]
    /\ saved = [r \in Roots |-> Gone]
    /\ aside = {} /\ journal = "none"
    /\ accepted = 0 /\ astray = FALSE
    /\ faults = 0 /\ crashes = 0

Fault == faults < MaxFaults /\ faults' = faults + 1

(* advance_update_operation: the receipt must still have the digest d. *)
Advanced(d, state) ==
    /\ op = d
    /\ state = op.state \/ state \in _ALLOWED_TRANSITIONS[op.state]
    /\ op' = [op EXCEPT !.state = state]

At(step) == root = step
Goto(step) == root' = step

-----------------------------------------------------------------------------
(* The server process. *)

(* Mutant: a start only asks whether the release fits the receipt. *)
MayStart_NoJournal(rel) == Terminal \/ expected_running_commit(op) \in {0, rel}

(* inspect_installed_replacement_startup and load_update_runtime_boundary. *)
MayStart(rel) ==
    /\ journal \in {"none", "complete"}
    /\ op.state \notin {"rollback_restoring", "repair_required"}
    /\ Terminal \/ expected_running_commit(op) = rel

(* Opening the store migrates it and leaves files in the data root; a process
   started within an unfinished operation has its gates and its fence closed. *)
StartProcess ==
    /\ wanted /\ srv = NoServer
    /\ MayStart(current)
    /\ srv' = [NoServer EXCEPT !.rel = current,
                               !.fence = IF Terminal THEN "none" ELSE "active",
                               !.adm = Terminal, !.bg = Terminal]
    /\ live' = [live EXCEPT ![DataRoot].used = TRUE,
                            ![DataRoot].fmt = IF @ < current THEN current ELSE @]
    /\ UNCHANGED <<current, op, cmdVars, wanted, ask, saved, aside, journal, accepted, astray, countVars>>

(* start_deferred_runtime: at once, or when the fence has been released. *)
start_deferred_runtime ==
    /\ srv.rel # 0 /\ ~srv.begun /\ srv.fence # "active"
    /\ srv' = [srv EXCEPT !.begun = TRUE, !.own = TRUE]
    /\ UNCHANGED <<current, op, cmdVars, wanted, ask, dataVars, accepted, astray, countVars>>

(* RuntimeAdmissionGate.mutation: entered while open, finished later. *)
mutation ==
    /\ srv.adm /\ srv.begun /\ ~srv.busy /\ accepted < MaxWrites
    /\ srv' = [srv EXCEPT !.busy = TRUE]
    /\ UNCHANGED <<current, op, cmdVars, wanted, ask, dataVars, accepted, astray, countVars>>

(* A change reaches the store and the project's files and is acknowledged. *)
Writes ==
    /\ live' = [r \in Roots |-> [live[r] EXCEPT !.w = @ + 1]]
    /\ accepted' = accepted + 1

FinishMutation ==
    /\ srv.busy
    /\ srv' = [srv EXCEPT !.busy = FALSE]
    /\ IF accepted < MaxWrites THEN Writes ELSE UNCHANGED <<live, accepted>>
    /\ UNCHANGED <<current, op, cmdVars, wanted, ask, saved, aside, journal, astray, countVars>>

(* An automatic launcher passes the check-only gate, publishes its worker
   later, and the worker changes the project. *)
Launch ==
    /\ \/ /\ srv.own /\ srv.bg /\ srv.launch = "none" /\ accepted < MaxWrites
          /\ srv' = [srv EXCEPT !.launch = "passed"]
          /\ UNCHANGED <<live, accepted>>
       \/ /\ srv.launch = "passed"
          /\ srv' = [srv EXCEPT !.launch = "running"]
          /\ UNCHANGED <<live, accepted>>
       \/ /\ srv.launch = "running"
          /\ srv' = [srv EXCEPT !.launch = "none"]
          /\ IF accepted < MaxWrites THEN Writes ELSE UNCHANGED <<live, accepted>>
    /\ UNCHANGED <<current, op, cmdVars, wanted, ask, saved, aside, journal, astray, countVars>>

-----------------------------------------------------------------------------
(* UpdateServiceCoordinator: the process's side of a control call. *)

Serves(call, at) == ask.call = call /\ ask.at = at
Step(at) == ask' = [ask EXCEPT !.at = at]

Verifiable == {"candidate_starting", "candidate_verified", "old_release_starting", "old_release_verified"}
Releasable == {"candidate_verified", "old_release_verified"} \cup Reopening

(* What a call requires of the receipt and of the process it reaches. *)
Fits ==
    /\ op = ask.digest
    /\ CASE ask.call = "enter" -> op.state = "maintenance_closing" /\ srv.base
         [] ask.call = "verify" -> /\ srv.fence = "active" /\ op.state \in Verifiable
                                   /\ srv.rel = expected_running_commit(op)
                                   /\ \A r \in Roots : live[r].w = saved[r].w
         [] ask.call = "release" -> op.state \in Releasable \cup {"committed", "rolled_back"}
         [] ask.call = "abort" -> /\ op.state \in BeforeSwitch \cup {"aborted_before_switch"}
                                  /\ srv.rel = op.base
         [] OTHER -> FALSE

(* A call that does not fit is refused before it changes anything, and any
   call can run into its timeout. *)
Refuse ==
    /\ \/ ask.at = "begin" /\ ~Fits /\ UNCHANGED faults
       \/ ask.at \in {"begin", "closing", "draining", "pausing", "capturing"} /\ Fault
    /\ Step("refused")
    /\ UNCHANGED <<current, op, cmdVars, wanted, srv, dataVars, accepted, astray, crashes>>

(* A repeated release or abort finds its receipt finished. *)
AlreadyDone ==
    /\ ask.at = "begin" /\ Fits
    /\ ask.call \in {"release", "abort"} /\ Terminal
    /\ Step("ok")
    /\ UNCHANGED <<current, op, cmdVars, wanted, srv, dataVars, accepted, astray, countVars>>

(* Mutant: the workers are not looked at again once the owners are gone. *)
enter_NoRecheck ==
    /\ ask.call = "enter"
    /\ \/ /\ ask.at = "begin" /\ Fits
          /\ srv' = [srv EXCEPT !.adm = FALSE]
          /\ Step("closing") /\ UNCHANGED <<op, saved, aside, journal>>
       \/ /\ ask.at = "closing" /\ ~srv.busy
          /\ srv' = [srv EXCEPT !.bg = FALSE]
          /\ Step("draining") /\ UNCHANGED <<op, saved, aside, journal>>
       \/ /\ ask.at = "draining" /\ srv.launch # "running"
          /\ Step("pausing") /\ UNCHANGED <<op, srv, saved, aside, journal>>
       \/ /\ ask.at = "pausing" /\ srv.launch # "passed"
          /\ srv' = [srv EXCEPT !.own = FALSE]
          /\ Step("capturing") /\ UNCHANGED <<op, saved, aside, journal>>
       \/ /\ ask.at = "capturing"
          /\ saved' = [r \in Roots |-> [live[r] EXCEPT !.used = FALSE]]
          /\ aside' = {} /\ journal' = "none"
          /\ Advanced(ask.digest, "maintenance_closed")
          /\ Step("ok") /\ UNCHANGED srv
    /\ UNCHANGED <<current, cmdVars, wanted, live, accepted, astray, countVars>>

(* enter_maintenance: close notifications and both gates, wait for what has
   entered, join the automatic owners, look again, capture. *)
enter_maintenance ==
    /\ ask.call = "enter"
    /\ \/ /\ ask.at = "begin" /\ Fits
          /\ srv' = [srv EXCEPT !.adm = FALSE]
          /\ Step("closing") /\ UNCHANGED <<op, saved, aside, journal>>
       \/ /\ ask.at = "closing" /\ ~srv.busy
          /\ srv' = [srv EXCEPT !.bg = FALSE]
          /\ Step("draining") /\ UNCHANGED <<op, saved, aside, journal>>
       \/ /\ ask.at = "draining" /\ srv.launch # "running"
          /\ Step("pausing") /\ UNCHANGED <<op, srv, saved, aside, journal>>
       \/ /\ ask.at = "pausing" /\ srv.launch # "passed"
          /\ srv' = [srv EXCEPT !.own = FALSE]
          /\ Step("capturing") /\ UNCHANGED <<op, saved, aside, journal>>
       \/ /\ ask.at = "capturing" /\ srv.launch # "running"
          /\ saved' = [r \in Roots |-> [live[r] EXCEPT !.used = FALSE]]
          /\ aside' = {} /\ journal' = "none"
          /\ Advanced(ask.digest, "maintenance_closed")
          /\ Step("ok") /\ UNCHANGED srv
    /\ UNCHANGED <<current, cmdVars, wanted, live, accepted, astray, countVars>>

(* verify_running_release: the fenced process shows the captured read model. *)
verify_running_release ==
    /\ Serves("verify", "begin") /\ Fits
    /\ Advanced(ask.digest, IF srv.rel = op.cand THEN "candidate_verified" ELSE "old_release_verified")
    /\ Step("ok")
    /\ UNCHANGED <<current, cmdVars, wanted, srv, dataVars, accepted, astray, countVars>>

(* _open_runtime, as far as it does not wait.  A process that was started
   behind a fence only releases it. *)
OpensRuntime ==
    srv' = IF srv.fence = "none"
             THEN [srv EXCEPT !.bg = TRUE, !.adm = TRUE, !.own = TRUE]
             ELSE [srv EXCEPT !.bg = TRUE, !.fence = "open"]

(* _open_runtime has returned: the runtime started, admission is open. *)
RuntimeOpened ==
    /\ srv.begun
    /\ srv' = [srv EXCEPT !.adm = TRUE]

Reopens == IF op.state \in {"candidate_verified", "candidate_reopening"}
             THEN "candidate_reopening" ELSE "old_release_reopening"

(* Mutant: the runtime is opened before the receipt says so. *)
release_OpensFirst ==
    /\ ask.call = "release"
    /\ \/ /\ ask.at = "begin" /\ Fits /\ ~Terminal
          /\ OpensRuntime
          /\ ask' = [ask EXCEPT !.at = "opening"]
          /\ UNCHANGED op
       \/ /\ ask.at = "opening"
          /\ srv.begun
          /\ Advanced(ask.digest, Reopens)
          /\ ask' = [ask EXCEPT !.at = "waiting", !.digest = op']
          /\ UNCHANGED srv
       \/ /\ ask.at = "waiting" /\ RuntimeOpened
          /\ op = ask.digest
          /\ op' = [op EXCEPT !.state = Decided(op), !.bad = FALSE]
          /\ Step("ok")
       \/ /\ ask.at = "waiting" /\ srv.begun
          /\ op # ask.digest
          /\ op' = IF op.state \in Reopening \cup {"committed", "rolled_back"}
                     THEN [op EXCEPT !.bad = TRUE] ELSE op
          /\ srv' = [srv EXCEPT !.adm = TRUE]
          /\ Step("refused")
    /\ UNCHANGED <<current, cmdVars, wanted, dataVars, accepted, astray, countVars>>

(* release_fence: the decision is recorded before anything opens; a failed or
   late start, or a receipt that changed meanwhile, leaves a runtime failure. *)
release_fence ==
    /\ ask.call = "release"
    /\ \/ /\ ask.at = "begin" /\ Fits /\ ~Terminal
          /\ Advanced(ask.digest, Reopens)
          /\ ask' = [ask EXCEPT !.at = "opening", !.digest = op']
          /\ UNCHANGED srv
       \/ /\ ask.at = "opening" /\ OpensRuntime
          /\ Step("waiting") /\ UNCHANGED op
       \/ /\ ask.at = "waiting" /\ RuntimeOpened
          /\ op = ask.digest
          /\ op' = [op EXCEPT !.state = Decided(op), !.bad = FALSE]
          /\ Step("ok")
       \/ /\ ask.at = "waiting" /\ srv.begun
          /\ op # ask.digest
          /\ op' = IF op.state \in Reopening \cup {"committed", "rolled_back"}
                     THEN [op EXCEPT !.bad = TRUE] ELSE op
          /\ srv' = [srv EXCEPT !.adm = TRUE]
          /\ Step("refused")
    /\ UNCHANGED <<current, cmdVars, wanted, dataVars, accepted, astray, countVars>>

(* The runtime is not there in time. *)
ReleaseTimesOut ==
    /\ Serves("release", "waiting") /\ ~srv.begun
    /\ Fault
    /\ op' = IF op.state \in Reopening THEN [op EXCEPT !.bad = TRUE] ELSE op
    /\ Step("refused")
    /\ UNCHANGED <<current, cmdVars, wanted, srv, dataVars, accepted, astray, crashes>>

(* abort_before_switch: open the old release again, then record it. *)
abort_before_switch ==
    /\ ask.call = "abort"
    /\ \/ /\ ask.at = "begin" /\ Fits /\ ~Terminal
          /\ OpensRuntime /\ astray' = TRUE
          /\ Step("waiting") /\ UNCHANGED op
       \/ /\ ask.at = "waiting" /\ RuntimeOpened
          /\ IF op = ask.digest
               THEN Advanced(op, "aborted_before_switch") /\ Step("ok")
                    /\ astray' = (live[DataRoot].w # accepted)
               ELSE Step("refused") /\ UNCHANGED <<op, astray>>
    /\ UNCHANGED <<current, cmdVars, wanted, dataVars, accepted, countVars>>

(* The runtime is not there in time, or the receipt cannot be written; what
   was opened stays open. *)
AbortFails ==
    /\ Serves("abort", "waiting")
    /\ Fault
    /\ Step("refused")
    /\ UNCHANGED <<current, op, cmdVars, wanted, srv, dataVars, accepted, astray, crashes>>

-----------------------------------------------------------------------------
(* The root command: asking the process. *)

Calls == [enter |-> "enter", verify |-> "verify", release |-> "release", abort |-> "abort",
          re_abort |-> "abort", rb_verify |-> "verify", rb_release |-> "release"]

(* Where the command goes when a call is answered. *)
Answered == [enter |-> "rehearse", verify |-> "release", release |-> "idle", abort |-> "idle",
             re_abort |-> "idle", rb_verify |-> "rb_release", rb_release |-> "idle"]

(* Where it goes when a step raises. *)
OnFailure(step) ==
    CASE step \in {"enter", "rehearse", "checkpoint", "stop", "switch"} -> "reopen"
      [] step \in {"mark", "start", "verify", "release"} -> "settle"
      [] step \in {"rb_mark", "rb_stop", "rb_restore", "rb_switch", "rb_advance", "rb_start",
                   "rb_verify", "rb_release"} -> "rb_failed"
      [] step \in {"rp_stop", "rp_mark", "rp_start", "rp_probe"} -> "rp_failed"
      [] step \in {"reopen", "abort"} -> "abort_failed"
      [] step \in {"re_start", "re_mark", "re_abort"} -> "halt"
      [] step = "re_stop" -> "re_start"
      [] step = "rc_stop" -> "start"
      [] OTHER -> "idle"

(* _control_for_running finds the release it expects and an idle control
   socket; a process that is not fenced serves it once it has started. *)
Reachable(rel) ==
    /\ srv.rel = rel /\ ask = NoAsk
    /\ srv.begun \/ srv.fence = "active"

CallRelease(step) ==
    CASE step \in {"verify", "release"} -> held.cand
      [] step = "rp_probe" -> Chosen(op)
      [] OTHER -> held.base

SendAsk ==
    /\ root \in DOMAIN Calls /\ ask = NoAsk
    /\ Reachable(CallRelease(root))
    /\ ask' = [call |-> Calls[root], digest |-> held, at |-> "begin"]
    /\ UNCHANGED <<current, op, cmdVars, wanted, srv, dataVars, accepted, astray, countVars>>

Receives ==
    /\ root \in DOMAIN Calls /\ ask.call = Calls[root]
    /\ ask.at \in {"ok", "refused"}
    /\ ask' = NoAsk
    /\ Goto(IF ask.at = "ok" THEN Answered[root] ELSE OnFailure(root))
    /\ held' = op
    /\ UNCHANGED <<current, op, wanted, srv, dataVars, accepted, astray, countVars>>

(* An answer nobody waits for any more. *)
AnswerDropped ==
    /\ ask.at \in {"ok", "refused"}
    /\ ~(root \in DOMAIN Calls /\ ask.call = Calls[root])
    /\ ask' = NoAsk
    /\ UNCHANGED <<current, op, cmdVars, wanted, srv, dataVars, accepted, astray, countVars>>

(* Any step can raise: a refusal of systemd, a failed copy, a call that is not
   answered in time.  A process that is not there needs no fault. *)
Unanswerable ==
    /\ root \in DOMAIN Calls \cup {"rp_probe"}
    /\ srv.rel # CallRelease(root)
    /\ ~(wanted /\ srv = NoServer /\ current = CallRelease(root) /\ MayStart(current))

StepFails ==
    /\ root \notin {"idle", "settle", "abort_failed", "rb_failed", "rp_failed", "halt"}
    /\ IF Unanswerable THEN UNCHANGED faults ELSE Fault
    /\ Goto(OnFailure(root))
    /\ held' = op
    /\ current' \in IF At("switch") THEN {current, op.cand} ELSE {current}
    /\ UNCHANGED <<op, wanted, srv, ask, dataVars, accepted, astray, crashes>>

-----------------------------------------------------------------------------
(* The root command: UpdateCutoverCoordinator. *)

Stopped == wanted' = FALSE /\ srv' = NoServer /\ ask' = NoAsk
Untouched == UNCHANGED <<dataVars, accepted, astray, countVars>>

Unfinished == ~Terminal \/ (op.state \in {"committed", "rolled_back"} /\ op.bad)

(* Mutant: a checkpointed receipt is always taken to be before the switch. *)
recover_NeverSwitched ==
    CASE op.state \in Reopening \cup {"committed", "rolled_back"} -> "rp_check"
      [] op.state \in BeforeSwitch -> "re_stop"
      [] op.state \in {"candidate_starting", "candidate_verified"} /\ current = op.cand -> "rc_stop"
      [] OTHER -> "rb_mark"

(* recover and _recover_unfinished_update: where an unfinished receipt is
   re-entered; "halt" where there is no safe route. *)
recover ==
    CASE op.state \in Reopening \cup {"committed", "rolled_back"} -> "rp_check"
      [] op.state \in BeforeSwitch /\ current = op.base -> "re_stop"
      [] op.state = "checkpoint_ready" /\ current = op.cand -> "re_mark"
      [] op.state \in {"candidate_starting", "candidate_verified"} /\ current = op.cand -> "rc_stop"
      [] op.state \in {"rollback_restoring", "old_release_starting", "old_release_verified",
                       "repair_required"} /\ op.ckpt -> "rb_mark"
      [] OTHER -> "halt"

(* rcp server update: finish what is unfinished, or publish one operation for
   a candidate built and rehearsed beside the running release. *)
Command ==
    /\ At("idle")
    /\ IF Unfinished
         THEN Goto(recover) /\ held' = op /\ UNCHANGED <<op, srv>>
         ELSE /\ journal \in {"none", "complete"}
              /\ op.cand < MaxRelease /\ Reachable(current) /\ srv.adm
              /\ op' = [state |-> "maintenance_closing", base |-> current, cand |-> op.cand + 1,
                        ckpt |-> FALSE, bad |-> FALSE]
              /\ srv' = [srv EXCEPT !.base = TRUE]
              /\ held' = op' /\ Goto("enter")
    /\ UNCHANGED <<current, wanted, ask>> /\ Untouched

(* The receipt is advanced by the command itself, which raises when a call it
   has given up has changed the receipt since it was read. *)
Marks(step, states, state, next) ==
    /\ At(step)
    /\ CASE held.state \notin states -> UNCHANGED <<op, held>> /\ Goto(next)
         [] held.state \in states /\ op = held ->
              Advanced(held, state) /\ held' = op' /\ Goto(next)
         [] held.state \in states /\ op # held ->
              UNCHANGED op /\ held' = op /\ Goto(OnFailure(step))
    /\ UNCHANGED <<current, wanted, srv, ask>> /\ Untouched

(* run, between the closed maintenance and the stop: the final rehearsal, then
   the checkpoint. *)
final_rehearsal ==
    /\ At("rehearse") /\ held.state = "maintenance_closed"
    /\ Goto("checkpoint")
    /\ UNCHANGED <<current, op, held, wanted, srv, ask>> /\ Untouched

create_checkpoint ==
    /\ At("checkpoint")
    /\ op = held
    /\ op' = [op EXCEPT !.state = "checkpoint_ready", !.ckpt = TRUE]
    /\ held' = op' /\ Goto("stop")
    /\ UNCHANGED <<current, wanted, srv, ask>> /\ Untouched

AfterStop == [stop |-> "switch", rb_stop |-> "rb_restore", rp_stop |-> "rp_mark",
              re_stop |-> "re_start", rc_stop |-> "start"]

(* stop_service waits until no process is left. *)
stop_service ==
    /\ root \in DOMAIN AfterStop
    /\ Stopped
    /\ Goto(IF At("rb_stop") /\ op.state \notin {"rollback_restoring", "repair_required"}
              THEN "rb_check" ELSE AfterStop[root])
    /\ UNCHANGED <<current, op, held>> /\ Untouched

AfterStart == [start |-> "verify", re_start |-> "re_abort", rb_start |-> "rb_verify",
               rp_start |-> "rp_probe", reopen |-> "abort"]

(* start_service; after a failure before the switch only a checkpointed
   operation has its service started. *)
start_service ==
    /\ root \in DOMAIN AfterStart
    /\ wanted' = (wanted \/ ~At("reopen") \/ op.state = "checkpoint_ready")
    /\ Goto(AfterStart[root])
    /\ UNCHANGED <<current, op, held, srv, ask>> /\ Untouched

switch_current ==
    /\ At("switch") /\ current = op.base
    /\ current' = op.cand
    /\ Goto("mark")
    /\ UNCHANGED <<op, held, wanted, srv, ask>> /\ Untouched

candidate_starting == Marks("mark", {"checkpoint_ready"}, "candidate_starting", "start")
ResumeSwitched == Marks("re_mark", {"checkpoint_ready"}, "candidate_starting", "rc_stop")

(* A failure after the switch: forward if the decision is recorded, else back. *)
settle ==
    /\ At("settle")
    /\ IF op.state \in {"candidate_reopening", "committed"}
         THEN op' = [op EXCEPT !.bad = TRUE] /\ Goto("rp_check")
         ELSE UNCHANGED op /\ Goto("rb_mark")
    /\ held' = op'
    /\ UNCHANGED <<current, wanted, srv, ask>> /\ Untouched

(* _abort_before_switch, its except branch. *)
AbortFailed ==
    /\ At("abort_failed")
    /\ op' = IF ~Terminal /\ op.ckpt /\ "repair_required" \in _ALLOWED_TRANSITIONS[op.state]
               THEN [op EXCEPT !.state = "repair_required"] ELSE op
    /\ Goto("idle") /\ held' = op'
    /\ UNCHANGED <<current, wanted, srv, ask>> /\ Untouched

-----------------------------------------------------------------------------
(* _rollback and restore_update_checkpoint. *)

BeginRollback ==
    Marks("rb_mark", {"candidate_starting", "candidate_verified"}, "rollback_restoring", "rb_stop")

Journal(phase) == journal' = phase /\ UNCHANGED <<live, saved, aside>>
Matches == \A r \in Roots : live[r] = saved[r]

_quarantine_live_roots(r) ==
    /\ r \notin aside /\ live[r] # Gone
    /\ aside' = aside \cup {r}
    /\ live' = [live EXCEPT ![r] = Gone]
    /\ UNCHANGED <<saved, journal>>

_restore_live_roots(r) ==
    /\ live[r] # saved[r]
    /\ live' = [live EXCEPT ![r] = saved[r]]
    /\ UNCHANGED <<saved, aside, journal>>

(* One durable step at a time, each repeated after a death; with a complete
   journal the live roots have to be exactly the checkpoint. *)
restore_update_checkpoint ==
    /\ At("rb_restore")
    /\ \/ /\ journal = "none" /\ Journal("prepared")
          /\ UNCHANGED <<root, held>>
       \/ /\ journal = "prepared"
          /\ \/ \E r \in Roots : _quarantine_live_roots(r)
             \/ aside = Roots /\ Journal("quarantined")
          /\ UNCHANGED <<root, held>>
       \/ /\ journal = "quarantined"
          /\ \/ \E r \in Roots : _restore_live_roots(r)
             \/ Matches /\ Journal("restored")
          /\ UNCHANGED <<root, held>>
       \/ /\ journal = "restored" /\ Matches /\ Journal("verified")
          /\ UNCHANGED <<root, held>>
       \/ /\ journal = "verified" /\ Matches /\ Journal("complete")
          /\ UNCHANGED <<root, held>>
       \/ /\ journal = "complete"
          /\ Goto(IF Matches THEN "rb_switch" ELSE "rb_failed")
          /\ held' = op /\ UNCHANGED dataVars
    /\ UNCHANGED <<current, op, wanted, srv, ask, accepted, astray, countVars>>

RollbackSwitch ==
    /\ At("rb_switch")
    /\ current' = op.base
    /\ Goto("rb_advance")
    /\ UNCHANGED <<op, held, wanted, srv, ask>> /\ Untouched

OldReleaseStarting ==
    Marks("rb_advance", {"rollback_restoring", "repair_required"}, "old_release_starting", "rb_check")

RollbackCheck ==
    /\ At("rb_check")
    /\ Goto(IF /\ current = op.base
               /\ op.state \in {"old_release_starting", "old_release_verified"}
              THEN "rb_start" ELSE "rb_failed")
    /\ UNCHANGED <<current, op, held, wanted, srv, ask>> /\ Untouched

RollbackFailed ==
    /\ At("rb_failed")
    /\ IF op.state \in {"old_release_reopening", "rolled_back"}
         THEN /\ op' = [op EXCEPT !.bad = TRUE] /\ Goto("rp_check")
              /\ UNCHANGED <<wanted, srv, ask>>
         ELSE /\ op' = IF "repair_required" \in _ALLOWED_TRANSITIONS[op.state]
                         THEN [op EXCEPT !.state = "repair_required"] ELSE op
              /\ Goto("idle") /\ Stopped
    /\ held' = op'
    /\ UNCHANGED current /\ Untouched

-----------------------------------------------------------------------------
(* repair_selected_release: start the chosen release without a fence. *)

RepairCheck ==
    /\ At("rp_check")
    /\ Goto(IF current = Chosen(op) THEN "rp_stop" ELSE "idle") /\ held' = op
    /\ UNCHANGED <<current, op, wanted, srv, ask>> /\ Untouched

RepairMark ==
    /\ At("rp_mark")
    /\ op' = [op EXCEPT !.state = Decided(op), !.bad = TRUE]
    /\ held' = op' /\ Goto("rp_start")
    /\ UNCHANGED <<current, wanted, srv, ask>> /\ Untouched

RepairProbe ==
    /\ At("rp_probe") /\ Reachable(Chosen(op))
    /\ op' = [op EXCEPT !.bad = FALSE]
    /\ Goto("idle") /\ held' = op'
    /\ UNCHANGED <<current, wanted, srv, ask>> /\ Untouched

RepairFailed ==
    /\ At("rp_failed") /\ Stopped
    /\ op' = [op EXCEPT !.bad = TRUE]
    /\ Goto("idle") /\ held' = op'
    /\ UNCHANGED current /\ Untouched

(* A recovery without a route, or that failed: the service is kept stopped. *)
Halt ==
    /\ At("halt") /\ Stopped
    /\ Goto("idle")
    /\ UNCHANGED <<current, op, held>> /\ Untouched

-----------------------------------------------------------------------------
(* Deaths.  systemd restarts a process that died while the unit is started,
   and the enabled unit comes up with the machine. *)

Crash == crashes < MaxCrashes /\ crashes' = crashes + 1

ProcessDies ==
    /\ srv # NoServer /\ Crash
    /\ srv' = NoServer /\ ask' = NoAsk
    /\ UNCHANGED <<current, op, cmdVars, wanted, dataVars, accepted, astray, faults>>

CommandDies ==
    /\ root # "idle" /\ Crash
    /\ Goto("idle")
    /\ UNCHANGED <<current, op, held, wanted, srv, ask, dataVars, accepted, astray, faults>>

MachineReboots ==
    /\ Crash
    /\ Goto("idle") /\ wanted' = TRUE
    /\ srv' = NoServer /\ ask' = NoAsk
    /\ UNCHANGED <<current, op, held, dataVars, accepted, astray, faults>>

-----------------------------------------------------------------------------
Process == StartProcess \/ start_deferred_runtime \/ FinishMutation \/ Launch
Control == \/ enter_maintenance \/ verify_running_release \/ release_fence
           \/ abort_before_switch \/ AlreadyDone \/ AnswerDropped
Cutover == \/ Command \/ SendAsk \/ Receives \/ final_rehearsal \/ create_checkpoint
           \/ stop_service \/ start_service \/ switch_current \/ candidate_starting
           \/ ResumeSwitched \/ settle \/ AbortFailed
           \/ BeginRollback \/ restore_update_checkpoint \/ RollbackSwitch
           \/ OldReleaseStarting \/ RollbackCheck \/ RollbackFailed
           \/ RepairCheck \/ RepairMark \/ RepairProbe \/ RepairFailed \/ Halt
Failures == Refuse \/ ReleaseTimesOut \/ AbortFails \/ StepFails
Deaths == ProcessDies \/ CommandDies \/ MachineReboots

Next == Process \/ mutation \/ Control \/ Cutover \/ Failures \/ Deaths

(* The process and its handlers run, systemd keeps the unit up, a refusal is
   returned, and the operator reruns an update that has not finished. *)
Fairness ==
    /\ WF_vars(Process) /\ WF_vars(Control) /\ WF_vars(Refuse /\ UNCHANGED faults)
    /\ WF_vars(Cutover /\ (Unfinished \/ root # "idle"))
    /\ WF_vars(StepFails /\ UNCHANGED faults)

Spec == Init /\ [][Next]_vars /\ Fairness

-----------------------------------------------------------------------------
TypeOK ==
    /\ current \in Releases
    /\ op \in [state : States, base : 0..MaxRelease, cand : Releases, ckpt : BOOLEAN, bad : BOOLEAN]
    /\ held \in [state : States, base : 0..MaxRelease, cand : Releases, ckpt : BOOLEAN, bad : BOOLEAN]
    /\ wanted \in BOOLEAN /\ astray \in BOOLEAN
    /\ srv.rel \in 0..MaxRelease /\ srv.fence \in {"none", "active", "open"}
    /\ srv.launch \in {"none", "passed", "running"}
    /\ DOMAIN live = Roots /\ DOMAIN saved = Roots /\ aside \subseteq Roots
    /\ journal \in {"none", "prepared", "quarantined", "restored", "verified", "complete"}
    /\ accepted \in 0..MaxWrites /\ faults \in 0..MaxFaults /\ crashes \in 0..MaxCrashes

(* No release ever runs over a store a newer one has migrated, or over roots
   of which some are set aside: whatever dies in a rollback, systemd and
   inspect_installed_replacement_startup do not bring a process up in the
   middle of it. *)
DataFitsRelease ==
    srv.rel # 0 => /\ live[DataRoot].fmt <= srv.rel
                   /\ \A r \in Roots : live[r] # Gone

(* From the capture until the release is chosen the roots hold exactly what the
   checkpoint would restore: no writer passed the closing gates and no effect
   passed the fence.  An abort that has opened the runtime and not recorded
   it is excepted. *)
CaptureStaysExact ==
    (op.state \in {"candidate_starting", "candidate_verified", "rollback_restoring",
                   "old_release_starting", "old_release_verified"} /\ ~astray)
      => \A r \in Roots : /\ saved[r].w = accepted
                          /\ live[r] # Gone => live[r].w = accepted

(* A change the runtime has acknowledged is in the live roots whenever no
   restore is under way, and in the checkpoint while it may be restored: neither a
   rollback nor its recovery drops it. *)
AcceptedWritesSurvive ==
    /\ TypeOK /\ CaptureStaysExact
    /\ (journal \in {"none", "complete"} /\ ~astray) => \A r \in Roots : live[r].w = accepted

(* The update implements ReleaseChoice: the trial begins with the switch and
   ends with the recorded decision, or with a receipt that waits for repair. *)
OnTrial == op.state \in {"candidate_starting", "candidate_verified", "rollback_restoring",
                         "old_release_starting", "old_release_verified"}
Choice == INSTANCE ReleaseChoice WITH
    chosen <- Chosen(op),
    pending <- IF OnTrial THEN op.cand ELSE 0,
    log <- accepted
ChoiceSpec == Choice!Spec

(* With the operator rerunning the command, every update ends, and unless the
   command has kept the service stopped the selected release takes changes
   again, whatever step failed and whoever died.  Excepted is a repair over a
   complete journal whose restored roots a process has already opened. *)
EveryUpdateEnds ==
    []<>(\/ /\ Terminal /\ ~op.bad
            /\ wanted => srv.adm /\ srv.rel = current
         \/ op.state = "repair_required" /\ journal = "complete" /\ ~Matches)

=============================================================================
