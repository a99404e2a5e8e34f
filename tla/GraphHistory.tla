---------------------------- MODULE GraphHistory ----------------------------
(***************************************************************************)
(* The canonical history of a project kept in a remote repository: servers *)
(* with a local mirror each, an advisory lock whose holder is a process on *)
(* the remote machine, staging by rsync, application of the staged files   *)
(* by the lock holder, and the reconciliation of a publication whose       *)
(* outcome was not seen.                                                   *)
(*                                                                         *)
(* Source: history/manager.py (HistoryManager), transport/state.py         *)
(* (SSHStateWorkspace), transport/remote_lock_holder.py.                   *)
(***************************************************************************)
EXTENDS CanonicalLog

CONSTANTS
    Claimers,    \* the spaces that adopt an unclaimed project
    MaxFaults,   \* failed or lost channels, dead lock holders
    MaxCrashes   \* deaths of a server process

ASSUME HistoryAssumption ==
    /\ Claimers \subseteq Spaces
    /\ MaxFaults \in Nat /\ MaxCrashes \in Nat

VARIABLES
    derived,  \* the history the published graph.json and its like were written from
    stage,    \* .publish/patch-<revision>: the staged patch and derived files
    lock,     \* the space whose holder process has the flock, Nobody
    conn,     \* the channel between that holder and its server is open
    step,     \* where the holder is with the command it was sent
    target,   \* the revision that command is to commit
    pc,       \* where each server's transaction is
    want,     \* what it was asked to do
    own,      \* the patch it has written to its mirror
    mirror,   \* its local copy of the log
    synced,   \* its process has copied the remote tree at least once
    repair,   \* materialization_repair_required
    told,     \* what the caller of each append has learned
    made, faults, crashes

remoteVars == <<log, derived, stage>>
holderVars == <<lock, conn, step, target>>
serverVars == <<pc, want, own, mirror, synced, repair>>
countVars == <<told, made, faults, crashes>>
vars == <<remoteVars, holderVars, serverVars, countVars>>

Nothing == [patch |-> NoPatch, files |-> NoPatch]
Kinds == {"claim", "edit", "transfer", "repair"}
Idle == [kind |-> "repair", to |-> Nobody, base |-> 0]

Init ==
    /\ LogInit
    /\ derived = Origin
    /\ stage = [r \in Revisions |-> Nothing]
    /\ lock = Nobody /\ conn = FALSE /\ step = "none" /\ target = 0
    /\ pc = [s \in Spaces |-> "idle"]
    /\ want = [s \in Spaces |-> Idle]
    /\ own = [s \in Spaces |-> NoPatch]
    /\ mirror = [s \in Spaces |-> Origin]
    /\ synced = [s \in Spaces |-> TRUE]
    /\ repair = [s \in Spaces |-> FALSE]
    /\ told = [i \in 1..MaxAppends |-> "nothing"]
    /\ made = 0 /\ faults = 0 /\ crashes = 0

(* The holder of s has the lock and s can talk to it. *)
Owned(s) == lock = s /\ conn

Goes(s, from, to) == pc[s] = from /\ pc' = [pc EXCEPT ![s] = to]

Fault == faults < MaxFaults /\ faults' = faults + 1

Revision(s) == LastRevision(mirror[s])

(* The end of a transaction closes the channel of a holder still owned. *)
Release(s) ==
    IF Owned(s) THEN lock' = Nobody /\ conn' = FALSE /\ step' = "none" /\ target' = 0
                ELSE UNCHANGED holderVars

Ends(s) ==
    /\ pc' = [pc EXCEPT ![s] = "idle"]
    /\ want' = [want EXCEPT ![s] = Idle]

-----------------------------------------------------------------------------
(* transaction: lock, copy, check. *)

(* A caller asks for a change to the state it last read here. *)
Begin(s, kind, to) ==
    /\ Goes(s, "idle", "locking")
    /\ CASE kind = "repair" -> repair[s] /\ to = s
         [] kind = "claim" -> s \in Claimers /\ to = s
         [] kind = "edit" -> to = s
         [] kind = "transfer" -> to # s
    /\ want' = [want EXCEPT ![s] = [kind |-> kind, to |-> to, base |-> Revision(s)]]
    /\ UNCHANGED <<remoteVars, holderVars, own, mirror, synced, repair, countVars>>

_remote_advisory_lock(s) ==
    /\ Goes(s, "locking", "syncing")
    /\ lock = Nobody
    /\ lock' = s /\ conn' = TRUE
    /\ UNCHANGED <<remoteVars, step, target, want, own, mirror, synced, repair, countVars>>

_sync_remote_tree(s) ==
    /\ Goes(s, "syncing", "checking")
    /\ mirror' = [mirror EXCEPT ![s] = log]
    /\ synced' = [synced EXCEPT ![s] = TRUE]
    /\ UNCHANGED <<remoteVars, holderVars, want, own, repair, countVars>>

(* The lock, the copy or an assert_owned after it fails: nothing is written. *)
TransactionFails(s) ==
    /\ pc[s] \in {"locking", "syncing", "checking"}
    /\ Ends(s)
    /\ IF pc[s] # "locking" /\ ~Owned(s) THEN UNCHANGED faults
                                         ELSE pc[s] # "checking" /\ Fault
    /\ Release(s)
    /\ UNCHANGED <<remoteVars, own, mirror, synced, repair, told, made, crashes>>

(* A stranger to the project, a caller whose graph has moved and a second
   claim end here. *)
Refused(s) ==
    /\ pc[s] = "checking"
    /\ \/ ~Writable(mirror[s], want[s].kind, s)
       \/ want[s].kind = "edit" /\ ~repair[s] /\ want[s].base # Revision(s)
    /\ Ends(s) /\ Release(s)
    /\ UNCHANGED <<remoteVars, own, mirror, synced, repair, countVars>>

(* The derived files are published again before anything else is written;
   the answer to a publication that was applied can still be lost. *)
_repair_materializations_locked(s) ==
    /\ pc[s] = "checking"
    /\ Writable(mirror[s], want[s].kind, s)
    /\ repair[s]
    /\ Owned(s)
    /\ derived' = mirror[s]
    /\ \/ /\ repair' = [repair EXCEPT ![s] = FALSE]
          /\ IF want[s].kind = "repair"
               THEN Ends(s) /\ Release(s)
               ELSE UNCHANGED <<pc, want, holderVars>>
          /\ UNCHANGED faults
       \/ /\ Fault
          /\ Ends(s)
          /\ conn' = FALSE
          /\ UNCHANGED <<repair, lock, step, target>>
    /\ UNCHANGED <<log, stage, own, mirror, synced, told, made, crashes>>

-----------------------------------------------------------------------------
(* append: write to the mirror, stage, have the holder commit. *)

(* Mutant: expected_revision is not compared under the lock. *)
_append_locked_AnyRevision(s) ==
    /\ Goes(s, "checking", "staging")
    /\ want[s].kind # "repair"
    /\ Writable(mirror[s], want[s].kind, s)
    /\ ~repair[s]
    /\ made < MaxAppends /\ Revision(s) < MaxRevision
    /\ made' = made + 1
    /\ LET p == [id |-> made + 1, kind |-> want[s].kind, by |-> s, home |-> want[s].to,
                 base |-> IF want[s].kind = "edit" THEN want[s].base ELSE Revision(s)]
       IN /\ own' = [own EXCEPT ![s] = p]
          /\ mirror' = [mirror EXCEPT ![s][Revision(s) + 1] = p]
    /\ UNCHANGED <<remoteVars, holderVars, want, synced, repair, told, faults, crashes>>

(* _append_locked admits the patch against the mirror and writes it there. *)
_append_locked(s) ==
    /\ Goes(s, "checking", "staging")
    /\ want[s].kind # "repair"
    /\ Writable(mirror[s], want[s].kind, s)
    /\ ~repair[s]
    /\ want[s].kind = "edit" => want[s].base = Revision(s)
    /\ made < MaxAppends /\ Revision(s) < MaxRevision
    /\ made' = made + 1
    /\ LET p == [id |-> made + 1, kind |-> want[s].kind, by |-> s,
                 home |-> want[s].to,
                 base |-> IF want[s].kind = "edit" THEN want[s].base ELSE Revision(s)]
       IN /\ own' = [own EXCEPT ![s] = p]
          /\ mirror' = [mirror EXCEPT ![s][Revision(s) + 1] = p]
    /\ UNCHANGED <<remoteVars, holderVars, want, synced, repair, told, faults, crashes>>

(* _reconcile_remote_publish_failure: the caller of append learns answer. *)
Tell(s, answer) ==
    /\ told' = [told EXCEPT ![own[s].id] = answer]
    /\ own' = [own EXCEPT ![s] = NoPatch]
    /\ Ends(s)

(* Mutant: a patch of unknown fate stays in the mirror. *)
Reconcile_KeepsUnknown(s, status) ==
    /\ repair' = [repair EXCEPT ![s] = @ \/ status # "absent"]
    /\ mirror' = IF status # "absent" THEN mirror
                 ELSE [mirror EXCEPT ![s][Revision(s)] = NoPatch]

(* Present: the derived files may be behind.  Absent: the copy in the mirror
   is removed.  Unknown: it is put aside, and the files may be behind. *)
Reconcile(s, status) ==
    /\ repair' = [repair EXCEPT ![s] = @ \/ status # "absent"]
    /\ mirror' = IF status = "present" THEN mirror
                 ELSE [mirror EXCEPT ![s][Revision(s)] = NoPatch]

(* mkdir and rsync over their own connections, without the lock holder. *)
StagePatch(s) ==
    /\ Goes(s, "staging", "sending")
    /\ stage' = [stage EXCEPT ![Revision(s)] = [patch |-> own[s], files |-> mirror[s]]]
    /\ UNCHANGED <<log, derived, holderVars, want, own, mirror, synced, repair, countVars>>

(* A failed rsync may have copied the patch already; one that times out is
   not classified. *)
StagingFails(s) ==
    /\ pc[s] = "staging"
    /\ Fault
    /\ stage' \in {stage,
                   [stage EXCEPT ![Revision(s)] = [patch |-> own[s], files |-> mirror[s]]]}
    /\ \E status \in {"absent", "unknown"} : Tell(s, status) /\ Reconcile(s, status)
    /\ Release(s)
    /\ UNCHANGED <<log, derived, synced, made, crashes>>

(* _publication_lock finds the lease lost before it stages. *)
PublicationRefused(s) ==
    /\ pc[s] = "staging"
    /\ ~Owned(s)
    /\ Tell(s, "unknown") /\ Reconcile(s, "unknown")
    /\ UNCHANGED <<remoteVars, holderVars, synced, made, faults, crashes>>

(* The command reaches the holder only over an open channel. *)
_run_owned_command(s) ==
    /\ pc[s] = "sending"
    /\ IF Owned(s)
         THEN /\ pc' = [pc EXCEPT ![s] = "waiting"]
              /\ step' = "apply" /\ target' = Revision(s)
         ELSE /\ pc' = [pc EXCEPT ![s] = "lost"]
              /\ UNCHANGED <<step, target>>
    /\ UNCHANGED <<remoteVars, lock, conn, want, own, mirror, synced, repair, countVars>>

(* apply_staged, first half: the patch file, which is never replaced. *)
ApplyCommit ==
    /\ lock # Nobody
    /\ step = "apply"
    /\ LET staged == stage[target].patch
           moves == log[target] = NoPatch /\ staged # NoPatch
           agrees == log[target] # NoPatch /\ staged \in {NoPatch, log[target]}
       IN /\ log' = IF moves THEN [log EXCEPT ![target] = staged] ELSE log
          /\ stage' = IF moves \/ agrees THEN [stage EXCEPT ![target].patch = NoPatch] ELSE stage
          /\ step' = IF moves \/ agrees THEN "files"
                     ELSE IF log[target] # NoPatch THEN "present" ELSE "absent"
    /\ UNCHANGED <<derived, lock, conn, target, serverVars, countVars>>

(* Second half: the derived files, then the stage is removed. *)
ApplyFiles ==
    /\ lock # Nobody
    /\ step = "files"
    /\ derived' = IF stage[target].files = NoPatch THEN derived ELSE stage[target].files
    /\ stage' = [stage EXCEPT ![target] = Nothing]
    /\ step' = "ok"
    /\ UNCHANGED <<log, lock, conn, target, serverVars, countVars>>

ApplyFails ==
    /\ lock # Nobody
    /\ step \in {"apply", "files"}
    /\ Fault
    /\ step' = IF log[target] # NoPatch THEN "present" ELSE "absent"
    /\ UNCHANGED <<remoteVars, lock, conn, target, serverVars, told, made, crashes>>

(* The holder's answer arrives; a commit without its files is sent again. *)
Answered(s) ==
    /\ pc[s] = "waiting"
    /\ Owned(s)
    /\ \/ /\ step = "ok"
          /\ pc' = [pc EXCEPT ![s] = "leaving"]
          /\ step' = "none"
          /\ UNCHANGED <<lock, conn, target, told, want, own, mirror, repair>>
       \/ /\ step = "present"
          /\ step' = "apply"
          /\ UNCHANGED <<pc, lock, conn, target, told, want, own, mirror, repair>>
       \/ /\ step = "present"
          /\ pc' = [pc EXCEPT ![s] = "leaving"]
          /\ step' = "none"
          /\ Reconcile(s, "present")
          /\ UNCHANGED <<lock, conn, target, told, want, own>>
       \/ /\ step = "absent"
          /\ Tell(s, "absent") /\ Reconcile(s, "absent")
          /\ Release(s)
    /\ UNCHANGED <<remoteVars, synced, made, faults, crashes>>

(* The assert_owned at the end of the transaction; a lost channel is noticed
   late, if at all, and then even a committed append raises. *)
LeaveTransaction(s) ==
    /\ pc[s] = "leaving"
    /\ \/ Tell(s, "success")
       \/ ~Owned(s) /\ Tell(s, "raised")
    /\ Release(s)
    /\ UNCHANGED <<remoteVars, mirror, synced, repair, made, faults, crashes>>

-----------------------------------------------------------------------------
(* _raise_reconciled_commit_failure. *)

(* No answer in time, or the channel closes: the lease is lost. *)
CommandLost(s) ==
    /\ Goes(s, "waiting", "lost")
    /\ IF Owned(s) THEN Fault /\ conn' = FALSE ELSE UNCHANGED <<faults, conn>>
    /\ UNCHANGED <<remoteVars, lock, step, target, want, own, mirror, synced, repair, told, made, crashes>>

(* A patch file that is seen settles it, although append then raises. *)
ProbeOutsideLock(s) ==
    /\ pc[s] = "lost"
    /\ \/ /\ log[Revision(s)] # NoPatch
          /\ Tell(s, "raised") /\ Reconcile(s, "present")
          /\ UNCHANGED faults
       \/ /\ IF log[Revision(s)] = NoPatch THEN UNCHANGED faults ELSE Fault
          /\ pc' = [pc EXCEPT ![s] = "relocking"]
          /\ UNCHANGED <<told, want, own, mirror, repair>>
    /\ UNCHANGED <<remoteVars, holderVars, synced, made, crashes>>

(* Mutant: absence is believed while an old holder may still commit. *)
ProbeUnderLock_NotHeld(s) ==
    /\ pc[s] = "relocking"
    /\ IF log[Revision(s)] # NoPatch
         THEN Tell(s, "raised") /\ Reconcile(s, "present")
         ELSE Tell(s, "absent") /\ Reconcile(s, "absent")
    /\ UNCHANGED <<remoteVars, holderVars, synced, made, faults, crashes>>

(* Absence is believed only under the lock, which an old holder still keeps. *)
ProbeUnderLock(s) ==
    /\ pc[s] = "relocking"
    /\ lock = Nobody
    /\ IF log[Revision(s)] # NoPatch
         THEN Tell(s, "raised") /\ Reconcile(s, "present")
         ELSE Tell(s, "absent") /\ Reconcile(s, "absent")
    /\ UNCHANGED <<remoteVars, holderVars, synced, made, faults, crashes>>

(* The lock or the probe is not had before the deadline. *)
ProbeGivenUp(s) ==
    /\ pc[s] = "relocking"
    /\ Tell(s, "unknown") /\ Reconcile(s, "unknown")
    /\ UNCHANGED <<remoteVars, holderVars, synced, made, faults, crashes>>

-----------------------------------------------------------------------------
(* Channels, holders, processes. *)

Disconnect ==
    /\ lock # Nobody /\ conn
    /\ Fault
    /\ conn' = FALSE
    /\ UNCHANGED <<remoteVars, lock, step, target, serverVars, told, made, crashes>>

(* The holder is killed where it stands, or reads the end of its input. *)
HolderDies ==
    /\ lock # Nobody
    /\ IF conn THEN Fault ELSE UNCHANGED faults
    /\ lock' = Nobody /\ conn' = FALSE /\ step' = "none" /\ target' = 0
    /\ UNCHANGED <<remoteVars, serverVars, told, made, crashes>>

(* The server dies; what it wrote to its mirror stays there. *)
ProcessDies(s) ==
    /\ crashes < MaxCrashes
    /\ crashes' = crashes + 1
    /\ Ends(s)
    /\ own' = [own EXCEPT ![s] = NoPatch]
    /\ synced' = [synced EXCEPT ![s] = FALSE]
    /\ repair' = [repair EXCEPT ![s] = FALSE]
    /\ conn' = (conn /\ lock # s)
    /\ UNCHANGED <<remoteVars, lock, step, target, mirror, told, made, faults>>

(* A server that reaches the repository when it starts copies it, and owes
   the publication of derived files that do not match. *)
initialize(s) ==
    /\ pc[s] = "idle" /\ ~synced[s]
    /\ lock = Nobody
    /\ mirror' = [mirror EXCEPT ![s] = log]
    /\ synced' = [synced EXCEPT ![s] = TRUE]
    /\ repair' = [repair EXCEPT ![s] = derived # log /\ HomeOf(log) = s]
    /\ UNCHANGED <<remoteVars, holderVars, pc, want, own, countVars>>

refresh_if_stale(s) ==
    /\ pc[s] = "idle" /\ synced[s] /\ ~repair[s]
    /\ lock = Nobody
    /\ mirror[s] # log
    /\ mirror' = [mirror EXCEPT ![s] = log]
    /\ UNCHANGED <<remoteVars, holderVars, pc, want, own, synced, repair, countVars>>

Publishes(s) ==
    \/ StagePatch(s) \/ StagingFails(s) \/ PublicationRefused(s) \/ _run_owned_command(s)
    \/ Answered(s) \/ LeaveTransaction(s) \/ CommandLost(s)
    \/ ProbeOutsideLock(s) \/ ProbeUnderLock(s) \/ ProbeGivenUp(s)

Next ==
    \/ \E s \in Spaces :
          \/ \E k \in Kinds, to \in Spaces : Begin(s, k, to)
          \/ _remote_advisory_lock(s) \/ _sync_remote_tree(s) \/ TransactionFails(s)
          \/ Refused(s) \/ _repair_materializations_locked(s) \/ _append_locked(s)
          \/ Publishes(s)
          \/ ProcessDies(s) \/ initialize(s) \/ refresh_if_stale(s)
    \/ ApplyCommit \/ ApplyFiles \/ ApplyFails
    \/ Disconnect \/ HolderDies

Spec == Init /\ [][Next]_vars

-----------------------------------------------------------------------------
TypeOK ==
    /\ log \in Logs
    /\ derived \in Logs
    /\ stage \in [Revisions -> [patch : Patches \cup {NoPatch}, files : Logs \cup {NoPatch}]]
    /\ lock \in Spaces \cup {Nobody}
    /\ conn \in BOOLEAN
    /\ step \in {"none", "apply", "files", "ok", "present", "absent"}
    /\ lock = Nobody => step = "none"
    /\ target \in 0..MaxRevision
    /\ pc \in [Spaces -> {"idle", "locking", "syncing", "checking", "staging", "sending",
                          "waiting", "lost", "relocking", "leaving"}]
    /\ want \in [Spaces -> [kind : Kinds, to : Spaces \cup {Nobody}, base : 0..MaxRevision]]
    /\ own \in [Spaces -> Patches \cup {NoPatch}]
    /\ mirror \in [Spaces -> Logs]
    /\ synced \in [Spaces -> BOOLEAN]
    /\ repair \in [Spaces -> BOOLEAN]
    /\ told \in [1..MaxAppends -> {"nothing", "success", "absent", "unknown", "raised"}]
    /\ made \in 0..MaxAppends /\ faults \in 0..MaxFaults /\ crashes \in 0..MaxCrashes

InLog(i) == \E r \in Revisions : log[r] # NoPatch /\ log[r].id = i

(***************************************************************************)
(* append never lies: a patch it returned is in the canonical history, and *)
(* one it reported absent is not and never will be, whatever an orphaned   *)
(* lock holder or a half-filled stage still does.                          *)
(***************************************************************************)
ReportsAreTrue ==
    \A i \in 1..MaxAppends : /\ told[i] = "success" => InLog(i)
                             /\ told[i] = "absent" => ~InLog(i)

(***************************************************************************)
(* Between transactions a mirror replays committed patches only: what was  *)
(* written to it before publication failed has been removed or put aside.  *)
(***************************************************************************)
MirrorIsCommitted ==
    \A s \in Spaces : pc[s] = "idle" /\ synced[s] =>
        \A r \in Revisions : mirror[s][r] \in {NoPatch, log[r]}

(***************************************************************************)
(* While no process dies, a publication that left the derived files behind *)
(* the committed history is owed by some server once all are at rest.      *)
(***************************************************************************)
RepairIsRemembered ==
    crashes = 0 /\ lock = Nobody /\ (\A s \in Spaces : pc[s] = "idle") =>
        derived = log \/ \E s \in Spaces : repair[s]

(***************************************************************************)
(* What a server keeps of the history besides the log is sound: its mirror *)
(* at rest, and its memory of the files it still owes.                     *)
(***************************************************************************)
MirrorsAreSound == TypeOK /\ MirrorIsCommitted /\ RepairIsRemembered
=============================================================================
