---------------------------- MODULE ServerRestore ----------------------------
(***************************************************************************)
(* The replacement restore of a team server: the root command that installs *)
(* an archived database on a fresh machine, rebuilds the checkouts, rebinds *)
(* and publishes the projects, has the old server's authority and the member *)
(* roster reviewed and then activates the replacement behind its fence.  The *)
(* command pauses for the operator, can die anywhere and is re-entered by   *)
(* running it again; a durable journal says how far it came.                *)
(*                                                                         *)
(* Source: server_ops/restore.py, server_ops/install.py (the unit),         *)
(* projects.py (rebinding), api/app.py (the replacement's own start).       *)
(***************************************************************************)
EXTENDS Integers, FiniteSets

CONSTANTS
    Archives,   \* archives an operator may name
    Projects,   \* captured projects
    Remote,     \* those whose state repository is on another machine
    Imported,   \* those with imported provider sources
    Members,    \* active members of the archived team
    MaxRuns,    \* runs of the command with arguments of any kind
    MaxFaults,  \* failed starts, calls and checkouts
    MaxCrashes

ASSUME RestoreAssumption ==
    /\ Remote \subseteq Projects /\ Imported \subseteq Projects
    /\ IsFiniteSet(Projects) /\ IsFiniteSet(Members) /\ Members # {} /\ Archives # {}
    /\ MaxRuns \in Nat /\ MaxFaults \in Nat /\ MaxCrashes \in Nat

VARIABLES
    journal,  \* the durable restore journal
    db,       \* the database in the data directory
    extra,    \* what else is in the data directory
    members,  \* active members according to the database
    checkout, \* state of each project's replacement checkout
    live,     \* projects whose archived bytes are in place
    command,  \* the step the command is at
    args,     \* what the operator passed to it
    seen,     \* the rosters displayed to the operator
    unit,     \* systemd: [started, enabled]
    srv,      \* the replacement process
    old,      \* the archived server can still act
    runs, faults, crashes

dataVars == <<db, extra, members>>
projVars == <<checkout, live>>
countVars == <<runs, faults, crashes>>
srVars == <<journal, dataVars, projVars, command, args, seen, unit, srv, old, countVars>>

Phases == <<"archive_verified", "sqlite_restored", "checkouts_recovering", "checkouts_ready",
            "projects_rebinding", "checkouts_reconstructed", "projects_publishing",
            "projects_published", "authority_reviewed", "member_roster_reviewed",
            "activation_ready", "complete">>
Rank(p) == CHOOSE i \in DOMAIN Phases : Phases[i] = p
_CANDIDATE_BYTE_EXACT_PHASES == {"sqlite_restored", "checkouts_recovering", "checkouts_ready"}

NoArchive == "none"
NoJournal == [phase |-> "none", archive |-> NoArchive, repo |-> [p \in Projects |-> "none"],
              bound |-> {}, published |-> {}, authority |-> FALSE, roster |-> {}]
Present == journal # NoJournal
Reached(p) == Present /\ Rank(journal.phase) >= Rank(p)

SRInit ==
    /\ journal = NoJournal
    /\ db = "none" /\ extra = {} /\ members = Members
    /\ checkout = [p \in Projects |-> "none"] /\ live = {}
    /\ command = "idle" /\ seen = {}
    /\ args = [archive |-> NoArchive, authority |-> FALSE, roster |-> {}, stale |-> {}]
    /\ unit = [started |-> FALSE, enabled |-> FALSE]
    /\ srv = "none" /\ old = TRUE
    /\ runs = 0 /\ faults = 0 /\ crashes = 0

At(step) == command = step
Goto(step) == command' = step
Fault == faults < MaxFaults /\ faults' = faults + 1
Phase(p) == journal' = [journal EXCEPT !.phase = p]
Machine == UNCHANGED <<dataVars, projVars, unit, srv>>
World == UNCHANGED <<args, seen, old, countVars>>

(* fence_stopped_disabled. *)
Fenced == unit' = [started |-> FALSE, enabled |-> FALSE] /\ srv' = "none"

-----------------------------------------------------------------------------
(* The operator. *)

(* _execute_restore, with what the operator confirms this time.  Whoever
   confirms the old server's exclusion has seen to it, and a roster is
   confirmed by the boundary of one that was displayed, now or before. *)
Command(archive, authority, roster, stale) ==
    /\ At("idle")
    /\ authority => ~old
    /\ roster # {} => roster \in seen
    /\ stale \subseteq members
    /\ args' = [archive |-> archive, authority |-> authority, roster |-> roster, stale |-> stale]
    /\ Goto("stage")
    /\ UNCHANGED <<journal, dataVars, projVars, seen, unit, srv, old, faults, crashes>>

Operator ==
    /\ runs < MaxRuns /\ runs' = runs + 1
    /\ \E a \in Archives, ok \in BOOLEAN, roster \in SUBSET Members, stale \in SUBSET Members :
          Cardinality(stale) <= 1 /\ Command(a, ok, roster, stale)

(* What a cooperative operator does next: the archive of the journal, the old
   server excluded when that is asked for, the roster as displayed. *)
Resume ==
    /\ ~unit.enabled /\ UNCHANGED runs
    /\ Command(IF Present THEN journal.archive ELSE CHOOSE a \in Archives : TRUE, ~old,
               IF members \in seen THEN members ELSE {}, {})

(* The unit is started by hand while the restore is unfinished. *)
StartByHand ==
    /\ Present /\ ~unit.started /\ runs < MaxRuns /\ runs' = runs + 1
    /\ unit' = [unit EXCEPT !.started = TRUE]
    /\ UNCHANGED <<journal, dataVars, projVars, command, args, seen, srv, old, faults, crashes>>

(* The operator destroys or fences the old server once asked to. *)
ExcludeOldServer ==
    /\ old /\ journal.phase = "projects_published"
    /\ old' = FALSE
    /\ UNCHANGED <<journal, dataVars, projVars, command, args, seen, unit, srv, countVars>>

-----------------------------------------------------------------------------
(* Steps of the command, each behind the admission lock of the machine. *)

(* stage_candidate: an unfinished restore is re-entered with its own archive. *)
stage_candidate ==
    /\ At("stage")
    /\ Goto(IF Present /\ journal.archive # args.archive THEN "idle" ELSE "journal")
    /\ UNCHANGED journal /\ Machine /\ World

(* _journal_candidate_locked: only an empty data directory is taken. *)
journal_candidate ==
    /\ At("journal")
    /\ IF ~Present /\ (db # "none" \/ extra # {})
         THEN Goto("idle") /\ UNCHANGED <<journal, unit, srv>>
         ELSE /\ Fenced
              /\ Goto(IF Present /\ journal.archive # args.archive THEN "idle" ELSE "install")
              /\ journal' = IF Present THEN journal
                            ELSE [NoJournal EXCEPT !.phase = "archive_verified",
                                                   !.archive = args.archive]
    /\ UNCHANGED <<dataVars, projVars>> /\ World

(* _require_restored_target: the database and nothing else. *)
Restored(exact) == db # "none" /\ extra = {} /\ (exact => db = journal.archive)

(* install_sqlite_candidate links the database first and then says so. *)
LinkDatabase ==
    /\ At("install") /\ journal.phase = "archive_verified" /\ db = "none" /\ extra = {}
    /\ db' = journal.archive
    /\ UNCHANGED <<journal, extra, members, projVars, command, unit, srv>> /\ World

(* Mutant: the database must stay byte-exact for ever. *)
install_sqlite_candidate_AlwaysExact ==
    /\ At("install")
    /\ journal.phase = "archive_verified" => db # "none" \/ extra # {}
    /\ IF Restored(TRUE)
         THEN /\ IF journal.phase = "archive_verified" THEN Phase("sqlite_restored")
                 ELSE UNCHANGED journal
              /\ Goto("verify")
         ELSE UNCHANGED journal /\ Goto("idle")
    /\ Machine /\ World

install_sqlite_candidate ==
    /\ At("install")
    /\ journal.phase = "archive_verified" => db # "none" \/ extra # {}
    /\ LET exact == journal.phase \in _CANDIDATE_BYTE_EXACT_PHASES \cup {"archive_verified"}
       IN  IF Restored(exact)
             THEN /\ IF journal.phase = "archive_verified" THEN Phase("sqlite_restored")
                     ELSE UNCHANGED journal
                  /\ Goto("verify")
             ELSE UNCHANGED journal /\ Goto("idle")
    /\ Machine /\ World

verify_offline_candidate ==
    /\ At("verify")
    /\ Fenced
    /\ Goto(IF Restored(journal.phase \in _CANDIDATE_BYTE_EXACT_PHASES) THEN "recover" ELSE "idle")
    /\ UNCHANGED <<journal, dataVars, projVars>> /\ World

(* recover_checkouts, one durable receipt at a time: a fresh key is begun,
   proven with GitHub, and the checkout rebuilt.  It pauses for the grant. *)
CheckoutProgress == [none |-> "key_started", key_started |-> "key_ready", key_ready |-> "checkout_ready"]

RecoverRepository(p) ==
    /\ At("recover") /\ journal.phase = "checkouts_recovering"
    /\ journal.repo[p] # "checkout_ready"
    /\ journal' = [journal EXCEPT !.repo[p] = CheckoutProgress[@]]
    /\ checkout' = [checkout EXCEPT ![p] = IF journal.repo[p] = "key_ready" THEN "clean" ELSE @]
    /\ UNCHANGED <<dataVars, live, command, unit, srv>> /\ World

(* The grant is missing, or a proof or a checkout fails. *)
RecoveryPauses ==
    /\ At("recover") /\ journal.phase = "checkouts_recovering"
    /\ \E p \in Projects : journal.repo[p] # "checkout_ready"
    /\ Fault /\ Goto("idle")
    /\ UNCHANGED <<journal, dataVars, projVars, args, seen, unit, srv, old, runs, crashes>>

recover_checkouts ==
    /\ At("recover")
    /\ \/ journal.phase = "sqlite_restored" /\ Phase("checkouts_recovering") /\ UNCHANGED command
       \/ /\ journal.phase = "checkouts_recovering"
          /\ \A p \in Projects : journal.repo[p] = "checkout_ready"
          /\ Phase("checkouts_ready") /\ UNCHANGED command
       \/ Reached("checkouts_ready") /\ Goto("rebind") /\ UNCHANGED journal
    /\ Machine /\ World

(* rebind_checkouts: the locator and the catalog row, then the receipt.  The
   locator of a remote project is a file of the data directory. *)
RebindProject(p) ==
    /\ At("rebind") /\ journal.phase = "projects_rebinding" /\ p \notin journal.bound
    /\ checkout[p] # "bound"
    /\ db' = "evolved"
    /\ extra' = IF p \in Remote THEN extra \cup {"locators"} ELSE extra
    /\ checkout' = [checkout EXCEPT ![p] = "bound"]
    /\ UNCHANGED <<journal, members, live, command, unit, srv>> /\ World

rebind_checkouts ==
    /\ At("rebind")
    /\ \/ journal.phase = "checkouts_ready" /\ Phase("projects_rebinding") /\ UNCHANGED command
       \/ \E p \in Projects \ journal.bound :
             /\ journal.phase = "projects_rebinding" /\ checkout[p] = "bound"
             /\ journal' = [journal EXCEPT !.bound = @ \cup {p}] /\ UNCHANGED command
       \/ /\ journal.phase = "projects_rebinding" /\ journal.bound = Projects
          /\ Phase("checkouts_reconstructed") /\ UNCHANGED command
       \/ Reached("checkouts_reconstructed") /\ Goto("publish") /\ UNCHANGED journal
    /\ Machine /\ World

(* publish_projects: the imported sources of all, then each project's bytes,
   verified, before its receipt. *)
PublishBytes(p) ==
    /\ At("publish") /\ journal.phase = "projects_publishing" /\ p \notin live
    /\ live' = live \cup {p}
    /\ extra' = IF Imported # {} THEN extra \cup {"sources"} ELSE extra
    /\ UNCHANGED <<journal, db, members, checkout, command, unit, srv>> /\ World

(* Mutant: the receipt is written before the bytes are in place. *)
publish_projects_ReceiptFirst ==
    /\ At("publish")
    /\ \/ journal.phase = "checkouts_reconstructed" /\ Phase("projects_publishing") /\ UNCHANGED command
       \/ \E p \in Projects \ journal.published :
             /\ journal.phase = "projects_publishing"
             /\ journal' = [journal EXCEPT !.published = @ \cup {p}] /\ UNCHANGED command
       \/ /\ journal.phase = "projects_publishing" /\ journal.published = Projects
          /\ Phase("projects_published") /\ UNCHANGED command
       \/ Reached("projects_published") /\ Goto("authority") /\ UNCHANGED journal
    /\ Machine /\ World

publish_projects ==
    /\ At("publish")
    /\ \/ journal.phase = "checkouts_reconstructed" /\ Phase("projects_publishing") /\ UNCHANGED command
       \/ \E p \in Projects \ journal.published :
             /\ journal.phase = "projects_publishing" /\ p \in live
             /\ journal' = [journal EXCEPT !.published = @ \cup {p}] /\ UNCHANGED command
       \/ /\ journal.phase = "projects_publishing" /\ journal.published = Projects
          /\ Phase("projects_published") /\ UNCHANGED command
       \/ Reached("projects_published") /\ Goto("authority") /\ UNCHANGED journal
    /\ Machine /\ World

(* Mutant: the review is recorded whether or not the operator confirmed it. *)
review_old_authority_Unasked ==
    /\ At("authority")
    /\ \/ journal.authority /\ Goto("roster") /\ UNCHANGED journal
       \/ ~journal.authority /\ Goto("roster")
          /\ journal' = [journal EXCEPT !.phase = "authority_reviewed", !.authority = TRUE]
    /\ Machine /\ World

(* review_old_authority: recorded once, on the operator's confirmation. *)
review_old_authority ==
    /\ At("authority")
    /\ \/ journal.authority /\ Goto("roster") /\ UNCHANGED journal
       \/ ~journal.authority /\ ~args.authority /\ Goto("idle") /\ UNCHANGED journal
       \/ /\ ~journal.authority /\ args.authority /\ Goto("roster")
          /\ journal' = [journal EXCEPT !.phase = "authority_reviewed", !.authority = TRUE]
    /\ Machine /\ World

(* review_member_roster: a known-stale member is removed offline, the roster
   displayed, and only the displayed roster recorded.  The last member who can
   authenticate cannot be removed. *)
review_member_roster ==
    /\ At("roster")
    /\ \/ journal.roster # {} /\ Goto("prepare") /\ UNCHANGED <<journal, members, seen>>
       \/ /\ journal.roster = {} /\ members \ args.stale # {}
          /\ members' = members \ args.stale
          /\ args.roster = {} \/ args.stale # {}
          /\ seen' = seen \cup {members'}
          /\ Goto("idle") /\ UNCHANGED journal
       \/ /\ journal.roster = {} /\ members \ args.stale = {}
          /\ Goto("idle") /\ UNCHANGED <<journal, members, seen>>
       \/ /\ journal.roster = {} /\ args.stale = {} /\ args.roster # {}
          /\ args.roster # members
          /\ Goto("idle") /\ UNCHANGED <<journal, members, seen>>
       \/ /\ journal.roster = {} /\ args.stale = {} /\ args.roster = members /\ members # {}
          /\ journal' = [journal EXCEPT !.phase = "member_roster_reviewed", !.roster = members]
          /\ Goto("prepare") /\ UNCHANGED <<members, seen>>
    /\ UNCHANGED <<db, extra, projVars, unit, srv, args, old, countVars>>

prepare_activation ==
    /\ At("prepare")
    /\ \/ Reached("activation_ready") /\ Goto("activate") /\ UNCHANGED <<journal, unit, srv>>
       \/ /\ journal.phase = "member_roster_reviewed" /\ journal.roster = members
          /\ Fenced /\ Phase("activation_ready") /\ Goto("activate")
       \/ /\ journal.phase = "member_roster_reviewed" /\ journal.roster # members
          /\ Goto("idle") /\ UNCHANGED <<journal, unit, srv>>
    /\ UNCHANGED <<dataVars, projVars>> /\ World

(* activate_replacement: start the disabled unit, ask the process to commit,
   enable it; whatever fails stops and disables it again. *)
activate_replacement ==
    /\ \/ /\ At("activate") /\ journal.phase = "complete"
          /\ unit' = [started |-> TRUE, enabled |-> TRUE] /\ Goto("idle") /\ UNCHANGED srv
       \/ /\ At("activate") /\ journal.phase = "activation_ready"
          /\ unit' = [unit EXCEPT !.started = TRUE] /\ Goto("commit") /\ UNCHANGED srv
       \/ /\ At("committed")
          /\ unit' = [unit EXCEPT !.enabled = TRUE] /\ Goto("idle") /\ UNCHANGED srv
       \/ At("undo") /\ Fenced /\ Goto("idle")
    /\ UNCHANGED <<journal, dataVars, projVars>> /\ World

(* The endpoint does not come up, the call times out, an enable is refused. *)
UndoActivation ==
    /\ command \in {"commit", "committed"} /\ Goto("undo")
    /\ UNCHANGED <<journal, dataVars, projVars, args, seen, unit, srv, old, runs, crashes>>

ActivationFails == Fault /\ UndoActivation

(* The process it waits for is gone. *)
ReplacementGone == srv = "none" /\ ~unit.started /\ UndoActivation /\ UNCHANGED faults

-----------------------------------------------------------------------------
(* The replacement process. *)

(* Mutant: a start does not look at the restore journal. *)
MayStart_Unchecked == TRUE

(* inspect_installed_replacement_startup and unfinished_restore_operation. *)
MayStart == ~Present \/ journal.phase \in {"activation_ready", "complete"}

(* A process leaves its own files in the data directory; an unfinished restore
   keeps it behind the fence. *)
StartReplacement ==
    /\ unit.started /\ srv = "none" /\ MayStart
    /\ srv' = IF journal.phase = "activation_ready" THEN "fenced" ELSE "open"
    /\ extra' = extra \cup {"runtime"}
    /\ UNCHANGED <<journal, db, members, projVars, command, args, seen, unit, old, countVars>>

(* commit_restore_activation: complete is durable before the fence opens, and
   is taken back when the runtime does not start. *)
CommitActivation ==
    /\ \/ /\ At("commit") /\ srv = "fenced" /\ journal.phase = "activation_ready"
          /\ Phase("complete") /\ srv' = "opening"
       \/ srv = "opening" /\ srv' = "open" /\ UNCHANGED journal
    /\ UNCHANGED <<dataVars, projVars, command, unit>> /\ World

ActivationAnswered ==
    /\ At("commit") /\ srv = "open" /\ journal.phase = "complete"
    /\ Goto("committed")
    /\ UNCHANGED journal /\ Machine /\ World

RuntimeStartFails ==
    /\ srv = "opening" /\ Fault
    /\ Phase("activation_ready") /\ srv' = "failed"
    /\ UNCHANGED <<dataVars, projVars, command, args, seen, unit, old, runs, crashes>>

(* stop_uncommitted_restore_after_timeout: a clean exit, which systemd does not
   restart. *)
UncommittedStops ==
    /\ srv \in {"fenced", "opening", "failed"}
    /\ srv = "opening" => faults < MaxFaults
    /\ faults' = IF srv = "opening" THEN faults + 1 ELSE faults
    /\ srv' = "none" /\ unit' = [unit EXCEPT !.started = FALSE]
    /\ UNCHANGED <<journal, dataVars, projVars, command, args, seen, old, runs, crashes>>

Crash == crashes < MaxCrashes /\ crashes' = crashes + 1

CommandDies ==
    /\ ~At("idle") /\ Crash /\ Goto("idle")
    /\ UNCHANGED <<journal, dataVars, projVars, args, seen, unit, srv, old, runs, faults>>

(* An enabled unit comes up with the machine, a disabled one does not. *)
MachineReboots ==
    /\ Crash /\ Goto("idle")
    /\ srv' = "none" /\ unit' = [unit EXCEPT !.started = unit.enabled]
    /\ UNCHANGED <<journal, dataVars, projVars, args, seen, old, runs, faults>>

-----------------------------------------------------------------------------
Steps ==
    \/ stage_candidate \/ journal_candidate \/ LinkDatabase \/ install_sqlite_candidate
    \/ verify_offline_candidate \/ recover_checkouts \/ rebind_checkouts \/ publish_projects
    \/ (\E p \in Projects : RecoverRepository(p) \/ RebindProject(p) \/ PublishBytes(p))
    \/ review_old_authority \/ review_member_roster \/ prepare_activation \/ activate_replacement
    \/ ActivationAnswered

Process == StartReplacement \/ CommitActivation

SRNext ==
    \/ Steps \/ Process \/ Operator \/ Resume \/ StartByHand \/ ExcludeOldServer
    \/ RecoveryPauses \/ ActivationFails \/ ReplacementGone \/ RuntimeStartFails
    \/ UncommittedStops \/ CommandDies \/ MachineReboots

(* The command and the process run on, a start that was refused is noticed,
   and the operator excludes the old server and re-enters the command. *)
Fairness ==
    /\ WF_srVars(Steps) /\ WF_srVars(Process)
    /\ WF_srVars(ReplacementGone)
    /\ WF_srVars(srv = "failed" /\ UncommittedStops)
    /\ WF_srVars(ExcludeOldServer)
    /\ SF_srVars(Resume)

SRSpec == SRInit /\ [][SRNext]_srVars /\ Fairness

-----------------------------------------------------------------------------
Acts == srv \in {"opening", "open", "failed"}

SRTypeOK ==
    /\ journal.phase \in {"none"} \cup {Phases[i] : i \in DOMAIN Phases}
    /\ journal.bound \subseteq Projects /\ journal.published \subseteq Projects
    /\ journal.roster \subseteq Members /\ members \subseteq Members
    /\ db \in {"none", "evolved"} \cup Archives
    /\ extra \subseteq {"locators", "sources", "runtime"}
    /\ srv \in {"none", "fenced", "opening", "open", "failed"}
    /\ checkout \in [Projects -> {"none", "clean", "bound"}] /\ live \subseteq Projects

(* The replacement has effects only when the old server is excluded and every
   member it will authenticate was on the roster the operator confirmed, which was
   displayed in exactly that form and not changed by a later removal; and a stopped
   machine never brings an unreviewed replacement up by itself. *)
OneAuthority ==
    /\ SRTypeOK
    /\ Acts => ~old /\ journal.authority /\ members = journal.roster /\ members # {}
    /\ journal.roster # {} => journal.roster \in seen
    /\ unit.enabled => journal.phase = "complete"

(* A receipt in the journal vouches for work that is done, at any point a death
   can leave it at. *)
ReceiptsVouch ==
    /\ \A p \in Projects : journal.repo[p] = "checkout_ready" => checkout[p] # "none"
    /\ \A p \in journal.bound : checkout[p] = "bound"
    /\ journal.published \subseteq live
    /\ Reached("sqlite_restored") => db # "none"

(* What acts is the whole archive: the database came from the archive of the
   journal and every captured project is bound and has its bytes; and no death leaves a
   receipt ahead of them, by which a later entry would skip what was not restored. *)
NothingPartialServes ==
    /\ ReceiptsVouch
    /\ Acts => /\ db = "evolved" \/ db = journal.archive
               /\ live = Projects /\ \A p \in Projects : checkout[p] = "bound"

(* With an operator who re-enters it the restore completes and the unit is
   enabled, unless files beside the database are in its way. *)
RestoreCompletes == <>(unit.enabled \/ extra # {})

=============================================================================
