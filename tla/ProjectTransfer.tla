--------------------------- MODULE ProjectTransfer ---------------------------
(***************************************************************************)
(* A project moves from a personal space to a team server.  Each space     *)
(* keeps a request of its own; receipts, the sealed archive and two proofs *)
(* are carried between them by a client that may deliver them late, twice  *)
(* or not at all.  The source fences its work, gives the canonical history *)
(* a new home and seals an archive; the target imports it and registers    *)
(* the project in one transaction; the source then erases what it kept.    *)
(* Either process can die between two steps, and the target's database can *)
(* be replaced by an older backup of itself.                               *)
(*                                                                         *)
(* Source: storage/provisioning.py, transfer/source.py, transfer/target.py,*)
(* transfer/importer.py, storage/transfer.py, api/project_provisioning.py, *)
(* server_ops/project_provision.py, history/manager.py (home transfer).    *)
(***************************************************************************)
EXTENDS Naturals, FiniteSets

CONSTANTS
    Commands,  \* import commands at work on the target at the same time
    Budgets    \* how much of each kind of event is explored together

(* Turns, changes of the project by people, pauses pressed, changes of the reviewed
   configuration, deploy keys replaced, deaths of a process, restores of the target. *)
Events == {"turns", "edits", "pauses", "changes", "keys", "crashes", "restores"}

ASSUME TransferAssumption == Budgets \subseteq [Events -> Nat]

VARIABLES
    src,     \* the transfer request of the source
    proj,    \* the project in the source space and its canonical history
    file,    \* the sealed archive of the source: the head it holds, 0 when absent
    cmd,     \* the source's release or completion command, under the project's lock
    tgt,     \* the database of the target
    inbox,   \* the archive received by the target, 0 when absent
    run,     \* the import commands
    saved,   \* a backup of the target's database
    relay,   \* what the client has read of each side and may still deliver
    minted,  \* target requests and final reviews made so far: each is unique
    landed,  \* the head the target first registered the project at
    budget

vars == <<src, proj, file, cmd, tgt, inbox, run, saved, relay, minted, landed, budget>>

sourceVars == <<src, proj, file, cmd>>
targetVars == <<tgt, inbox, run, saved, minted, landed>>

SourcePhases == {"awaiting_link", "linked", "target_admitted", "source_released", "source_fenced",
                 "archive_bound", "cleanup_acknowledged", "completed"}
TargetPhases == {"none", "linked", "target_admitted", "source_released", "archive_bound",
                 "target_activated", "completed", "operator_action_needed"}
Statuses == {"waiting_for_server_setup", "setup_in_progress", "operator_action_needed",
             "ready_for_review", "completed"}

(* A source in one of these phases takes no new work. *)
Leaving == {"source_released", "source_fenced", "archive_bound", "cleanup_acknowledged", "completed"}

Spend(e) == budget[e] > 0 /\ budget' = [budget EXCEPT ![e] = @ - 1]
Idle == [pc |-> "idle", lease |-> 0, upload |-> "none", review |-> 0]

TypeOK ==
    /\ src \in [phase : SourcePhases, link : Nat, admission : Nat, released : Nat, fence : Nat,
                archive : Nat, proof : {"unexposed", "exposed", "acknowledged", "consumed"}]
    /\ proj \in [home : {"source", "target"}, head : Nat \ {0}, working : BOOLEAN, paused : BOOLEAN,
                 watching : BOOLEAN, config : Nat, retired : BOOLEAN]
    /\ cmd \in {"idle", "advance", "settled", "moved", "exposed", "sealed",
                "verified", "acknowledged", "consumed", "retired", "unlinked"}
    /\ tgt \in [phase : TargetPhases, resume : TargetPhases, made : Nat, status : Statuses, review : Nat,
                admission : Nat, pinned : Nat, archive : Nat, upload : {"none", "active", "complete", "consumed", "invalidated"},
                lease : Nat, import : {"none", "database_imported", "complete"}, imported : Nat,
                registered : BOOLEAN, proof : {"unexposed", "exposed", "consumed"}]
    /\ \A c \in Commands : run[c].pc \in {"idle", "planned", "received", "uploaded", "staged", "importing", "imported", "committed"}
    /\ tgt.phase = "operator_action_needed" <=> tgt.resume # "none"
    /\ tgt.phase \in {"target_activated", "completed"} => tgt.registered /\ tgt.upload = "consumed"
    /\ src.phase \in {"archive_bound", "cleanup_acknowledged", "completed"} => src.archive = src.fence

Init ==
    /\ src = [phase |-> "awaiting_link", link |-> 0, admission |-> 0, released |-> 0, fence |-> 0,
              archive |-> 0, proof |-> "unexposed"]
    /\ proj = [home |-> "source", head |-> 1, working |-> FALSE, paused |-> FALSE, watching |-> FALSE,
               config |-> 0, retired |-> FALSE]
    /\ file = 0 /\ cmd = "idle" /\ inbox = 0 /\ run = [c \in Commands |-> Idle] /\ landed = 0
    /\ tgt = [phase |-> "none", resume |-> "none", made |-> 0, status |-> "waiting_for_server_setup",
              review |-> 0, admission |-> 0, pinned |-> 0, archive |-> 0, upload |-> "none", lease |-> 0,
              import |-> "none", imported |-> 0, registered |-> FALSE, proof |-> "unexposed"]
    /\ saved = tgt
    /\ relay = [link |-> 0, admission |-> 0, boundary |-> 0, proof |-> 0, ack |-> FALSE]
    /\ minted = [requests |-> 0, reviews |-> 0, leases |-> 0]
    /\ budget \in Budgets

-----------------------------------------------------------------------------
(* The project in the source space. *)

(* project_write_admission: the project's lock is free and no release has been recorded. *)
require_project_accepts_new_work == cmd = "idle" /\ src.phase \notin Leaving

WorkUnchanged == UNCHANGED <<src, file, cmd, targetVars, relay>>

start_agent_task ==
    /\ require_project_accepts_new_work /\ ~proj.working
    /\ Spend("turns")
    /\ proj' = [proj EXCEPT !.working = TRUE]
    /\ WorkUnchanged

(* History refuses a writer whose space is not the home of the project. *)
TurnWrites ==
    /\ proj.working /\ proj.home = "source"
    /\ Spend("edits")
    /\ \E arms \in BOOLEAN : proj' = [proj EXCEPT !.head = @ + 1, !.watching = @ \/ arms]
    /\ WorkUnchanged

PersonWrites ==
    /\ require_project_accepts_new_work /\ proj.home = "source"
    /\ Spend("edits")
    /\ proj' = [proj EXCEPT !.head = @ + 1]
    /\ WorkUnchanged

TurnEnds ==
    /\ proj.working
    /\ proj' = [proj EXCEPT !.working = FALSE]
    /\ UNCHANGED budget /\ WorkUnchanged

(* The row stays paused for good: resuming it makes a new row. *)
pause_agent_task ==
    /\ proj.working
    /\ Spend("pauses")
    /\ proj' = [proj EXCEPT !.working = FALSE, !.paused = TRUE]
    /\ WorkUnchanged

resume_agent_task ==
    /\ require_project_accepts_new_work /\ proj.paused /\ ~proj.working
    /\ Spend("turns")
    /\ proj' = [proj EXCEPT !.working = TRUE]
    /\ WorkUnchanged

(* The wake of a watcher asks no admission: it was authorized when the watcher was armed. *)
create_watcher_notification_task ==
    /\ proj.watching /\ ~proj.working
    /\ proj' = [proj EXCEPT !.watching = FALSE, !.working = TRUE]
    /\ UNCHANGED budget /\ WorkUnchanged

(* The manifest is edited, or the application itself becomes another version. *)
ConfigurationChanges ==
    /\ Spend("changes")
    /\ proj' = [proj EXCEPT !.config = @ + 1]
    /\ WorkUnchanged

-----------------------------------------------------------------------------
(* Receipts of the source. *)

SourceStep == UNCHANGED <<proj, file, cmd, targetVars, relay, budget>>

link_source_project_transfer_request ==
    /\ relay.link # 0 /\ src.phase = "awaiting_link"
    /\ src' = [src EXCEPT !.phase = "linked", !.link = relay.link]
    /\ SourceStep

(* An admission names the target request and the review it was given for. *)
accept_target_project_transfer_admission ==
    /\ relay.admission # 0 /\ src.phase = "linked" /\ src.link = relay.link
    /\ src' = [src EXCEPT !.phase = "target_admitted", !.admission = relay.admission]
    /\ SourceStep

read_source_project_transfer_release_boundary ==
    /\ cmd = "idle" /\ src.phase = "target_admitted"
    /\ relay' = [relay EXCEPT !.boundary = proj.head]
    /\ UNCHANGED <<src, proj, file, cmd, targetVars, budget>>

(* The release is recorded before anything is known to be settled, and a repeated release
   only goes on from where the last one stopped. *)
record_source_project_transfer_release ==
    /\ src.phase = "target_admitted" /\ relay.boundary = proj.head /\ proj.config = 0
    /\ src' = [src EXCEPT !.phase = "source_released", !.released = proj.head]

release_source_project_transfer_request ==
    /\ cmd = "idle" /\ relay.boundary # 0
    /\ \/ record_source_project_transfer_release
       \/ src.phase \in {"source_released", "source_fenced"} /\ UNCHANGED src
    /\ cmd' = "advance"
    /\ UNCHANGED <<proj, file, targetVars, relay, budget>>

(* Mutants: a turn at work, or an armed watcher, is overlooked. *)
_require_finished_transfer_state_Turns == ~proj.paused /\ ~proj.watching
_require_finished_transfer_state_Watchers == ~proj.working /\ ~proj.paused

(* export_project_transfer_records refuses unless every row is at rest. *)
_require_finished_transfer_state == ~proj.working /\ ~proj.paused /\ ~proj.watching
_require_reviewed_source_unchanged == proj.config = 0
Exportable == _require_finished_transfer_state /\ _require_reviewed_source_unchanged

AtStep(pc) == cmd = pc /\ UNCHANGED <<targetVars, relay, budget>>
Raises == cmd' = "idle" /\ UNCHANGED <<src, proj, file>>

SettleSource ==
    /\ AtStep("advance") /\ src.phase = "source_released"
    /\ IF Exportable THEN cmd' = "settled" /\ UNCHANGED <<src, proj, file>> ELSE Raises

(* Mutant: a home patch is written again after a crash. *)
transfer_project_home_Again ==
    /\ AtStep("settled")
    /\ cmd' = "moved"
    /\ proj' = [proj EXCEPT !.home = "target", !.head = @ + 1]
    /\ UNCHANGED <<src, file>>

(* A home patch that is already there is not written again. *)
transfer_project_home ==
    /\ AtStep("settled")
    /\ cmd' = "moved"
    /\ proj' = IF proj.home = "source" THEN [proj EXCEPT !.home = "target", !.head = @ + 1] ELSE proj
    /\ UNCHANGED <<src, file>>

mark_source_project_transfer_fenced ==
    /\ AtStep("moved")
    /\ IF proj.head > src.released
       THEN /\ src' = [src EXCEPT !.phase = "source_fenced", !.fence = proj.head]
            /\ cmd' = "advance" /\ UNCHANGED <<proj, file>>
       ELSE Raises

(* An archive sealed by an earlier attempt is taken as it is. *)
expose_source_proof ==
    /\ AtStep("advance") /\ src.phase = "source_fenced"
    /\ \/ /\ file # 0
          /\ cmd' = "sealed" /\ UNCHANGED <<src, proj, file>>
       \/ /\ file = 0 /\ Exportable
          /\ cmd' = "exposed" /\ src' = [src EXCEPT !.proof = "exposed"] /\ UNCHANGED <<proj, file>>
       \/ file = 0 /\ ~Exportable /\ Raises

_capture_and_seal_source_archive ==
    /\ AtStep("exposed")
    /\ file' = proj.head /\ cmd' = "sealed"
    /\ UNCHANGED <<src, proj>>

bind_source_archive ==
    /\ AtStep("sealed")
    /\ IF file = src.fence /\ src.proof = "exposed"
       THEN /\ src' = [src EXCEPT !.phase = "archive_bound", !.archive = file]
            /\ cmd' = "idle" /\ UNCHANGED <<proj, file>>
       ELSE Raises

-----------------------------------------------------------------------------
(* The source erases what it kept, once the target's proof has come back. *)

verify_target_project_transfer_activation ==
    /\ cmd = "idle" /\ relay.proof # 0 /\ relay.proof = src.link
    /\ src.phase \in {"archive_bound", "cleanup_acknowledged", "completed"}
    /\ \/ src.proof \in {"acknowledged", "consumed"} /\ UNCHANGED src
       \/ /\ src.proof = "exposed" /\ src.phase = "archive_bound"
          /\ src' = [src EXCEPT !.proof = "acknowledged"]
    /\ cmd' = "verified"
    /\ UNCHANGED <<proj, file, targetVars, relay, budget>>

(* Mutant: a missing archive is an error even when this very command removed it. *)
acknowledge_project_transfer_cleanup_NeedsFile ==
    /\ AtStep("verified")
    /\ src' = IF src.phase = "archive_bound" THEN [src EXCEPT !.phase = "cleanup_acknowledged"] ELSE src
    /\ cmd' = IF file = src.archive THEN "acknowledged" ELSE "idle"
    /\ UNCHANGED <<proj, file>>

acknowledge_project_transfer_cleanup ==
    /\ AtStep("verified")
    /\ src' = IF src.phase = "archive_bound" THEN [src EXCEPT !.phase = "cleanup_acknowledged"] ELSE src
    /\ cmd' = IF file = src.archive \/ (file = 0 /\ src.proof = "consumed" /\ proj.retired)
              THEN "acknowledged" ELSE "idle"
    /\ UNCHANGED <<proj, file>>

consume_project_transfer_proof ==
    /\ AtStep("acknowledged")
    /\ src' = [src EXCEPT !.proof = "consumed"]
    /\ cmd' = "consumed" /\ UNCHANGED <<proj, file>>

retire_source_project_transfer ==
    /\ AtStep("consumed")
    /\ proj' = [proj EXCEPT !.retired = TRUE]
    /\ cmd' = "retired" /\ UNCHANGED <<src, file>>

UnlinkArchive ==
    /\ AtStep("retired")
    /\ file' = 0
    /\ cmd' = "unlinked" /\ UNCHANGED <<src, proj>>

complete_project_transfer_request ==
    /\ cmd = "unlinked"
    /\ src' = [src EXCEPT !.phase = "completed"]
    /\ relay' = [relay EXCEPT !.ack = TRUE]
    /\ cmd' = "idle"
    /\ UNCHANGED <<proj, file, targetVars, budget>>

(* The personal backend dies: its command and the running turn end. *)
SourceDies ==
    /\ cmd # "idle" \/ proj.working
    /\ Spend("crashes")
    /\ cmd' = "idle" /\ proj' = [proj EXCEPT !.working = FALSE]
    /\ UNCHANGED <<src, file, targetVars, relay>>

-----------------------------------------------------------------------------
(* The target prepares machines and repositories for the project. *)

ProvisionStep == UNCHANGED <<sourceVars, inbox, run, saved, relay, landed>>

provision_start ==
    /\ tgt.status \in {"waiting_for_server_setup", "operator_action_needed"}
    /\ tgt' = [tgt EXCEPT !.status = "setup_in_progress"]
    /\ UNCHANGED <<minted, budget>> /\ ProvisionStep

(* The receipts of a review carry the times of their checks: no two reviews are equal. *)
_final_review ==
    /\ tgt.status = "setup_in_progress"
    /\ minted' = [minted EXCEPT !.reviews = @ + 1]
    /\ tgt' = [tgt EXCEPT !.status = "ready_for_review", !.review = minted.reviews + 1]
    /\ UNCHANGED budget /\ ProvisionStep

(* A rerun that finds another deploy key takes a finished review back. *)
_prepare_key ==
    /\ tgt.status = "ready_for_review"
    /\ Spend("keys")
    /\ tgt' = [tgt EXCEPT !.status = "setup_in_progress", !.review = 0]
    /\ UNCHANGED minted /\ ProvisionStep

_repository_failure ==
    /\ tgt.status = "setup_in_progress"
    /\ Spend("keys")
    /\ tgt' = [tgt EXCEPT !.status = "operator_action_needed"]
    /\ UNCHANGED minted /\ ProvisionStep

-----------------------------------------------------------------------------
(* Receipts of the target. *)

TargetStep == UNCHANGED <<sourceVars, inbox, run, saved, landed, budget>>

(* A new request has a proof of its own, and with it an identity. *)
create_target_project_transfer_request ==
    /\ tgt.phase = "none"
    /\ minted' = [minted EXCEPT !.requests = @ + 1]
    /\ tgt' = [tgt EXCEPT !.phase = "linked", !.made = minted.requests + 1]
    /\ UNCHANGED relay /\ TargetStep

record_target_project_transfer_admission ==
    /\ tgt.phase = "linked" /\ tgt.status = "ready_for_review"
    /\ tgt' = [tgt EXCEPT !.phase = "target_admitted", !.admission = tgt.review, !.pinned = tgt.review]
    /\ UNCHANGED <<relay, minted>> /\ TargetStep

(* The client reads the link and the admission of the target. *)
ReadTarget ==
    /\ tgt.made # 0
    /\ relay' = [relay EXCEPT !.link = tgt.made, !.admission = tgt.admission]
    /\ relay' # relay
    /\ UNCHANGED <<tgt, minted>> /\ TargetStep

(* The release must answer the admission this target gave. *)
accept_source_project_transfer_release ==
    /\ tgt.phase = "target_admitted"
    /\ src.released # 0 /\ src.link = tgt.made /\ src.admission = tgt.admission
    /\ tgt' = [tgt EXCEPT !.phase = "source_released"]
    /\ UNCHANGED <<relay, minted>> /\ TargetStep

bind_target_archive ==
    /\ tgt.phase = "source_released" /\ src.archive # 0
    /\ tgt' = [tgt EXCEPT !.phase = "archive_bound", !.archive = src.archive]
    /\ UNCHANGED <<relay, minted>> /\ TargetStep

(* The raw proof leaves the target only after it has registered the project. *)
retrieve_target_activation_proof ==
    /\ tgt.phase \in {"target_activated", "completed"} /\ tgt.proof # "consumed"
    /\ tgt' = [tgt EXCEPT !.proof = "exposed"]
    /\ relay' = [relay EXCEPT !.proof = tgt.made]
    /\ UNCHANGED minted /\ TargetStep

accept_project_transfer_cleanup_acknowledgment ==
    /\ relay.ack /\ tgt.made = src.link /\ tgt.archive = src.archive
    /\ tgt.phase = "target_activated" /\ tgt.proof = "exposed"
    /\ tgt' = [tgt EXCEPT !.phase = "completed", !.proof = "consumed"]
    /\ UNCHANGED <<relay, minted>> /\ TargetStep

-----------------------------------------------------------------------------
(* An import command reserves the upload, receives the archive into the inbox, completes
   the upload, stages and imports the archive, and activates the project.  A file lock keeps
   commands for the same request apart while one of them activates. *)

CommandStep == UNCHANGED <<sourceVars, saved, relay, budget>>
Fails(c) == run' = [run EXCEPT ![c] = Idle] /\ UNCHANGED <<tgt, inbox, minted, landed>>
Goes(c, pc) == run' = [run EXCEPT ![c].pc = pc]

(* acquire_target_transfer_upload_lease does not wait. *)
Busy(c) == \E d \in Commands \ {c} : run[d].pc \in {"staged", "importing", "imported", "committed"}

begin_target_project_transfer_upload(c) ==
    /\ run[c].pc = "idle"
    /\ \/ /\ tgt.phase = "archive_bound" /\ tgt.upload \in {"none", "invalidated"}
          /\ minted' = [minted EXCEPT !.leases = @ + 1]
          /\ tgt' = [tgt EXCEPT !.upload = "active", !.lease = minted.leases + 1]
       \/ /\ \/ tgt.phase = "archive_bound" /\ tgt.upload \in {"active", "complete"}
             \/ tgt.phase \in {"target_activated", "completed"} /\ tgt.upload = "consumed"
          /\ UNCHANGED <<tgt, minted>>
    /\ run' = [run EXCEPT ![c] = [pc |-> "planned", lease |-> tgt'.lease, upload |-> tgt'.upload, review |-> 0]]
    /\ UNCHANGED <<inbox, landed>> /\ CommandStep

(* The client streams the archive of the source; a completed upload is not written again. *)
Streams == src.phase = "archive_bound" /\ file # 0 /\ file = tgt.archive

upload_target_transfer_archive(c) ==
    /\ run[c].pc = "planned"
    /\ IF ~Busy(c) /\ Streams /\ (run[c].upload = "complete" => inbox = tgt.archive)
       THEN /\ inbox' = IF run[c].upload = "active" THEN tgt.archive ELSE inbox
            /\ Goes(c, "received") /\ UNCHANGED <<tgt, minted, landed>>
       ELSE Fails(c)
    /\ CommandStep

(* The file is read back before the upload counts as complete. *)
verify_target_transfer_archive ==
    tgt.phase = "archive_bound" /\ tgt.upload \in {"active", "complete"} /\ inbox = tgt.archive

complete_target_project_transfer_upload(c) ==
    /\ run[c].pc = "received"
    /\ IF /\ tgt.lease = run[c].lease
          /\ tgt.upload = "consumed" \/ (~Busy(c) /\ verify_target_transfer_archive)
       THEN /\ tgt' = IF tgt.upload = "active" THEN [tgt EXCEPT !.upload = "complete"] ELSE tgt
            /\ Goes(c, "uploaded") /\ UNCHANGED <<inbox, minted, landed>>
       ELSE Fails(c)
    /\ CommandStep

Importable == tgt.phase = "archive_bound" /\ tgt.status = "ready_for_review"

(* An import that has begun goes on only under the configuration it began with. *)
_require_ready_boundary ==
    /\ Importable /\ tgt.upload = "complete" /\ inbox = tgt.archive
    /\ tgt.import # "none" => tgt.imported = tgt.review

activate(c) ==
    /\ run[c].pc = "uploaded"
    /\ IF Busy(c) \/ tgt.lease # run[c].lease THEN Fails(c)
       ELSE \/ tgt.registered /\ Goes(c, "committed") /\ UNCHANGED <<tgt, inbox, minted, landed>>
            \/ /\ ~tgt.registered /\ _require_ready_boundary
               /\ run' = [run EXCEPT ![c].pc = "staged", ![c].review = tgt.review]
               /\ UNCHANGED <<tgt, inbox, minted, landed>>
            \/ ~tgt.registered /\ ~_require_ready_boundary /\ Fails(c)
    /\ CommandStep

begin_project_transfer_import(c) ==
    /\ run[c].pc = "staged"
    /\ IF Importable /\ (tgt.import # "none" => tgt.imported = run[c].review)
       THEN /\ tgt' = IF tgt.import # "none" THEN tgt
                      ELSE [tgt EXCEPT !.import = "database_imported", !.imported = run[c].review]
            /\ Goes(c, "importing") /\ UNCHANGED <<inbox, minted, landed>>
       ELSE Fails(c)
    /\ CommandStep

complete_project_transfer_import(c) ==
    /\ run[c].pc = "importing"
    /\ IF tgt.import = "complete" \/ Importable
       THEN /\ tgt' = [tgt EXCEPT !.import = "complete"]
            /\ Goes(c, "imported") /\ UNCHANGED <<inbox, minted, landed>>
       ELSE Fails(c)
    /\ CommandStep

(* What is activated is what the member reviewed, at the admission or when re-entering. *)
StillReviewed(c) == tgt.review = run[c].review /\ tgt.pinned = run[c].review

activate_target_project_transfer(c) ==
    /\ run[c].pc = "imported"
    /\ IF /\ Importable /\ StillReviewed(c) /\ tgt.upload = "complete"
          /\ tgt.import = "complete" /\ ~tgt.registered
       THEN /\ tgt' = [tgt EXCEPT !.phase = "target_activated", !.status = "completed",
                                  !.upload = "consumed", !.registered = TRUE]
            /\ landed' = IF landed = 0 THEN inbox ELSE landed
            /\ Goes(c, "committed") /\ UNCHANGED <<inbox, minted>>
       ELSE Fails(c)
    /\ CommandStep

DiscardInbox(c) ==
    /\ run[c].pc = "committed"
    /\ inbox' = 0 /\ run' = [run EXCEPT ![c] = Idle]
    /\ UNCHANGED <<tgt, minted, landed>> /\ CommandStep

NoRun == [c \in Commands |-> Idle]

TargetDies ==
    /\ run # NoRun /\ Spend("crashes")
    /\ run' = NoRun
    /\ UNCHANGED <<sourceVars, tgt, inbox, saved, relay, minted, landed>>

-----------------------------------------------------------------------------
(* A replacement of the target starts from a backup of its database. *)

Backup ==
    /\ budget["restores"] > 0 /\ saved # tgt
    /\ saved' = tgt
    /\ UNCHANGED <<sourceVars, tgt, inbox, run, relay, minted, landed, budget>>

detach_project_provisioning_for_restore(t) ==
    IF t.status = "completed" THEN t ELSE [t EXCEPT !.status = "operator_action_needed", !.review = 0]

detach_project_transfers_for_restore(t) ==
    IF t.phase \in {"none", "completed"} THEN t
    ELSE [t EXCEPT !.phase = "operator_action_needed",
                   !.resume = IF t.phase = "operator_action_needed" THEN t.resume ELSE t.phase,
                   !.upload = IF @ \in {"active", "complete"} THEN "invalidated" ELSE @]

Restore ==
    /\ Spend("restores")
    /\ tgt' = detach_project_transfers_for_restore(detach_project_provisioning_for_restore(saved))
    /\ inbox' = 0 /\ run' = NoRun
    /\ UNCHANGED <<sourceVars, saved, relay, minted, landed>>

(* Only a request that was waiting for its archive can be taken up again, and only when an
   upload had been reserved for it. *)
reenter_restored_target_project_transfer ==
    /\ tgt.phase = "operator_action_needed" /\ tgt.resume = "archive_bound"
    /\ tgt.status = "ready_for_review" /\ tgt.upload = "invalidated"
    /\ minted' = [minted EXCEPT !.leases = @ + 1]
    /\ tgt' = [tgt EXCEPT !.phase = "archive_bound", !.resume = "none", !.pinned = tgt.review,
                          !.upload = "active", !.lease = minted.leases + 1]
    /\ UNCHANGED relay /\ TargetStep

-----------------------------------------------------------------------------
Work ==
    \/ start_agent_task \/ TurnWrites \/ PersonWrites \/ pause_agent_task \/ resume_agent_task
    \/ ConfigurationChanges

Progress ==
    \/ TurnEnds \/ create_watcher_notification_task

Receipts ==
    \/ link_source_project_transfer_request \/ accept_target_project_transfer_admission
    \/ read_source_project_transfer_release_boundary
    \/ create_target_project_transfer_request \/ record_target_project_transfer_admission
    \/ ReadTarget \/ accept_source_project_transfer_release \/ bind_target_archive
    \/ retrieve_target_activation_proof \/ accept_project_transfer_cleanup_acknowledgment
    \/ reenter_restored_target_project_transfer

SourceCommand ==
    \/ release_source_project_transfer_request \/ SettleSource \/ transfer_project_home
    \/ mark_source_project_transfer_fenced \/ expose_source_proof \/ _capture_and_seal_source_archive
    \/ bind_source_archive \/ verify_target_project_transfer_activation
    \/ acknowledge_project_transfer_cleanup \/ consume_project_transfer_proof
    \/ retire_source_project_transfer \/ UnlinkArchive \/ complete_project_transfer_request

ImportCommand(c) ==
    \/ begin_target_project_transfer_upload(c) \/ upload_target_transfer_archive(c)
    \/ complete_target_project_transfer_upload(c) \/ activate(c) \/ begin_project_transfer_import(c)
    \/ complete_project_transfer_import(c) \/ activate_target_project_transfer(c) \/ DiscardInbox(c)

Provisioning == provision_start \/ _final_review

Faults ==
    \/ _prepare_key \/ _repository_failure \/ SourceDies \/ TargetDies \/ Backup \/ Restore

Next == Work \/ Progress \/ Receipts \/ SourceCommand \/ (\E c \in Commands : ImportCommand(c)) \/ Provisioning \/ Faults

Spec ==
    /\ Init /\ [][Next]_vars
    /\ WF_vars(Progress) /\ WF_vars(Receipts) /\ WF_vars(SourceCommand)
    /\ WF_vars(Provisioning) /\ \A c \in Commands : WF_vars(ImportCommand(c))

-----------------------------------------------------------------------------
(* Whatever archive is sealed, bound, received or activated holds the whole history: nothing
   is written after it, and no work was left to write; and the source gives up its archive
   and its entry only after the project has arrived. *)
ArchiveIsWhole ==
    /\ \A a \in {file, src.archive, tgt.archive, inbox, landed} \ {0} :
         a = proj.head /\ ~proj.working /\ ~proj.watching
    /\ proj.retired \/ (src.archive # 0 /\ file = 0) => landed # 0

(* The project is never at work in two spaces: once the target has registered it, even in a
   database put back from a backup, the source takes no work, runs none, and its history
   belongs to the target.  It is registered on the machines, keys and checkouts a member
   looked at, and its records were imported for the same ones, however often the
   preparation was repeated.  And it arrives whole. *)
OneHome ==
    /\ TypeOK /\ ArchiveIsWhole
    /\ tgt.registered =>
         /\ src.phase \in Leaving /\ proj.home = "target" /\ ~proj.working
         /\ tgt.imported = tgt.pinned /\ tgt.review = tgt.pinned

(* The move as a whole is a handover of one home. *)
Home == INSTANCE ProjectHome WITH
    place <- IF landed # 0 THEN "target" ELSE IF proj.home = "target" THEN "between" ELSE "source",
    written <- proj.head, arrived <- landed
HomeSpec == Home!Spec

Done == src.phase = "completed" /\ tgt.phase = "completed"

(* The dead ends of a move that has been released, which nothing in the code takes back: work
   that was ever paused; a configuration, or a version of the application, that is no longer
   the reviewed one; a preparation repeated after the admission; and a target put back from a
   backup, unless it was waiting for an archive that the source still has. *)
PausedForGood == proj.paused
SourceReviewLost == proj.config # 0 /\ file = 0 /\ src.archive = 0
TargetReviewLost ==
    tgt.phase \in {"target_admitted", "source_released", "archive_bound"} /\ tgt.review # tgt.pinned
RestoredTooEarly ==
    \/ tgt.made # src.link
    \/ /\ tgt.phase = "operator_action_needed"
       /\ tgt.resume # "archive_bound" \/ tgt.upload # "invalidated" \/ tgt.import # "none"
    \/ tgt.phase \in {"operator_action_needed", "archive_bound"} /\ src.phase \in {"cleanup_acknowledged", "completed"}
Stranded == PausedForGood \/ SourceReviewLost \/ TargetReviewLost \/ RestoredTooEarly

(* A released project arrives and both sides finish, over lost answers, repeated commands and
   deaths of either process. *)
TransferCompletes == src.phase = "source_released" ~> Done \/ Stranded

=============================================================================
