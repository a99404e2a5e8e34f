--------------------------- MODULE RelocationProofs ---------------------------
(***************************************************************************)
(* What moves to another machine: a project handed over from one server to *)
(* the other, and a whole server rebuilt from a backup.                    *)
(*                                                                         *)
(* For any number of import commands and any number of turns, edits,       *)
(* changes, deaths and restores: a project has one home, arrives whole and *)
(* on what was reviewed, and its move is a handover (ProjectHome).         *)
(*                                                                         *)
(* For every archive, every set of captured projects and members, and any  *)
(* number of runs of the command, faults and deaths: the replacement acts  *)
(* only with the old server excluded and its roster confirmed, and only    *)
(* when the whole archive is restored.                                     *)
(***************************************************************************)
EXTENDS ProjectTransfer, ServerRestore, TLAPS

-----------------------------------------------------------------------------
(* The invariant. *)

FencedPhases == Leaving \ {"source_released"}
Bound == {"archive_bound", "cleanup_acknowledged", "completed"}
Erasing == {"verified", "acknowledged", "consumed", "retired", "unlinked"}

SrcRows == [phase : SourcePhases, link : Nat, admission : Nat, released : Nat, fence : Nat,
            archive : Nat, proof : {"unexposed", "exposed", "acknowledged", "consumed"}]
ProjRows == [home : {"source", "target"}, head : Nat \ {0}, working : BOOLEAN, paused : BOOLEAN,
             watching : BOOLEAN, config : Nat, retired : BOOLEAN]
TgtRows == [phase : TargetPhases, resume : TargetPhases, made : Nat, status : Statuses, review : Nat,
            admission : Nat, pinned : Nat, archive : Nat, upload : {"none", "active", "complete", "consumed", "invalidated"},
            lease : Nat, import : {"none", "database_imported", "complete"}, imported : Nat,
            registered : BOOLEAN, proof : {"unexposed", "exposed", "consumed"}]
RunRows == [pc : {"idle", "planned", "received", "uploaded", "staged", "importing", "imported", "committed"},
            lease : Nat, upload : {"none", "active", "complete", "consumed", "invalidated"}, review : Nat]
Settings == {"idle", "advance", "settled", "moved", "exposed", "sealed",
             "verified", "acknowledged", "consumed", "retired", "unlinked"}

(* Nothing of the project is at work or waits to be. *)
Quiet == ~proj.working /\ ~proj.watching

SourceType ==
    /\ src \in SrcRows /\ proj \in ProjRows /\ file \in Nat /\ cmd \in Settings
    /\ relay \in [link : Nat, admission : Nat, boundary : Nat, proof : Nat, ack : BOOLEAN]
    /\ budget \in [Events -> Nat] /\ landed \in Nat

(* What the phase of the request and the step of its command say of the project: it is
   quiet from the moment its records could be exported, its history has its last entry
   once the home is the target, and an archive is of that entry. *)
PhaseInv ==
    /\ cmd # "idle" => src.phase \in Leaving
    /\ cmd = "advance" => src.phase \in {"source_released", "source_fenced"}
    /\ cmd \in {"settled", "moved"} => src.phase = "source_released" /\ Quiet
    /\ cmd = "moved" => proj.home = "target"
    /\ cmd \in {"exposed", "sealed"} => src.phase = "source_fenced"
    /\ cmd \in Erasing => src.phase \in Bound
    /\ src.phase \in FencedPhases => proj.home = "target" /\ src.fence = proj.head
    /\ src.phase \in Bound => src.archive = proj.head
    /\ src.phase \notin Bound => src.archive = 0
    /\ proj.home = "target" => src.phase \in Leaving /\ Quiet

(* The sealed archive holds the last entry, and is kept until the project has arrived. *)
KeepInv ==
    /\ file # 0 => file = proj.head /\ src.phase \in FencedPhases
    /\ cmd = "sealed" => file # 0
    /\ src.phase \in Bound => file # 0 \/ landed # 0
    /\ cmd \in Erasing \/ proj.retired \/ relay.proof # 0 => landed # 0
    /\ inbox # 0 => inbox = src.archive
    /\ landed # 0 => landed = src.archive

(* A database of the target, live or in a backup, put back or not. *)
RequestPhase(t) == IF t.phase = "operator_action_needed" THEN t.resume ELSE t.phase
TargetInv(t) ==
    /\ t \in TgtRows
    /\ t.phase = "operator_action_needed" <=> t.resume # "none"
    /\ RequestPhase(t) # "operator_action_needed"
    /\ t.archive # 0 => t.archive = src.archive
    /\ RequestPhase(t) \in {"archive_bound", "target_activated", "completed"} => t.archive # 0
    /\ t.registered <=> RequestPhase(t) \in {"target_activated", "completed"}
    /\ t.registered => /\ t.status = "completed" /\ t.upload = "consumed" /\ landed # 0
                       /\ t.imported = t.pinned /\ t.review = t.pinned

(* An import command that has passed the boundary has the archive to itself, and goes on
   under the review its import was recorded for. *)
Holding == {"staged", "importing", "imported", "committed"}
RunInv ==
    /\ run \in [Commands -> RunRows] /\ inbox \in Nat
    /\ minted \in [requests : Nat, reviews : Nat, leases : Nat]
    /\ \A c, d \in Commands : run[c].pc \in Holding /\ run[d].pc \in Holding => c = d
    /\ \A c \in Commands :
          /\ run[c].pc \in {"staged", "importing", "imported"} => inbox # 0
          /\ run[c].pc \in {"importing", "imported"} => tgt.import # "none" /\ tgt.imported = run[c].review

IInv == SourceType /\ PhaseInv /\ KeepInv /\ TargetInv(tgt) /\ TargetInv(saved) /\ RunInv

-----------------------------------------------------------------------------
(* What a step of one side leaves to the other. *)

LEMMA Constants == Budgets \subseteq [Events -> Nat]
  BY TransferAssumption

(* A database keeps its standing as long as what was bound and what has arrived stay. *)
LEMMA StandingKept ==
    ASSUME NEW t, TargetInv(t), src.archive # 0 => src'.archive = src.archive, landed # 0 => landed' # 0
    PROVE  TargetInv(t)'
  BY DEF TargetInv, RequestPhase

LEMMA SavedKept ==
    ASSUME TargetInv(saved), UNCHANGED saved, src.archive # 0 => src'.archive = src.archive,
           landed # 0 => landed' # 0
    PROVE  TargetInv(saved)'
  <1>1. PICK t : t = saved
    OBVIOUS
  <1>2. TargetInv(t)'
    BY <1>1, StandingKept
  <1> QED BY <1>1, <1>2 DEF TargetInv, RequestPhase

LEMMA TgtKept ==
    ASSUME TargetInv(tgt), UNCHANGED tgt, src.archive # 0 => src'.archive = src.archive,
           landed # 0 => landed' # 0
    PROVE  TargetInv(tgt)'
  <1>1. PICK t : t = tgt
    OBVIOUS
  <1>2. TargetInv(t)'
    BY <1>1, StandingKept
  <1> QED BY <1>1, <1>2 DEF TargetInv, RequestPhase

SourceInv == SourceType /\ PhaseInv /\ KeepInv

LEMMA SourceStepKeeps ==
    ASSUME IInv, UNCHANGED targetVars, SourceInv', src.archive # 0 => src'.archive = src.archive
    PROVE  IInv'
  <1>1. UNCHANGED <<tgt, inbox, run, saved, minted, landed>>
    BY DEF targetVars
  <1>2. TargetInv(tgt)' /\ TargetInv(saved)'
    BY <1>1, TgtKept, SavedKept DEF IInv
  <1>3. RunInv'
    BY <1>1 DEF IInv, RunInv
  <1> QED BY <1>2, <1>3 DEF IInv, SourceInv

(* A step that leaves the source alone, and what the source depends on. *)
LEMMA TargetStepKeeps ==
    ASSUME IInv, UNCHANGED sourceVars, TargetInv(tgt)', TargetInv(saved)', RunInv',
           relay' \in [link : Nat, admission : Nat, boundary : Nat, proof : Nat, ack : BOOLEAN],
           budget' \in [Events -> Nat], landed' \in Nat, landed # 0 => landed' = landed,
           landed' # 0 => landed' = src.archive, inbox' # 0 => inbox' = src.archive,
           relay'.proof # 0 => landed' # 0
    PROVE  IInv'
  <1>1. UNCHANGED <<src, proj, file, cmd>>
    BY DEF sourceVars
  <1>2. SourceType' /\ PhaseInv'
    BY <1>1 DEF IInv, SourceType, PhaseInv, Quiet
  <1>3. KeepInv'
    BY <1>1 DEF IInv, KeepInv
  <1> QED BY <1>2, <1>3 DEF IInv

LEMMA SpendType ==
    ASSUME budget \in [Events -> Nat], NEW e \in Events, Spend(e)
    PROVE  budget' \in [Events -> Nat]
  BY DEF Spend

LEMMA InitKeeps == Init => IInv
  <1> SUFFICES ASSUME Init PROVE IInv
    OBVIOUS
  <1>1. SourceType
    BY Constants DEF Init, SourceType, SrcRows, ProjRows, SourcePhases, Settings
  <1>2. PhaseInv /\ KeepInv
    BY DEF Init, PhaseInv, KeepInv, Quiet, Leaving, FencedPhases, Bound, Erasing
  <1>3. TargetInv(tgt) /\ TargetInv(saved)
    BY DEF Init, TargetInv, TgtRows, RequestPhase, TargetPhases, Statuses
  <1>4. RunInv
    BY DEF Init, RunInv, RunRows, Idle, Holding
  <1> QED BY <1>1, <1>2, <1>3, <1>4 DEF IInv

-----------------------------------------------------------------------------
(* Work in the source space. *)

LEMMA WorkKeeps ==
    ASSUME IInv, Work \/ Progress
    PROVE  IInv'
  <1>1. UNCHANGED <<src, file, cmd, targetVars, relay>> /\ UNCHANGED <<landed, inbox>>
    BY DEF Work, Progress, WorkUnchanged, start_agent_task, TurnWrites, PersonWrites, TurnEnds, pause_agent_task,
           resume_agent_task, create_watcher_notification_task, ConfigurationChanges, targetVars
  <1>2. budget' \in [Events -> Nat]
    BY SpendType DEF IInv, SourceType, Work, Progress, start_agent_task, TurnWrites, PersonWrites, TurnEnds,
           pause_agent_task, resume_agent_task, create_watcher_notification_task, ConfigurationChanges, Events
  <1>3. /\ proj' \in ProjRows /\ proj'.home = proj.home /\ proj'.retired = proj.retired
        /\ proj'.head = proj.head \/ (proj.home = "source" /\ file = 0)
        /\ Quiet' \/ (~Quiet) \/ (cmd = "idle" /\ src.phase \notin Leaving)
    <2>1. /\ proj \in ProjRows /\ (proj.home = "target" => Quiet)
          /\ file # 0 => proj.home = "target"
      BY DEF IInv, SourceType, PhaseInv, KeepInv
    <2>2. CASE start_agent_task \/ resume_agent_task
      BY <2>1, <2>2 DEF ProjRows, start_agent_task, resume_agent_task, require_project_accepts_new_work
    <2>3. CASE TurnWrites
      <3>1. PICK on \in BOOLEAN : proj' = [proj EXCEPT !.head = @ + 1, !.watching = on]
        BY <2>1, <2>3 DEF TurnWrites, ProjRows
      <3>2. ~Quiet /\ proj.home = "source" /\ file = 0
        BY <2>1, <2>3 DEF TurnWrites, Quiet
      <3>3. PICK n \in Nat \ {0} : n = proj.head + 1
        BY <2>1 DEF ProjRows
      <3>4. proj' = [proj EXCEPT !.head = n, !.watching = on]
        BY <3>1, <3>3
      <3>5. proj' \in ProjRows
        BY <2>1, <3>4, Zenon DEF ProjRows
      <3>6. proj'.home = proj.home /\ proj'.retired = proj.retired
        BY <2>1, <3>1 DEF ProjRows
      <3> QED BY <3>2, <3>5, <3>6
    <2>4. CASE PersonWrites
      BY <2>1, <2>4 DEF ProjRows, PersonWrites, Quiet
    <2>5. CASE TurnEnds \/ pause_agent_task
      BY <2>1, <2>5 DEF ProjRows, TurnEnds, pause_agent_task, Quiet
    <2>6. CASE create_watcher_notification_task
      BY <2>1, <2>6 DEF ProjRows, create_watcher_notification_task, Quiet
    <2>7. CASE ConfigurationChanges
      BY <2>1, <2>7 DEF ProjRows, ConfigurationChanges, Quiet
    <2> QED BY <2>2, <2>3, <2>4, <2>5, <2>6, <2>7 DEF Work, Progress
  <1>4. SourceType'
    BY <1>1, <1>2, <1>3 DEF IInv, SourceType
  <1>5. PhaseInv'
    BY <1>1, <1>3 DEF IInv, PhaseInv, Leaving, FencedPhases, Bound, Erasing
  <1>6. KeepInv'
    BY <1>1, <1>3 DEF IInv, KeepInv, PhaseInv, FencedPhases, Leaving, Bound
  <1> QED BY <1>1, <1>4, <1>5, <1>6, SourceStepKeeps DEF SourceInv

-----------------------------------------------------------------------------
(* Receipts and commands of the source. *)

LEMMA SourceReceiptsKeep ==
    ASSUME IInv, \/ link_source_project_transfer_request \/ accept_target_project_transfer_admission
                 \/ read_source_project_transfer_release_boundary
    PROVE  IInv'
  <1>1. UNCHANGED <<proj, file, cmd, targetVars, budget, landed, inbox>> /\ relay'.proof = relay.proof
    BY DEF link_source_project_transfer_request, accept_target_project_transfer_admission, SourceStep,
           read_source_project_transfer_release_boundary, targetVars, IInv, SourceType
  <1>2. /\ src' \in SrcRows /\ src'.archive = src.archive
        /\ src'.phase = src.phase \/ {src.phase, src'.phase} \cap Leaving = {}
        /\ src'.fence = src.fence
        /\ relay' \in [link : Nat, admission : Nat, boundary : Nat, proof : Nat, ack : BOOLEAN]
    <2>1. /\ src \in SrcRows /\ proj.head \in Nat
          /\ relay \in [link : Nat, admission : Nat, boundary : Nat, proof : Nat, ack : BOOLEAN]
      BY DEF IInv, SourceType, ProjRows
    <2>2. CASE link_source_project_transfer_request
      BY <2>1, <2>2 DEF link_source_project_transfer_request, SourceStep, SrcRows, SourcePhases, Leaving
    <2>3. CASE accept_target_project_transfer_admission
      BY <2>1, <2>3 DEF accept_target_project_transfer_admission, SourceStep, SrcRows, SourcePhases, Leaving
    <2>4. CASE read_source_project_transfer_release_boundary
      BY <2>1, <2>4 DEF read_source_project_transfer_release_boundary
    <2> QED BY <2>2, <2>3, <2>4
  <1>3. SourceType'
    BY <1>1, <1>2 DEF IInv, SourceType, targetVars
  <1>4. PhaseInv'
    BY <1>1, <1>2 DEF IInv, PhaseInv, Leaving, FencedPhases, Bound, Erasing, Quiet
  <1>5. KeepInv'
    BY <1>1, <1>2 DEF IInv, KeepInv, Leaving, FencedPhases, Bound
  <1> QED BY <1>1, <1>2, <1>3, <1>4, <1>5, SourceStepKeeps DEF SourceInv

(* A step of a command that only goes on or gives up. *)
LEMMA CommandGoes ==
    ASSUME IInv, UNCHANGED <<targetVars, relay, budget, src, proj, file>>, cmd' \in Settings,
           cmd' # "idle" => src.phase \in Leaving,
           cmd' = "advance" => src.phase \in {"source_released", "source_fenced"},
           cmd' \in {"settled", "moved"} => src.phase = "source_released" /\ Quiet,
           cmd' = "moved" => proj.home = "target",
           cmd' \in {"exposed", "sealed"} => src.phase = "source_fenced",
           cmd' = "sealed" => file # 0,
           cmd' \in Erasing => src.phase \in Bound /\ landed # 0
    PROVE  IInv'
  <1>1. UNCHANGED <<landed, inbox>>
    BY DEF targetVars
  <1>2. SourceType'
    BY <1>1 DEF IInv, SourceType
  <1>3. PhaseInv'
    BY DEF IInv, PhaseInv, Quiet
  <1>4. KeepInv'
    BY <1>1 DEF IInv, KeepInv
  <1> QED BY <1>2, <1>3, <1>4, SourceStepKeeps DEF SourceInv

LEMMA RaisesKeeps ==
    ASSUME IInv, UNCHANGED <<targetVars, relay, budget>>, Raises
    PROVE  IInv'
  <1>1. cmd' = "idle" /\ UNCHANGED <<src, proj, file>>
    BY DEF Raises
  <1>2. "idle" \in Settings /\ "idle" \notin Erasing
    BY DEF Settings, Erasing
  <1> QED BY <1>1, <1>2, CommandGoes

LEMMA ReleaseKeeps ==
    ASSUME IInv, release_source_project_transfer_request
    PROVE  IInv'
  <1>1. cmd = "idle" /\ cmd' = "advance" /\ UNCHANGED <<proj, file, targetVars, relay, budget, landed, inbox>>
    BY DEF release_source_project_transfer_request, targetVars
  <1>2. CASE record_source_project_transfer_release
    <2>1. /\ src \in SrcRows /\ src.phase = "target_admitted" /\ proj \in ProjRows
          /\ src' = [src EXCEPT !.phase = "source_released", !.released = proj.head]
      BY <1>2 DEF IInv, SourceType, record_source_project_transfer_release
    <2>2. /\ src' \in SrcRows /\ src'.phase = "source_released" /\ src'.archive = src.archive
      BY <2>1 DEF SrcRows, ProjRows, SourcePhases
    <2>3. SourceType'
      BY <1>1, <2>2 DEF IInv, SourceType, Settings
    <2>4. PhaseInv'
      BY <1>1, <2>1, <2>2 DEF IInv, PhaseInv, Leaving, FencedPhases, Bound, Erasing, Quiet
    <2>5. KeepInv'
      BY <1>1, <2>1, <2>2 DEF IInv, KeepInv, Leaving, FencedPhases, Bound, Erasing
    <2> QED BY <1>1, <2>2, <2>3, <2>4, <2>5, SourceStepKeeps DEF SourceInv
  <1>3. CASE src.phase \in {"source_released", "source_fenced"} /\ UNCHANGED src
    BY <1>1, <1>3, CommandGoes DEF Settings, Leaving, Erasing
  <1> QED BY <1>2, <1>3 DEF release_source_project_transfer_request

LEMMA SettleKeeps ==
    ASSUME IInv, SettleSource
    PROVE  IInv'
  <1>1. src.phase = "source_released" /\ UNCHANGED <<targetVars, relay, budget>>
    BY DEF SettleSource, AtStep
  <1>2. CASE Exportable /\ cmd' = "settled" /\ UNCHANGED <<src, proj, file>>
    <2>1. Quiet
      BY <1>2 DEF Exportable, _require_finished_transfer_state, Quiet
    <2> QED BY <1>1, <1>2, <2>1, CommandGoes DEF Settings, Leaving, Erasing
  <1>3. CASE Raises
    BY <1>1, <1>3, RaisesKeeps
  <1> QED BY <1>2, <1>3 DEF SettleSource

LEMMA MoveKeeps ==
    ASSUME IInv, transfer_project_home
    PROVE  IInv'
  <1>1. cmd = "settled" /\ cmd' = "moved" /\ UNCHANGED <<targetVars, relay, budget, src, file, landed, inbox>>
    BY DEF transfer_project_home, AtStep, targetVars
  <1>2. /\ src.phase = "source_released" /\ Quiet /\ file = 0 /\ src.archive = 0
        /\ proj \in ProjRows /\ landed = 0 /\ ~proj.retired
    BY <1>1 DEF IInv, SourceType, PhaseInv, KeepInv, FencedPhases, Bound
  <1>3. proj' \in ProjRows /\ proj'.home = "target" /\ ~proj'.retired /\ Quiet'
    <2>1. CASE proj' = [proj EXCEPT !.home = "target", !.head = @ + 1]
      <3>1. PICK n \in Nat \ {0} : n = proj.head + 1
        BY <1>2 DEF ProjRows
      <3>2. proj' = [proj EXCEPT !.home = "target", !.head = n]
        BY <2>1, <3>1
      <3>3. proj' \in ProjRows
        BY <1>2, <3>2, Zenon DEF ProjRows
      <3>4. /\ proj'.home = "target" /\ proj'.retired = proj.retired
            /\ proj'.working = proj.working /\ proj'.watching = proj.watching
        BY <1>2, <3>2, Zenon DEF ProjRows
      <3> QED BY <1>2, <3>3, <3>4 DEF Quiet
    <2>2. CASE proj.home # "source" /\ proj' = proj
      BY <1>2, <2>2 DEF ProjRows, Quiet
    <2> QED BY <2>1, <2>2 DEF transfer_project_home
  <1>4. SourceType'
    BY <1>1, <1>3 DEF IInv, SourceType, Settings
  <1>5. PhaseInv'
    BY <1>1, <1>2, <1>3 DEF IInv, PhaseInv, Leaving, FencedPhases, Bound, Erasing
  <1>6. KeepInv'
    BY <1>1, <1>2, <1>3 DEF IInv, KeepInv, Leaving, FencedPhases, Bound, Erasing
  <1> QED BY <1>1, <1>4, <1>5, <1>6, SourceStepKeeps DEF SourceInv

LEMMA FenceKeeps ==
    ASSUME IInv, mark_source_project_transfer_fenced
    PROVE  IInv'
  <1>1. cmd = "moved" /\ UNCHANGED <<targetVars, relay, budget, landed, inbox>>
    BY DEF mark_source_project_transfer_fenced, AtStep, targetVars
  <1>2. CASE /\ src' = [src EXCEPT !.phase = "source_fenced", !.fence = proj.head]
             /\ cmd' = "advance" /\ UNCHANGED <<proj, file>>
    <2>1. /\ src.phase = "source_released" /\ proj.home = "target" /\ file = 0 /\ src.archive = 0
          /\ proj \in ProjRows /\ src \in SrcRows /\ landed = 0
      BY <1>1 DEF IInv, SourceType, PhaseInv, KeepInv, FencedPhases, Bound
    <2>2. /\ src' \in SrcRows /\ src'.phase = "source_fenced" /\ src'.fence = proj.head /\ src'.archive = 0
      BY <1>2, <2>1 DEF SrcRows, ProjRows, SourcePhases
    <2>3. SourceType'
      BY <1>1, <1>2, <2>2 DEF IInv, SourceType, Settings
    <2>4. PhaseInv'
      BY <1>1, <1>2, <2>1, <2>2 DEF IInv, PhaseInv, Leaving, FencedPhases, Bound, Erasing, Quiet
    <2>5. KeepInv'
      BY <1>1, <1>2, <2>1, <2>2 DEF IInv, KeepInv, Leaving, FencedPhases, Bound, Erasing
    <2> QED BY <1>1, <2>1, <2>3, <2>4, <2>5, SourceStepKeeps DEF SourceInv
  <1>3. CASE Raises
    BY <1>1, <1>3, RaisesKeeps
  <1> QED BY <1>2, <1>3 DEF mark_source_project_transfer_fenced

LEMMA SealKeeps ==
    ASSUME IInv, expose_source_proof \/ _capture_and_seal_source_archive
    PROVE  IInv'
  <1>1. UNCHANGED <<targetVars, relay, budget, landed, inbox, proj>>
    BY DEF expose_source_proof, _capture_and_seal_source_archive, AtStep, targetVars, Raises
  <1>2. CASE Raises
    BY <1>1, <1>2, RaisesKeeps
  <1>3. ASSUME src.phase = "source_fenced", file = 0, cmd' = "exposed",
               src' = [src EXCEPT !.proof = "exposed"], UNCHANGED file
        PROVE  IInv'
    <2>1. /\ src' \in SrcRows /\ src'.phase = "source_fenced" /\ src'.fence = src.fence /\ src'.archive = src.archive
      BY <1>3 DEF IInv, SourceType, SrcRows
    <2>2. SourceType'
      BY <1>1, <1>3, <2>1 DEF IInv, SourceType, Settings
    <2>3. PhaseInv'
      BY <1>1, <1>3, <2>1 DEF IInv, PhaseInv, Leaving, FencedPhases, Bound, Erasing, Quiet
    <2>4. KeepInv'
      BY <1>1, <1>3, <2>1 DEF IInv, KeepInv, Leaving, FencedPhases, Bound, Erasing
    <2> QED BY <1>1, <2>1, <2>2, <2>3, <2>4, SourceStepKeeps DEF SourceInv
  <1>4. ASSUME src.phase = "source_fenced", file # 0, cmd' = "sealed", UNCHANGED <<src, file>>
        PROVE  IInv'
    BY <1>1, <1>4, CommandGoes DEF Settings, Leaving, Erasing
  <1>5. CASE _capture_and_seal_source_archive
    <2>1. /\ cmd = "exposed" /\ cmd' = "sealed" /\ file' = proj.head /\ UNCHANGED src
          /\ src.phase = "source_fenced" /\ proj.head \in Nat \ {0} /\ landed = 0
      BY <1>5 DEF _capture_and_seal_source_archive, AtStep, IInv, PhaseInv, KeepInv, SourceType, ProjRows, Bound
    <2>2. SourceType'
      BY <1>1, <2>1 DEF IInv, SourceType, Settings
    <2>3. PhaseInv'
      BY <1>1, <2>1 DEF IInv, PhaseInv, Leaving, FencedPhases, Bound, Erasing, Quiet
    <2>4. KeepInv'
      BY <1>1, <2>1 DEF IInv, KeepInv, Leaving, FencedPhases, Bound, Erasing
    <2> QED BY <1>1, <2>1, <2>2, <2>3, <2>4, SourceStepKeeps DEF SourceInv
  <1> QED BY <1>2, <1>3, <1>4, <1>5 DEF expose_source_proof

LEMMA BindKeeps ==
    ASSUME IInv, bind_source_archive
    PROVE  IInv'
  <1>1. cmd = "sealed" /\ UNCHANGED <<targetVars, relay, budget, landed, inbox>>
    BY DEF bind_source_archive, AtStep, targetVars
  <1>2. CASE Raises
    BY <1>1, <1>2, RaisesKeeps
  <1>3. CASE /\ src' = [src EXCEPT !.phase = "archive_bound", !.archive = file]
             /\ cmd' = "idle" /\ UNCHANGED <<proj, file>>
    <2>1. /\ src \in SrcRows /\ src.phase = "source_fenced" /\ file # 0 /\ file = proj.head /\ file \in Nat
          /\ src.archive = 0 /\ landed = 0 /\ src.fence = proj.head /\ proj.home = "target" /\ inbox = 0
      BY <1>1 DEF IInv, SourceType, PhaseInv, KeepInv, Bound, FencedPhases, Leaving
    <2>2. /\ src' \in SrcRows /\ src'.phase = "archive_bound" /\ src'.fence = src.fence /\ src'.archive = proj.head
      BY <1>3, <2>1 DEF SrcRows, SourcePhases
    <2>3. SourceType'
      BY <1>1, <1>3, <2>2 DEF IInv, SourceType, Settings
    <2>4. PhaseInv'
      BY <1>1, <1>3, <2>1, <2>2 DEF IInv, PhaseInv, Leaving, FencedPhases, Bound, Erasing, Quiet
    <2>5. KeepInv'
      BY <1>1, <1>3, <2>1, <2>2 DEF IInv, KeepInv, Leaving, FencedPhases, Bound, Erasing
    <2> QED BY <1>1, <2>1, <2>3, <2>4, <2>5, SourceStepKeeps DEF SourceInv
  <1> QED BY <1>2, <1>3 DEF bind_source_archive

(* The erasure goes on only where the project has arrived. *)
LEMMA ErasureKeeps ==
    ASSUME IInv, UNCHANGED <<targetVars, budget>>, landed # 0, src.phase \in Bound,
           src' \in SrcRows, src'.phase \in Bound, src'.fence = src.fence, src'.archive = src.archive,
           proj' \in ProjRows, proj'.head = proj.head, proj'.home = proj.home,
           proj'.working = proj.working, proj'.watching = proj.watching, file' \in {0, file},
           cmd' \in Erasing \cup {"idle"}, relay'.proof = relay.proof,
           relay' \in [link : Nat, admission : Nat, boundary : Nat, proof : Nat, ack : BOOLEAN]
    PROVE  IInv'
  <1>1. UNCHANGED <<landed, inbox>>
    BY DEF targetVars
  <1>2. SourceType'
    BY <1>1 DEF IInv, SourceType, Settings, Erasing
  <1>3. PhaseInv'
    BY <1>1 DEF IInv, PhaseInv, Leaving, FencedPhases, Bound, Erasing, Quiet
  <1>4. KeepInv'
    BY <1>1 DEF IInv, KeepInv, Leaving, FencedPhases, Bound, Erasing
  <1> QED BY <1>2, <1>3, <1>4, SourceStepKeeps DEF SourceInv

LEMMA EraseKeeps ==
    ASSUME IInv, \/ verify_target_project_transfer_activation \/ acknowledge_project_transfer_cleanup
                 \/ consume_project_transfer_proof \/ retire_source_project_transfer \/ UnlinkArchive
                 \/ complete_project_transfer_request
    PROVE  IInv'
  <1>1. UNCHANGED <<targetVars, budget>>
    BY DEF verify_target_project_transfer_activation, acknowledge_project_transfer_cleanup, AtStep,
           consume_project_transfer_proof, retire_source_project_transfer, UnlinkArchive, complete_project_transfer_request
  <1>2. landed # 0 /\ src.phase \in Bound
    BY DEF verify_target_project_transfer_activation, acknowledge_project_transfer_cleanup, AtStep,
           consume_project_transfer_proof, retire_source_project_transfer, UnlinkArchive, complete_project_transfer_request,
           IInv, KeepInv, PhaseInv, Erasing, Bound
  <1>3. /\ src \in SrcRows /\ proj \in ProjRows
        /\ relay \in [link : Nat, admission : Nat, boundary : Nat, proof : Nat, ack : BOOLEAN]
    BY DEF IInv, SourceType
  <1>4. src' \in SrcRows /\ src'.phase \in Bound /\ src'.fence = src.fence /\ src'.archive = src.archive
    BY <1>2, <1>3 DEF verify_target_project_transfer_activation, acknowledge_project_transfer_cleanup, AtStep,
           consume_project_transfer_proof, retire_source_project_transfer, UnlinkArchive, complete_project_transfer_request,
           SrcRows, Bound, SourcePhases
  <1>5. /\ proj' \in ProjRows /\ proj'.head = proj.head /\ proj'.home = proj.home
        /\ proj'.working = proj.working /\ proj'.watching = proj.watching
    BY <1>3 DEF verify_target_project_transfer_activation, acknowledge_project_transfer_cleanup, AtStep,
           consume_project_transfer_proof, retire_source_project_transfer, UnlinkArchive, complete_project_transfer_request,
           ProjRows
  <1>6. file' \in {0, file} /\ cmd' \in Erasing \cup {"idle"}
    BY DEF verify_target_project_transfer_activation, acknowledge_project_transfer_cleanup, AtStep,
           consume_project_transfer_proof, retire_source_project_transfer, UnlinkArchive, complete_project_transfer_request,
           Erasing
  <1>7. /\ relay'.proof = relay.proof
        /\ relay' \in [link : Nat, admission : Nat, boundary : Nat, proof : Nat, ack : BOOLEAN]
    BY <1>3 DEF verify_target_project_transfer_activation, acknowledge_project_transfer_cleanup, AtStep,
           consume_project_transfer_proof, retire_source_project_transfer, UnlinkArchive, complete_project_transfer_request
  <1> QED BY <1>1, <1>2, <1>4, <1>5, <1>6, <1>7, ErasureKeeps

LEMMA SourceDiesKeeps ==
    ASSUME IInv, SourceDies
    PROVE  IInv'
  <1>1. /\ cmd' = "idle" /\ proj' = [proj EXCEPT !.working = FALSE]
        /\ UNCHANGED <<src, file, targetVars, relay, landed, inbox>>
    BY DEF SourceDies, targetVars
  <1>2. budget' \in [Events -> Nat]
    BY SpendType DEF SourceDies, IInv, SourceType, Events
  <1>3. /\ proj' \in ProjRows /\ proj'.head = proj.head /\ proj'.home = proj.home /\ proj'.retired = proj.retired
        /\ Quiet => Quiet'
    BY <1>1 DEF IInv, SourceType, ProjRows, Quiet
  <1>4. SourceType'
    BY <1>1, <1>2, <1>3 DEF IInv, SourceType, Settings
  <1>5. PhaseInv'
    BY <1>1, <1>3 DEF IInv, PhaseInv, Erasing
  <1>6. KeepInv'
    BY <1>1, <1>3 DEF IInv, KeepInv, Erasing
  <1> QED BY <1>1, <1>4, <1>5, <1>6, SourceStepKeeps DEF SourceInv

-----------------------------------------------------------------------------
(* The preparation and the receipts of the target. *)

(* A step on the request alone. *)
LEMMA ReceiptKeeps ==
    ASSUME IInv, UNCHANGED <<sourceVars, saved, landed, inbox, run>>, TargetInv(tgt)',
           tgt'.import = tgt.import, tgt'.imported = tgt.imported,
           minted' \in [requests : Nat, reviews : Nat, leases : Nat], budget' \in [Events -> Nat],
           relay' \in [link : Nat, admission : Nat, boundary : Nat, proof : Nat, ack : BOOLEAN],
           relay'.proof # 0 => landed # 0
    PROVE  IInv'
  <1>1. UNCHANGED src
    BY DEF sourceVars
  <1>2. TargetInv(saved)'
    BY <1>1, SavedKept DEF IInv
  <1>3. RunInv'
    BY DEF IInv, RunInv
  <1>4. landed \in Nat /\ (landed # 0 => landed = src.archive) /\ (inbox # 0 => inbox = src.archive)
    BY DEF IInv, SourceType, KeepInv
  <1> QED BY <1>2, <1>3, <1>4, TargetStepKeeps

LEMMA TargetTypes ==
    ASSUME IInv
    PROVE  /\ tgt \in TgtRows /\ minted \in [requests : Nat, reviews : Nat, leases : Nat] /\ budget \in [Events -> Nat]
           /\ relay \in [link : Nat, admission : Nat, boundary : Nat, proof : Nat, ack : BOOLEAN]
           /\ relay.proof # 0 => landed # 0
  BY DEF IInv, TargetInv, RunInv, SourceType, KeepInv

LEMMA ProvisionKeeps ==
    ASSUME IInv, provision_start \/ _final_review \/ _prepare_key \/ _repository_failure
    PROVE  IInv'
  <1>1. UNCHANGED <<sourceVars, saved, landed, inbox, run, relay, src>>
    BY DEF provision_start, _final_review, _prepare_key, _repository_failure, ProvisionStep, sourceVars
  <1>2. minted' \in [requests : Nat, reviews : Nat, leases : Nat] /\ budget' \in [Events -> Nat]
    <2>1. budget' \in [Events -> Nat]
      BY TargetTypes, SpendType DEF provision_start, _final_review, _prepare_key, _repository_failure, Events
    <2>2. minted' \in [requests : Nat, reviews : Nat, leases : Nat]
      BY TargetTypes DEF provision_start, _final_review, _prepare_key, _repository_failure
    <2> QED BY <2>1, <2>2
  <1>3. /\ tgt.status # "completed" /\ tgt' \in TgtRows /\ tgt'.phase = tgt.phase /\ tgt'.resume = tgt.resume
        /\ tgt'.archive = tgt.archive /\ tgt'.import = tgt.import /\ tgt'.imported = tgt.imported
        /\ tgt'.registered = tgt.registered
    <2>1. CASE provision_start
      BY <2>1, TargetTypes DEF provision_start, Statuses, TgtRows
    <2>2. CASE _final_review
      <3>1. PICK n \in Nat : n = minted.reviews + 1
        BY TargetTypes
      <3>2. tgt' = [tgt EXCEPT !.status = "ready_for_review", !.review = n] /\ tgt.status = "setup_in_progress"
        BY <2>2, <3>1 DEF _final_review
      <3> QED BY <3>2, TargetTypes DEF Statuses, TgtRows
    <2>3. CASE _prepare_key
      BY <2>3, TargetTypes DEF _prepare_key, Statuses, TgtRows
    <2>4. CASE _repository_failure
      BY <2>4, TargetTypes DEF _repository_failure, Statuses, TgtRows
    <2> QED BY <2>1, <2>2, <2>3, <2>4
  <1>4. TargetInv(tgt)'
    BY <1>1, <1>3, TargetTypes DEF IInv, TargetInv, RequestPhase
  <1> QED BY <1>1, <1>2, <1>3, <1>4, TargetTypes, ReceiptKeeps

LEMMA TargetReceiptsKeep ==
    ASSUME IInv, \/ create_target_project_transfer_request \/ record_target_project_transfer_admission
                 \/ ReadTarget \/ accept_source_project_transfer_release \/ bind_target_archive
                 \/ retrieve_target_activation_proof \/ accept_project_transfer_cleanup_acknowledgment
                 \/ reenter_restored_target_project_transfer
    PROVE  IInv'
  <1>1. UNCHANGED <<sourceVars, saved, landed, inbox, run, budget, src>>
    BY DEF create_target_project_transfer_request, record_target_project_transfer_admission, ReadTarget,
           accept_source_project_transfer_release, bind_target_archive, retrieve_target_activation_proof,
           accept_project_transfer_cleanup_acknowledgment, reenter_restored_target_project_transfer, TargetStep, sourceVars
  <1>2. minted' \in [requests : Nat, reviews : Nat, leases : Nat]
    BY TargetTypes
       DEF create_target_project_transfer_request, record_target_project_transfer_admission, ReadTarget,
           accept_source_project_transfer_release, bind_target_archive, retrieve_target_activation_proof,
           accept_project_transfer_cleanup_acknowledgment, reenter_restored_target_project_transfer
  <1>3. /\ relay' \in [link : Nat, admission : Nat, boundary : Nat, proof : Nat, ack : BOOLEAN]
        /\ relay'.proof # 0 => landed # 0
    <2>1. CASE UNCHANGED relay
      BY <2>1, TargetTypes
    <2>2. CASE ReadTarget
      BY <2>2, TargetTypes DEF ReadTarget, TgtRows
    <2>3. CASE retrieve_target_activation_proof
      <3>1. landed # 0
        BY <2>3 DEF retrieve_target_activation_proof, IInv, TargetInv, RequestPhase
      <3> QED BY <2>3, <3>1, TargetTypes DEF retrieve_target_activation_proof, TgtRows
    <2> QED BY <2>1, <2>2, <2>3
       DEF create_target_project_transfer_request, record_target_project_transfer_admission,
           accept_source_project_transfer_release, bind_target_archive,
           accept_project_transfer_cleanup_acknowledgment, reenter_restored_target_project_transfer
  <1>4. TargetInv(tgt)' /\ tgt'.import = tgt.import /\ tgt'.imported = tgt.imported
    <2>1. CASE create_target_project_transfer_request
      <3>1. PICK n \in Nat : n = minted.requests + 1
        BY TargetTypes
      <3>2. tgt' = [tgt EXCEPT !.phase = "linked", !.made = n] /\ tgt.phase = "none"
        BY <2>1, <3>1 DEF create_target_project_transfer_request
      <3> QED BY <1>1, <3>2, TargetTypes DEF IInv, TargetInv, TgtRows, RequestPhase, TargetPhases
    <2>2. CASE record_target_project_transfer_admission
      BY <1>1, <2>2, TargetTypes DEF record_target_project_transfer_admission, IInv, TargetInv, TgtRows, RequestPhase, TargetPhases
    <2>3. CASE UNCHANGED tgt
      BY <1>1, <2>3, TgtKept DEF IInv
    <2>4. CASE accept_source_project_transfer_release
      BY <1>1, <2>4, TargetTypes DEF accept_source_project_transfer_release, IInv, TargetInv, TgtRows, RequestPhase, TargetPhases
    <2>5. CASE bind_target_archive
      <3>1. src.archive \in Nat
        BY DEF IInv, SourceType, SrcRows
      <3> QED BY <1>1, <2>5, <3>1, TargetTypes DEF bind_target_archive, IInv, TargetInv, TgtRows, RequestPhase, TargetPhases
    <2>6. CASE retrieve_target_activation_proof
      BY <1>1, <2>6, TargetTypes DEF retrieve_target_activation_proof, IInv, TargetInv, TgtRows, RequestPhase
    <2>7. CASE accept_project_transfer_cleanup_acknowledgment
      BY <1>1, <2>7, TargetTypes DEF accept_project_transfer_cleanup_acknowledgment, IInv, TargetInv, TgtRows, RequestPhase, TargetPhases
    <2>8. CASE reenter_restored_target_project_transfer
      <3>1. PICK n \in Nat : n = minted.leases + 1
        BY TargetTypes
      <3>2. /\ tgt' = [tgt EXCEPT !.phase = "archive_bound", !.resume = "none", !.pinned = tgt.review,
                                  !.upload = "active", !.lease = n]
            /\ tgt.phase = "operator_action_needed" /\ tgt.resume = "archive_bound" /\ tgt.status = "ready_for_review"
        BY <2>8, <3>1 DEF reenter_restored_target_project_transfer
      <3> QED BY <1>1, <3>2, TargetTypes DEF IInv, TargetInv, TgtRows, RequestPhase, TargetPhases
    <2> QED BY <2>1, <2>2, <2>3, <2>4, <2>5, <2>6, <2>7, <2>8 DEF ReadTarget
  <1> QED BY <1>1, <1>2, <1>3, <1>4, TargetTypes, ReceiptKeeps

-----------------------------------------------------------------------------
(* The import commands. *)

LEMMA HolderAlone ==
    ASSUME IInv, NEW c \in Commands, run[c].pc \in Holding
    PROVE  ~Busy(c)
  BY DEF IInv, RunInv, Busy, Holding

(* One command goes on: alone, or without touching what another one counts on. *)
LEMMA RunMoves ==
    ASSUME IInv, NEW c \in Commands, NEW row \in RunRows, run' = [run EXCEPT ![c] = row], inbox' \in Nat,
           minted' \in [requests : Nat, reviews : Nat, leases : Nat],
           row.pc \in Holding => ~Busy(c),
           row.pc \in {"staged", "importing", "imported"} => inbox' # 0,
           row.pc \in {"importing", "imported"} => tgt'.import # "none" /\ tgt'.imported = row.review,
           ~Busy(c) \/ (inbox # 0 => inbox' # 0),
           ~Busy(c) \/ (tgt'.import = tgt.import /\ tgt'.imported = tgt.imported)
    PROVE  RunInv'
  <1>1. /\ run \in [Commands -> RunRows]
        /\ \A d \in Commands, e \in Commands : run[d].pc \in Holding /\ run[e].pc \in Holding => d = e
        /\ \A d \in Commands :
              /\ run[d].pc \in {"staged", "importing", "imported"} => inbox # 0
              /\ run[d].pc \in {"importing", "imported"} => tgt.import # "none" /\ tgt.imported = run[d].review
    BY DEF IInv, RunInv
  <1>2. run' \in [Commands -> RunRows] /\ run'[c] = row /\ \A d \in Commands : d # c => run'[d] = run[d]
    BY <1>1
  <1>3. ~Busy(c) => \A d \in Commands : d # c => run[d].pc \notin Holding
    BY DEF Busy, Holding
  <1>4. {"staged", "importing", "imported"} \subseteq Holding
    BY DEF Holding
  <1>5. \A d, e \in Commands : run'[d].pc \in Holding /\ run'[e].pc \in Holding => d = e
    BY <1>1, <1>2, <1>3
  <1>6. ASSUME NEW d \in Commands
        PROVE  /\ run'[d].pc \in {"staged", "importing", "imported"} => inbox' # 0
               /\ run'[d].pc \in {"importing", "imported"} => tgt'.import # "none" /\ tgt'.imported = run'[d].review
    <2>1. CASE d = c
      BY <1>2, <2>1
    <2>2. CASE d # c /\ ~Busy(c)
      BY <1>2, <1>3, <1>4, <2>2
    <2>3. CASE d # c /\ Busy(c)
      BY <1>1, <1>2, <2>3
    <2> QED BY <2>1, <2>2, <2>3
  <1> QED BY <1>2, <1>5, <1>6 DEF RunInv

(* What a command leaves alone. *)
LEMMA CommandKeeps ==
    ASSUME IInv, CommandStep, RunInv', TargetInv(tgt)', inbox' # 0 => inbox' = src.archive,
           landed' \in Nat, landed # 0 => landed' = landed, landed' # 0 => landed' = src.archive
    PROVE  IInv'
  <1>1. UNCHANGED <<sourceVars, saved, relay, budget>> /\ UNCHANGED src
    BY DEF CommandStep, sourceVars
  <1>2. TargetInv(saved)'
    BY <1>1, SavedKept DEF IInv
  <1>3. relay.proof # 0 => landed' # 0
    BY TargetTypes
  <1> QED BY <1>1, <1>2, <1>3, TargetStepKeeps, TargetTypes

LEMMA Arrivals ==
    ASSUME IInv
    PROVE  /\ landed \in Nat /\ (landed # 0 => landed = src.archive) /\ inbox \in Nat /\ (inbox # 0 => inbox = src.archive)
           /\ run \in [Commands -> RunRows] /\ Idle \in RunRows
  BY DEF IInv, SourceType, KeepInv, RunInv, RunRows, Idle

LEMMA FailsKeeps ==
    ASSUME IInv, NEW c \in Commands, Fails(c), CommandStep
    PROVE  IInv'
  <1>1. run' = [run EXCEPT ![c] = Idle] /\ UNCHANGED <<tgt, inbox, minted, landed>>
    BY DEF Fails
  <1>2. Idle.pc = "idle"
    BY DEF Idle
  <1>3. RunInv'
    BY <1>1, <1>2, Arrivals, TargetTypes, RunMoves DEF Holding
  <1>4. UNCHANGED src
    BY DEF CommandStep, sourceVars
  <1>5. TargetInv(tgt)'
    BY <1>1, <1>4, TgtKept DEF IInv
  <1> QED BY <1>1, <1>3, <1>5, Arrivals, CommandKeeps

(* A step of the command itself. *)
LEMMA GoesIs ==
    ASSUME IInv, NEW c \in Commands, NEW pc \in {"received", "uploaded", "importing", "imported", "committed"}, Goes(c, pc)
    PROVE  \E row \in RunRows : run' = [run EXCEPT ![c] = row] /\ row.pc = pc /\ row.review = run[c].review
  <1>1. PICK row : row = [run[c] EXCEPT !.pc = pc]
    OBVIOUS
  <1>2. row \in RunRows /\ row.pc = pc /\ row.review = run[c].review
    BY <1>1, Arrivals DEF RunRows
  <1>3. run' = [run EXCEPT ![c] = row]
    BY <1>1, Arrivals DEF Goes, RunRows
  <1> QED BY <1>2, <1>3

LEMMA UploadBegins ==
    ASSUME IInv, NEW c \in Commands, begin_target_project_transfer_upload(c)
    PROVE  IInv'
  <1>1. UNCHANGED <<inbox, landed>> /\ CommandStep /\ UNCHANGED src
    BY DEF begin_target_project_transfer_upload, CommandStep, sourceVars
  <1>2. /\ TargetInv(tgt)' /\ tgt'.import = tgt.import /\ tgt'.imported = tgt.imported
        /\ minted' \in [requests : Nat, reviews : Nat, leases : Nat]
    <2>1. CASE UNCHANGED <<tgt, minted>>
      BY <1>1, <2>1, TgtKept, TargetTypes DEF IInv
    <2>2. CASE /\ tgt.phase = "archive_bound" /\ minted' = [minted EXCEPT !.leases = @ + 1]
               /\ tgt' = [tgt EXCEPT !.upload = "active", !.lease = minted.leases + 1]
      <3>1. PICK n \in Nat : n = minted.leases + 1
        BY TargetTypes
      <3>2. tgt' = [tgt EXCEPT !.upload = "active", !.lease = n]
        BY <2>2, <3>1
      <3>3. TargetInv(tgt)' /\ tgt'.import = tgt.import /\ tgt'.imported = tgt.imported
        BY <1>1, <2>2, <3>2, TargetTypes DEF IInv, TargetInv, TgtRows, RequestPhase
      <3> QED BY <2>2, <3>3, TargetTypes
    <2> QED BY <2>1, <2>2 DEF begin_target_project_transfer_upload
  <1>3. PICK row : row = [pc |-> "planned", lease |-> tgt'.lease, upload |-> tgt'.upload, review |-> 0]
    OBVIOUS
  <1>4. row \in RunRows /\ row.pc = "planned" /\ run' = [run EXCEPT ![c] = row]
    <2>1. tgt' \in TgtRows
      BY <1>2 DEF TargetInv
    <2> QED BY <1>3, <2>1 DEF TgtRows, RunRows, begin_target_project_transfer_upload
  <1>5. RunInv'
    BY <1>1, <1>2, <1>4, Arrivals, RunMoves DEF Holding
  <1> QED BY <1>1, <1>2, <1>5, Arrivals, CommandKeeps

LEMMA UploadGoes ==
    ASSUME IInv, NEW c \in Commands, upload_target_transfer_archive(c)
    PROVE  IInv'
  <1>1. CommandStep /\ UNCHANGED src
    BY DEF upload_target_transfer_archive, CommandStep, sourceVars
  <1>2. CASE Fails(c)
    BY <1>1, <1>2, FailsKeeps
  <1>3. CASE /\ ~Busy(c) /\ inbox' = (IF run[c].upload = "active" THEN tgt.archive ELSE inbox)
             /\ Goes(c, "received") /\ UNCHANGED <<tgt, minted, landed>>
    <2>1. PICK row \in RunRows : run' = [run EXCEPT ![c] = row] /\ row.pc = "received"
      BY <1>3, GoesIs
    <2>2. inbox' \in Nat /\ (inbox' # 0 => inbox' = src.archive)
      BY <1>3, Arrivals DEF IInv, TargetInv, TgtRows
    <2>3. RunInv'
      BY <1>3, <2>1, <2>2, TargetTypes, RunMoves DEF Holding
    <2>4. TargetInv(tgt)'
      BY <1>1, <1>3, TgtKept DEF IInv
    <2> QED BY <1>1, <1>3, <2>2, <2>3, <2>4, Arrivals, CommandKeeps
  <1> QED BY <1>2, <1>3 DEF upload_target_transfer_archive

LEMMA UploadCompletes ==
    ASSUME IInv, NEW c \in Commands, complete_target_project_transfer_upload(c)
    PROVE  IInv'
  <1>1. CommandStep /\ UNCHANGED src
    BY DEF complete_target_project_transfer_upload, CommandStep, sourceVars
  <1>2. CASE Fails(c)
    BY <1>1, <1>2, FailsKeeps
  <1>3. CASE /\ tgt' = (IF tgt.upload = "active" THEN [tgt EXCEPT !.upload = "complete"] ELSE tgt)
             /\ Goes(c, "uploaded") /\ UNCHANGED <<inbox, minted, landed>>
    <2>1. PICK row \in RunRows : run' = [run EXCEPT ![c] = row] /\ row.pc = "uploaded"
      BY <1>3, GoesIs
    <2>2. TargetInv(tgt)' /\ tgt'.import = tgt.import /\ tgt'.imported = tgt.imported
      <3>1. CASE tgt' = tgt
        BY <1>1, <1>3, <3>1, TgtKept DEF IInv
      <3>2. CASE tgt.upload = "active" /\ tgt' = [tgt EXCEPT !.upload = "complete"]
        BY <1>1, <1>3, <3>2, TargetTypes DEF IInv, TargetInv, TgtRows, RequestPhase
      <3> QED BY <1>3, <3>1, <3>2
    <2>3. RunInv'
      BY <1>3, <2>1, <2>2, Arrivals, TargetTypes, RunMoves DEF Holding
    <2> QED BY <1>1, <1>3, <2>2, <2>3, Arrivals, CommandKeeps
  <1> QED BY <1>2, <1>3 DEF complete_target_project_transfer_upload

LEMMA ActivationBegins ==
    ASSUME IInv, NEW c \in Commands, activate(c)
    PROVE  IInv'
  <1>1. CommandStep /\ UNCHANGED src
    BY DEF activate, CommandStep, sourceVars
  <1>2. CASE Fails(c)
    BY <1>1, <1>2, FailsKeeps
  <1>3. ASSUME ~Busy(c), UNCHANGED <<tgt, inbox, minted, landed>>, NEW row \in RunRows, run' = [run EXCEPT ![c] = row],
               row.pc = "committed" \/ (row.pc = "staged" /\ inbox # 0)
        PROVE  IInv'
    <2>1. RunInv'
      BY <1>3, Arrivals, TargetTypes, RunMoves
    <2>2. TargetInv(tgt)'
      BY <1>1, <1>3, TgtKept DEF IInv
    <2> QED BY <1>1, <1>3, <2>1, <2>2, Arrivals, CommandKeeps
  <1>4. CASE ~Busy(c) /\ Goes(c, "committed") /\ UNCHANGED <<tgt, inbox, minted, landed>>
    <2>1. PICK row \in RunRows : run' = [run EXCEPT ![c] = row] /\ row.pc = "committed"
      BY <1>4, GoesIs
    <2> QED BY <1>3, <1>4, <2>1
  <1>5. CASE /\ ~Busy(c) /\ _require_ready_boundary /\ UNCHANGED <<tgt, inbox, minted, landed>>
             /\ run' = [run EXCEPT ![c].pc = "staged", ![c].review = tgt.review]
    <2>1. PICK row : row = [run[c] EXCEPT !.pc = "staged", !.review = tgt.review]
      OBVIOUS
    <2>2. row \in RunRows /\ row.pc = "staged"
      BY <2>1, Arrivals, TargetTypes DEF RunRows, TgtRows
    <2>3. run' = [run EXCEPT ![c] = row]
      BY <1>5, <2>1, Arrivals DEF RunRows
    <2>4. inbox # 0
      BY <1>5 DEF _require_ready_boundary, Importable, IInv, TargetInv, RequestPhase
    <2> QED BY <1>3, <1>5, <2>2, <2>3, <2>4
  <1> QED BY <1>2, <1>4, <1>5 DEF activate

LEMMA ImportGoes ==
    ASSUME IInv, NEW c \in Commands, begin_project_transfer_import(c) \/ complete_project_transfer_import(c)
    PROVE  IInv'
  <1>1. CommandStep /\ UNCHANGED src
    BY DEF begin_project_transfer_import, complete_project_transfer_import, CommandStep, sourceVars
  <1>2. CASE Fails(c)
    BY <1>1, <1>2, FailsKeeps
  <1>3. ASSUME run[c].pc \in {"staged", "importing"}, NEW pc \in {"importing", "imported"}, Goes(c, pc),
               UNCHANGED <<inbox, minted, landed>>, TargetInv(tgt)',
               tgt'.import # "none", tgt'.imported = run[c].review
        PROVE  IInv'
    <2>0. PICK to \in {"received", "uploaded", "importing", "imported", "committed"} : to = pc
      BY <1>3
    <2>1. PICK row \in RunRows : run' = [run EXCEPT ![c] = row] /\ row.pc = pc /\ row.review = run[c].review
      <3>1. Goes(c, to)
        BY <1>3, <2>0
      <3> QED BY <2>0, <3>1, GoesIs
    <2>2. ~Busy(c) /\ inbox # 0
      BY <1>3, HolderAlone DEF IInv, RunInv, Holding
    <2>3. RunInv'
      BY <1>3, <2>1, <2>2, Arrivals, TargetTypes, RunMoves
    <2> QED BY <1>1, <1>3, <2>3, Arrivals, CommandKeeps
  <1>4. CASE begin_project_transfer_import(c) /\ ~Fails(c)
    <2>1. /\ run[c].pc = "staged" /\ Importable /\ (tgt.import # "none" => tgt.imported = run[c].review)
          /\ tgt' = (IF tgt.import # "none" THEN tgt
                     ELSE [tgt EXCEPT !.import = "database_imported", !.imported = run[c].review])
          /\ Goes(c, "importing") /\ UNCHANGED <<inbox, minted, landed>>
      BY <1>4 DEF begin_project_transfer_import
    <2>2. TargetInv(tgt)' /\ tgt'.import # "none" /\ tgt'.imported = run[c].review
      <3>1. CASE tgt.import # "none"
        BY <1>1, <2>1, <3>1, TgtKept DEF IInv
      <3>2. CASE tgt.import = "none"
        <4>1. run[c].review \in Nat /\ ~tgt.registered /\ tgt.phase = "archive_bound"
          BY <2>1, Arrivals DEF Importable, IInv, TargetInv, RequestPhase, RunRows
        <4> QED BY <1>1, <2>1, <3>2, <4>1, TargetTypes DEF IInv, TargetInv, TgtRows, RequestPhase
      <3> QED BY <3>1, <3>2
    <2> QED BY <1>3, <2>1, <2>2
  <1>5. CASE complete_project_transfer_import(c) /\ ~Fails(c)
    <2>1. /\ run[c].pc = "importing" /\ tgt' = [tgt EXCEPT !.import = "complete"]
          /\ Goes(c, "imported") /\ UNCHANGED <<inbox, minted, landed>>
      BY <1>5 DEF complete_project_transfer_import
    <2>2. tgt.imported = run[c].review
      BY <2>1 DEF IInv, RunInv
    <2>3. TargetInv(tgt)' /\ tgt'.import # "none" /\ tgt'.imported = tgt.imported
      BY <1>1, <2>1, TargetTypes DEF IInv, TargetInv, TgtRows, RequestPhase
    <2> QED BY <1>3, <2>1, <2>2, <2>3
  <1> QED BY <1>2, <1>4, <1>5

LEMMA ActivationKeeps ==
    ASSUME IInv, NEW c \in Commands, activate_target_project_transfer(c)
    PROVE  IInv'
  <1>1. CommandStep /\ UNCHANGED src /\ run[c].pc = "imported"
    BY DEF activate_target_project_transfer, CommandStep, sourceVars
  <1>2. CASE Fails(c)
    BY <1>1, <1>2, FailsKeeps
  <1>3. CASE /\ Importable /\ StillReviewed(c)
             /\ tgt' = [tgt EXCEPT !.phase = "target_activated", !.status = "completed",
                                   !.upload = "consumed", !.registered = TRUE]
             /\ landed' = (IF landed = 0 THEN inbox ELSE landed)
             /\ Goes(c, "committed") /\ UNCHANGED <<inbox, minted>>
    <2>1. PICK row \in RunRows : run' = [run EXCEPT ![c] = row] /\ row.pc = "committed"
      BY <1>3, GoesIs
    <2>2. ~Busy(c) /\ inbox # 0 /\ tgt.imported = run[c].review
      BY <1>1, HolderAlone DEF IInv, RunInv, Holding
    <2>3. landed' # 0 /\ landed' \in Nat /\ (landed # 0 => landed' = landed) /\ landed' = src.archive
      BY <1>3, <2>2, Arrivals
    <2>4. /\ tgt.phase = "archive_bound" /\ tgt.resume = "none" /\ tgt.archive # 0 /\ tgt.archive = src.archive
          /\ tgt.imported = tgt.pinned /\ tgt.review = tgt.pinned
      BY <1>3, <2>2 DEF Importable, StillReviewed, IInv, TargetInv, RequestPhase
    <2>5. tgt' \in TgtRows
      BY <1>3, TargetTypes DEF TgtRows, TargetPhases, Statuses
    <2>6. TargetInv(tgt)'
      BY <1>1, <1>3, <2>3, <2>4, <2>5, TargetTypes DEF TargetInv, TgtRows, RequestPhase
    <2>7. RunInv'
      BY <1>3, <2>1, <2>2, Arrivals, TargetTypes, RunMoves
    <2> QED BY <1>1, <1>3, <2>3, <2>6, <2>7, Arrivals, CommandKeeps
  <1> QED BY <1>2, <1>3 DEF activate_target_project_transfer

LEMMA DiscardKeeps ==
    ASSUME IInv, NEW c \in Commands, DiscardInbox(c)
    PROVE  IInv'
  <1>1. CommandStep /\ UNCHANGED src /\ run[c].pc = "committed" /\ inbox' = 0 /\ run' = [run EXCEPT ![c] = Idle]
        /\ UNCHANGED <<tgt, minted, landed>>
    BY DEF DiscardInbox, CommandStep, sourceVars
  <1>2. Idle.pc = "idle" /\ ~Busy(c)
    BY <1>1, HolderAlone DEF Idle, Holding
  <1>3. RunInv'
    BY <1>1, <1>2, Arrivals, TargetTypes, RunMoves DEF Holding
  <1>4. TargetInv(tgt)'
    BY <1>1, TgtKept DEF IInv
  <1> QED BY <1>1, <1>3, <1>4, Arrivals, CommandKeeps

-----------------------------------------------------------------------------
(* Deaths, backups and restores of the target. *)

LEMMA NoRunIs == NoRun \in [Commands -> RunRows] /\ \A c \in Commands : NoRun[c].pc = "idle"
  BY DEF NoRun, Idle, RunRows

LEMMA TargetDiesKeeps ==
    ASSUME IInv, TargetDies
    PROVE  IInv'
  <1>1. run' = NoRun /\ UNCHANGED <<sourceVars, tgt, inbox, saved, relay, minted, landed, src>>
    BY DEF TargetDies, sourceVars
  <1>2. budget' \in [Events -> Nat]
    BY TargetTypes, SpendType DEF TargetDies, Events
  <1>3. RunInv'
    BY <1>1, NoRunIs, Arrivals, TargetTypes DEF RunInv, Holding
  <1>4. TargetInv(tgt)' /\ TargetInv(saved)'
    BY <1>1, TgtKept, SavedKept DEF IInv
  <1> QED BY <1>1, <1>2, <1>3, <1>4, Arrivals, TargetTypes, TargetStepKeeps

LEMMA BackupKeeps ==
    ASSUME IInv, Backup
    PROVE  IInv'
  <1>1. saved' = tgt /\ UNCHANGED <<sourceVars, tgt, inbox, run, relay, minted, landed, budget, src>>
    BY DEF Backup, sourceVars
  <1>2. RunInv'
    BY <1>1 DEF IInv, RunInv
  <1>3. TargetInv(tgt)'
    BY <1>1, TgtKept DEF IInv
  <1>4. TargetInv(saved)'
    BY <1>1, <1>3 DEF TargetInv, RequestPhase
  <1> QED BY <1>1, <1>2, <1>3, <1>4, Arrivals, TargetTypes, TargetStepKeeps

(* A detached database keeps its standing: what was registered stays registered. *)
LEMMA DetachKeeps ==
    ASSUME NEW s, TargetInv(s)
    PROVE  TargetInv(detach_project_transfers_for_restore(detach_project_provisioning_for_restore(s)))
  <1>1. PICK t : t = detach_project_provisioning_for_restore(s)
    OBVIOUS
  <1>2. TargetInv(t)
    <2>1. CASE s.status = "completed"
      BY <1>1, <2>1 DEF detach_project_provisioning_for_restore
    <2>2. CASE s.status # "completed"
      <3>1. t = [s EXCEPT !.status = "operator_action_needed", !.review = 0]
        BY <1>1, <2>2 DEF detach_project_provisioning_for_restore
      <3> QED BY <2>2, <3>1 DEF TargetInv, TgtRows, RequestPhase, Statuses
    <2> QED BY <2>1, <2>2
  <1>3. PICK u : u = detach_project_transfers_for_restore(t)
    OBVIOUS
  <1>4. TargetInv(u)
    <2>1. CASE t.phase \in {"none", "completed"}
      BY <1>2, <1>3, <2>1 DEF detach_project_transfers_for_restore
    <2>2. CASE t.phase \notin {"none", "completed"}
      <3>1. PICK up : up = IF t.upload \in {"active", "complete"} THEN "invalidated" ELSE t.upload
        OBVIOUS
      <3>2. PICK ph : ph = RequestPhase(t)
        OBVIOUS
      <3>3. u = [t EXCEPT !.phase = "operator_action_needed", !.resume = ph, !.upload = up]
        BY <1>3, <2>2, <3>1, <3>2 DEF detach_project_transfers_for_restore, RequestPhase
      <3>4. t \in TgtRows
        BY <1>2 DEF TargetInv
      <3>5. ph \in TargetPhases /\ ph # "none" /\ ph # "operator_action_needed"
        BY <1>2, <2>2, <3>2 DEF TargetInv, RequestPhase, TgtRows
      <3>6. up \in {"none", "active", "complete", "consumed", "invalidated"} /\ (t.upload = "consumed" => up = "consumed")
        BY <3>1, <3>4 DEF TgtRows
      <3>7. u \in TgtRows /\ RequestPhase(u) = ph
        <4>1. "operator_action_needed" \in TargetPhases
          BY DEF TargetPhases
        <4>2. u \in TgtRows
          BY <3>3, <3>4, <3>5, <3>6, <4>1, Zenon DEF TgtRows
        <4>3. u.phase = "operator_action_needed" /\ u.resume = ph
          BY <3>3, <3>4, Zenon DEF TgtRows
        <4> QED BY <4>2, <4>3 DEF RequestPhase
      <3> QED BY <1>2, <3>2, <3>3, <3>4, <3>5, <3>6, <3>7 DEF TargetInv, TgtRows
    <2> QED BY <2>1, <2>2
  <1> QED BY <1>1, <1>3, <1>4

LEMMA RestoreKeeps ==
    ASSUME IInv, Restore
    PROVE  IInv'
  <1>1. /\ inbox' = 0 /\ run' = NoRun /\ UNCHANGED <<sourceVars, saved, relay, minted, landed, src>>
        /\ tgt' = detach_project_transfers_for_restore(detach_project_provisioning_for_restore(saved))
    BY DEF Restore, sourceVars
  <1>2. budget' \in [Events -> Nat]
    BY TargetTypes, SpendType DEF Restore, Events
  <1>3. RunInv'
    BY <1>1, NoRunIs, Arrivals, TargetTypes DEF RunInv, Holding
  <1>4. TargetInv(saved)'
    BY <1>1, SavedKept DEF IInv
  <1>5. PICK s : s = saved
    OBVIOUS
  <1>6. PICK u : u = detach_project_transfers_for_restore(detach_project_provisioning_for_restore(s))
    OBVIOUS
  <1>7. TargetInv(u)
    BY <1>5, <1>6, DetachKeeps DEF IInv
  <1>8. tgt' = u
    BY <1>1, <1>5, <1>6
  <1>9. TargetInv(tgt)'
    BY <1>1, <1>7, <1>8 DEF TargetInv, RequestPhase
  <1> QED BY <1>1, <1>2, <1>3, <1>4, <1>9, Arrivals, TargetTypes, TargetStepKeeps

LEMMA NextKeeps == ASSUME IInv, [Next]_vars PROVE IInv'
  <1>1. CASE UNCHANGED vars
    <2>1. UNCHANGED <<sourceVars, tgt, inbox, saved, relay, minted, landed, src, budget, run>>
      BY <1>1 DEF vars, sourceVars
    <2>2. RunInv'
      BY <2>1 DEF IInv, RunInv
    <2>3. TargetInv(tgt)' /\ TargetInv(saved)'
      BY <2>1, TgtKept, SavedKept DEF IInv
    <2> QED BY <2>1, <2>2, <2>3, Arrivals, TargetTypes, TargetStepKeeps
  <1>2. CASE Work \/ Progress
    BY <1>2, WorkKeeps
  <1>3. CASE Receipts
    BY <1>3, SourceReceiptsKeep, TargetReceiptsKeep DEF Receipts
  <1>4. CASE SourceCommand
    BY <1>4, ReleaseKeeps, SettleKeeps, MoveKeeps, FenceKeeps, SealKeeps, BindKeeps, EraseKeeps DEF SourceCommand
  <1>5. ASSUME NEW c \in Commands, ImportCommand(c) PROVE IInv'
    BY <1>5, UploadBegins, UploadGoes, UploadCompletes, ActivationBegins, ImportGoes, ActivationKeeps, DiscardKeeps
       DEF ImportCommand
  <1>6. CASE Provisioning \/ Faults
    BY <1>6, ProvisionKeeps, SourceDiesKeeps, TargetDiesKeeps, BackupKeeps, RestoreKeeps DEF Provisioning, Faults
  <1> QED BY <1>1, <1>2, <1>3, <1>4, <1>5, <1>6 DEF Next

LEMMA InvariantHolds == Spec => []IInv
  BY InitKeeps, NextKeeps, PTL DEF Spec

-----------------------------------------------------------------------------
(* However work, edits, receipts, commands, deaths and restores interleave, a project that
   the target has registered is at work there only, on what was reviewed, and every archive
   of it holds its whole history. *)
THEOREM ProjectHasOneHome == Spec => []OneHome
  <1>1. IInv => OneHome
    <2> SUFFICES ASSUME IInv PROVE OneHome
      OBVIOUS
    <2>1. TypeOK
      <3>1. /\ tgt.phase = "operator_action_needed" <=> tgt.resume # "none"
            /\ tgt.phase \in {"target_activated", "completed"} => tgt.registered /\ tgt.upload = "consumed"
        BY DEF IInv, TargetInv, RequestPhase
      <3>2. src.phase \in {"archive_bound", "cleanup_acknowledged", "completed"} => src.archive = src.fence
        BY DEF IInv, PhaseInv, Bound, FencedPhases, Leaving
      <3>3. \A c \in Commands : run[c].pc \in {"idle", "planned", "received", "uploaded", "staged", "importing",
                                               "imported", "committed"}
        BY DEF IInv, RunInv, RunRows
      <3> QED BY <3>1, <3>2, <3>3, TargetTypes DEF TypeOK, IInv, SourceType, SrcRows, ProjRows, TgtRows, Settings
    <2>2. src.archive # 0 => src.phase \in Bound /\ src.archive = proj.head
      BY DEF IInv, PhaseInv
    <2>3. src.phase \in FencedPhases => proj.home = "target" /\ Quiet /\ src.phase \in Leaving
      BY DEF IInv, PhaseInv
    <2>4. tgt.archive # 0 => tgt.archive = src.archive
      BY DEF IInv, TargetInv
    <2>5. Bound \subseteq FencedPhases
      BY DEF Bound, FencedPhases, Leaving
    <2>6. ASSUME NEW a \in {file, src.archive, tgt.archive, inbox, landed} \ {0}
          PROVE  a = proj.head /\ ~proj.working /\ ~proj.watching
      <3>1. a = file \/ a = src.archive
        BY <2>4, Arrivals
      <3>2. a = proj.head /\ src.phase \in FencedPhases
        BY <2>2, <2>5, <3>1 DEF IInv, KeepInv
      <3> QED BY <2>3, <3>2 DEF Quiet
    <2>7. proj.retired \/ (src.archive # 0 /\ file = 0) => landed # 0
      BY <2>2 DEF IInv, KeepInv
    <2>8. tgt.registered => /\ src.phase \in Leaving /\ proj.home = "target" /\ ~proj.working
                            /\ tgt.imported = tgt.pinned /\ tgt.review = tgt.pinned
      <3>1. tgt.registered => landed # 0 /\ tgt.imported = tgt.pinned /\ tgt.review = tgt.pinned
        BY DEF IInv, TargetInv
      <3>2. landed # 0 => src.phase \in FencedPhases
        BY <2>2, <2>5, Arrivals
      <3> QED BY <2>3, <3>1, <3>2 DEF Quiet
    <2> QED BY <2>1, <2>6, <2>7, <2>8 DEF OneHome, ArchiveIsWhole
  <1> QED BY <1>1, InvariantHolds, PTL

-----------------------------------------------------------------------------
(* The handover. *)

(* Once it has arrived the project is the target's. *)
LEMMA ArrivedIsGone ==
    ASSUME IInv, landed # 0
    PROVE  proj.home = "target" /\ landed = proj.head
  BY DEF IInv, KeepInv, PhaseInv, SourceType, Bound, FencedPhases, Leaving, SrcRows, SourcePhases

LEMMA HomeSteps ==
    ASSUME IInv, [Next]_vars
    PROVE  [Home!Next]_Home!homeVars
  <1>1. CASE UNCHANGED <<proj, landed>>
    BY <1>1 DEF Home!homeVars
  <1>2. CASE UNCHANGED landed /\ proj'.home = proj.home /\ proj'.head = proj.head
    BY <1>2 DEF Home!homeVars
  <1>3. CASE TurnWrites \/ PersonWrites
    <2>1. UNCHANGED landed /\ proj.home = "source" /\ proj'.home = "source" /\ proj'.head = proj.head + 1
      BY <1>3 DEF TurnWrites, PersonWrites, WorkUnchanged, targetVars, IInv, SourceType, ProjRows
    <2>2. landed = 0
      BY <2>1, ArrivedIsGone
    <2>3. Home!Write
      BY <2>1, <2>2 DEF Home!Write
    <2> QED BY <2>3 DEF Home!Next
  <1>4. CASE transfer_project_home
    <2>1. UNCHANGED landed
      BY <1>4 DEF transfer_project_home, AtStep, targetVars
    <2>2. CASE proj.home = "source"
      <3>1. proj'.home = "target" /\ proj'.head = proj.head + 1
        BY <1>4, <2>2 DEF transfer_project_home, IInv, SourceType, ProjRows
      <3>2. landed = 0
        BY <2>2, ArrivedIsGone
      <3>3. Home!Depart
        BY <2>1, <2>2, <3>1, <3>2 DEF Home!Depart
      <3> QED BY <3>3 DEF Home!Next
    <2>3. CASE proj.home # "source"
      BY <1>1, <1>4, <2>1, <2>3 DEF transfer_project_home
    <2> QED BY <2>2, <2>3
  <1>5. ASSUME NEW c \in Commands, activate_target_project_transfer(c) PROVE [Home!Next]_Home!homeVars
    <2>1. UNCHANGED proj /\ run[c].pc = "imported"
      BY <1>5 DEF activate_target_project_transfer, CommandStep, sourceVars
    <2>2. CASE UNCHANGED landed
      BY <1>1, <2>1, <2>2
    <2>3. CASE landed = 0 /\ landed' = inbox
      <3>1. inbox # 0 /\ inbox = src.archive
        BY <2>1, Arrivals DEF IInv, RunInv
      <3>2. src.archive = proj.head /\ proj.home = "target"
        BY <3>1 DEF IInv, PhaseInv, Bound, FencedPhases, Leaving
      <3>3. Home!Arrive
        BY <2>1, <2>3, <3>1, <3>2 DEF Home!Arrive
      <3> QED BY <3>3 DEF Home!Next
    <2> QED BY <1>5, <2>2, <2>3 DEF activate_target_project_transfer, Fails
  <1>6. CASE UNCHANGED vars
    BY <1>1, <1>6 DEF vars
  <1>7. CASE Work \/ Progress
    <2>1. UNCHANGED landed
      BY <1>7 DEF Work, Progress, WorkUnchanged, start_agent_task, TurnWrites, PersonWrites, TurnEnds, pause_agent_task,
           resume_agent_task, create_watcher_notification_task, ConfigurationChanges, targetVars
    <2>2. CASE ~(TurnWrites \/ PersonWrites)
      <3>1. proj'.home = proj.home /\ proj'.head = proj.head
        BY <1>7, <2>2 DEF Work, Progress, start_agent_task, TurnEnds, pause_agent_task, ProjRows, IInv, SourceType,
           resume_agent_task, create_watcher_notification_task, ConfigurationChanges
      <3> QED BY <1>2, <2>1, <3>1
    <2> QED BY <1>3, <2>2
  <1>8. CASE Receipts
    BY <1>1, <1>8 DEF Receipts, link_source_project_transfer_request, accept_target_project_transfer_admission, SourceStep,
           read_source_project_transfer_release_boundary, targetVars, sourceVars, TargetStep,
           create_target_project_transfer_request, record_target_project_transfer_admission, ReadTarget,
           accept_source_project_transfer_release, bind_target_archive, retrieve_target_activation_proof,
           accept_project_transfer_cleanup_acknowledgment, reenter_restored_target_project_transfer
  <1>9. CASE SourceCommand
    <2>1. UNCHANGED landed
      BY <1>9 DEF SourceCommand, release_source_project_transfer_request, SettleSource, transfer_project_home, AtStep,
           mark_source_project_transfer_fenced, expose_source_proof, _capture_and_seal_source_archive, bind_source_archive,
           verify_target_project_transfer_activation, acknowledge_project_transfer_cleanup, consume_project_transfer_proof,
           retire_source_project_transfer, UnlinkArchive, complete_project_transfer_request, targetVars
    <2>2. CASE retire_source_project_transfer
      BY <1>2, <2>1, <2>2 DEF retire_source_project_transfer, IInv, SourceType, ProjRows
    <2>3. CASE UNCHANGED proj
      BY <1>1, <2>1, <2>3
    <2> QED BY <1>4, <1>9, <2>2, <2>3
       DEF SourceCommand, release_source_project_transfer_request, SettleSource, Raises,
           mark_source_project_transfer_fenced, expose_source_proof, _capture_and_seal_source_archive, bind_source_archive,
           verify_target_project_transfer_activation, acknowledge_project_transfer_cleanup, consume_project_transfer_proof,
           UnlinkArchive, complete_project_transfer_request
  <1>10. ASSUME NEW c \in Commands, ImportCommand(c) PROVE [Home!Next]_Home!homeVars
    <2>1. CASE UNCHANGED <<proj, landed>>
      BY <1>1, <2>1
    <2> QED BY <1>5, <1>10, <2>1
       DEF ImportCommand, begin_target_project_transfer_upload, upload_target_transfer_archive, CommandStep, sourceVars,
           complete_target_project_transfer_upload, activate, begin_project_transfer_import, Fails,
           complete_project_transfer_import, DiscardInbox
  <1>11. CASE Provisioning \/ Faults
    <2>1. CASE SourceDies
      BY <1>2, <2>1 DEF SourceDies, targetVars, IInv, SourceType, ProjRows
    <2> QED BY <1>1, <1>11, <2>1
       DEF Provisioning, Faults, provision_start, _final_review, _prepare_key, _repository_failure, ProvisionStep,
           TargetDies, Backup, Restore, sourceVars
  <1> QED BY <1>6, <1>7, <1>8, <1>9, <1>10, <1>11 DEF Next

(* The two servers, their commands and their backups implement the handover: the project
   is written at the source until it departs, and arrives once with all that was written. *)
THEOREM MoveIsAHandover == Spec => HomeSpec
  <1>1. Init => Home!Init
    BY DEF Init, Home!Init
  <1> QED BY <1>1, InvariantHolds, HomeSteps, PTL DEF Spec, HomeSpec, Home!Spec

-----------------------------------------------------------------------------
(* The replacement server. *)

(* The phases from the one named on. *)
Activated == {"activation_ready", "complete"}
RosterReviewed == {"member_roster_reviewed"} \cup Activated
AuthorityReviewed == {"authority_reviewed"} \cup RosterReviewed
Published == {"projects_published"} \cup AuthorityReviewed
Reconstructed == {"checkouts_reconstructed", "projects_publishing"} \cup Published
Rebinding == {"projects_rebinding"} \cup Reconstructed
CheckoutsReady == {"checkouts_ready"} \cup Rebinding
SqliteRestored == {"sqlite_restored", "checkouts_recovering"} \cup CheckoutsReady
Begun == {"archive_verified"} \cup SqliteRestored

RepoStates == {"none", "key_started", "key_ready", "checkout_ready"}
CommandSteps == {"idle", "stage", "journal", "install", "verify", "recover", "rebind", "publish",
                 "authority", "roster", "prepare", "activate", "commit", "committed", "undo"}

Journals == [phase : {"none"} \cup Begun, archive : Archives \cup {NoArchive},
             repo : [Projects -> RepoStates], bound : SUBSET Projects, published : SUBSET Projects,
             authority : BOOLEAN, roster : SUBSET Members]
Arguments == [archive : Archives \cup {NoArchive}, authority : BOOLEAN, roster : SUBSET Members,
              stale : SUBSET Members]
Units == [started : BOOLEAN, enabled : BOOLEAN]

Types ==
    /\ journal \in Journals
    /\ members \in SUBSET Members /\ live \in SUBSET Projects /\ seen \in SUBSET SUBSET Members
    /\ db \in {"none", "evolved"} \cup Archives
    /\ extra \in SUBSET {"locators", "sources", "runtime"}
    /\ srv \in {"none", "fenced", "opening", "open", "failed"}
    /\ checkout \in [Projects -> {"none", "clean", "bound"}]
    /\ command \in CommandSteps /\ args \in Arguments
    /\ unit \in Units
    /\ old \in BOOLEAN

(* No journal, no restore: the data directory and the unit are untouched. *)
JournalInv ==
    /\ journal.phase = "none" => /\ journal = NoJournal /\ db = "none"
                                 /\ ~unit.started /\ ~unit.enabled /\ srv = "none"
                                 /\ command \in {"idle", "stage", "journal"}
    /\ journal.phase # "none" => journal.archive \in Archives
    /\ command # "idle" => args.archive \in Archives

(* How far the journal is when the command is at a step. *)
StepInv ==
    /\ command \in {"verify", "recover"} => journal.phase \in SqliteRestored
    /\ command = "rebind" => journal.phase \in CheckoutsReady
    /\ command = "publish" => journal.phase \in Reconstructed
    /\ command = "authority" => journal.phase \in Published
    /\ command = "roster" => journal.phase \in AuthorityReviewed
    /\ command = "prepare" => journal.phase \in RosterReviewed
    /\ command \in {"activate", "commit", "committed", "undo"} => journal.phase \in Activated
    /\ command = "committed" => srv = "open"

(* The process and the journal: behind the fence the restore is unfinished, in the open it
   is complete, and only the commit step leads from one to the other. *)
ProcessInv ==
    /\ srv \in {"fenced", "failed"} => journal.phase = "activation_ready"
    /\ srv \in {"opening", "open"} => journal.phase = "complete"
    /\ srv = "opening" => command \in {"commit", "undo", "idle", "stage", "journal"} /\ ~unit.enabled
    /\ unit.enabled => journal.phase = "complete"

(* What the operator confirmed, and when. *)
ReviewInv ==
    /\ journal.authority <=> journal.phase \in AuthorityReviewed
    /\ journal.roster # {} <=> journal.phase \in RosterReviewed
    /\ journal.phase \in Activated => journal.roster = members
    /\ (journal.authority \/ args.authority) => ~old
    /\ journal.roster # {} => journal.roster \in seen
    /\ args.roster # {} => args.roster \in seen

(* The receipts and the phases they close. *)
ReceiptInv ==
    /\ \A p \in Projects : journal.repo[p] = "checkout_ready" => checkout[p] # "none"
    /\ \A p \in journal.bound : checkout[p] = "bound"
    /\ journal.bound # {} => journal.phase \in Rebinding
    /\ journal.phase \in Reconstructed => journal.bound = Projects
    /\ journal.published \subseteq live
    /\ journal.phase \in Published => journal.published = Projects
    /\ journal.phase \in SqliteRestored => db # "none"
    /\ db \in {"none", "evolved", journal.archive}

RestoreInv == Types /\ JournalInv /\ StepInv /\ ProcessInv /\ ReviewInv /\ ReceiptInv

-----------------------------------------------------------------------------
(* The phases in order. *)
LEMMA PhaseRange == {Phases[i] : i \in DOMAIN Phases} = Begun
  <1>1. DOMAIN Phases = 1..12
    BY DEF Phases
  <1>2. 1..12 = {1, 2, 3, 4, 5, 6, 7, 8, 9, 10, 11, 12}
    OBVIOUS
  <1>3. /\ Phases[1] = "archive_verified"
        /\ Phases[2] = "sqlite_restored"
        /\ Phases[3] = "checkouts_recovering"
        /\ Phases[4] = "checkouts_ready"
        /\ Phases[5] = "projects_rebinding"
        /\ Phases[6] = "checkouts_reconstructed"
        /\ Phases[7] = "projects_publishing"
        /\ Phases[8] = "projects_published"
        /\ Phases[9] = "authority_reviewed"
        /\ Phases[10] = "member_roster_reviewed"
        /\ Phases[11] = "activation_ready"
        /\ Phases[12] = "complete"
    BY DEF Phases
  <1> QED
    BY <1>1, <1>2, <1>3
    DEF Begun, SqliteRestored, CheckoutsReady, Rebinding, Reconstructed, Published, AuthorityReviewed,
        RosterReviewed, Activated

LEMMA RankIs ==
    ASSUME NEW k \in 1..12, NEW p, Phases[k] = p, \A i \in 1..12 : Phases[i] = p => i = k
    PROVE  Rank(p) = k
  <1>1. DOMAIN Phases = 1..12
    BY DEF Phases
  <1> QED BY <1>1 DEF Rank

LEMMA Ranks ==
    /\ Rank("archive_verified") = 1
    /\ Rank("sqlite_restored") = 2
    /\ Rank("checkouts_recovering") = 3
    /\ Rank("checkouts_ready") = 4
    /\ Rank("projects_rebinding") = 5
    /\ Rank("checkouts_reconstructed") = 6
    /\ Rank("projects_publishing") = 7
    /\ Rank("projects_published") = 8
    /\ Rank("authority_reviewed") = 9
    /\ Rank("member_roster_reviewed") = 10
    /\ Rank("activation_ready") = 11
    /\ Rank("complete") = 12
  <1>1. /\ Phases[1] = "archive_verified"
        /\ Phases[2] = "sqlite_restored"
        /\ Phases[3] = "checkouts_recovering"
        /\ Phases[4] = "checkouts_ready"
        /\ Phases[5] = "projects_rebinding"
        /\ Phases[6] = "checkouts_reconstructed"
        /\ Phases[7] = "projects_publishing"
        /\ Phases[8] = "projects_published"
        /\ Phases[9] = "authority_reviewed"
        /\ Phases[10] = "member_roster_reviewed"
        /\ Phases[11] = "activation_ready"
        /\ Phases[12] = "complete"
    BY DEF Phases
  <1>2. \A i \in 1..12 : i = 1 \/ i = 2 \/ i = 3 \/ i = 4 \/ i = 5 \/ i = 6
                         \/ i = 7 \/ i = 8 \/ i = 9 \/ i = 10 \/ i = 11 \/ i = 12
    OBVIOUS
  <1>3. Rank("archive_verified") = 1
    <2>1. \A i \in 1..12 : Phases[i] = "archive_verified" => i = 1
      BY <1>1, <1>2
    <2> QED BY <1>1, <2>1, RankIs
  <1>4. Rank("sqlite_restored") = 2
    <2>1. \A i \in 1..12 : Phases[i] = "sqlite_restored" => i = 2
      BY <1>1, <1>2
    <2> QED BY <1>1, <2>1, RankIs
  <1>5. Rank("checkouts_recovering") = 3
    <2>1. \A i \in 1..12 : Phases[i] = "checkouts_recovering" => i = 3
      BY <1>1, <1>2
    <2> QED BY <1>1, <2>1, RankIs
  <1>6. Rank("checkouts_ready") = 4
    <2>1. \A i \in 1..12 : Phases[i] = "checkouts_ready" => i = 4
      BY <1>1, <1>2
    <2> QED BY <1>1, <2>1, RankIs
  <1>7. Rank("projects_rebinding") = 5
    <2>1. \A i \in 1..12 : Phases[i] = "projects_rebinding" => i = 5
      BY <1>1, <1>2
    <2> QED BY <1>1, <2>1, RankIs
  <1>8. Rank("checkouts_reconstructed") = 6
    <2>1. \A i \in 1..12 : Phases[i] = "checkouts_reconstructed" => i = 6
      BY <1>1, <1>2
    <2> QED BY <1>1, <2>1, RankIs
  <1>9. Rank("projects_publishing") = 7
    <2>1. \A i \in 1..12 : Phases[i] = "projects_publishing" => i = 7
      BY <1>1, <1>2
    <2> QED BY <1>1, <2>1, RankIs
  <1>10. Rank("projects_published") = 8
    <2>1. \A i \in 1..12 : Phases[i] = "projects_published" => i = 8
      BY <1>1, <1>2
    <2> QED BY <1>1, <2>1, RankIs
  <1>11. Rank("authority_reviewed") = 9
    <2>1. \A i \in 1..12 : Phases[i] = "authority_reviewed" => i = 9
      BY <1>1, <1>2
    <2> QED BY <1>1, <2>1, RankIs
  <1>12. Rank("member_roster_reviewed") = 10
    <2>1. \A i \in 1..12 : Phases[i] = "member_roster_reviewed" => i = 10
      BY <1>1, <1>2
    <2> QED BY <1>1, <2>1, RankIs
  <1>13. Rank("activation_ready") = 11
    <2>1. \A i \in 1..12 : Phases[i] = "activation_ready" => i = 11
      BY <1>1, <1>2
    <2> QED BY <1>1, <2>1, RankIs
  <1>14. Rank("complete") = 12
    <2>1. \A i \in 1..12 : Phases[i] = "complete" => i = 12
      BY <1>1, <1>2
    <2> QED BY <1>1, <2>1, RankIs
  <1> QED BY <1>3, <1>4, <1>5, <1>6, <1>7, <1>8, <1>9, <1>10, <1>11, <1>12, <1>13, <1>14

(* What Reached asks, phase by phase. *)
LEMMA ReachedPhases ==
    ASSUME Types, JournalInv
    PROVE  /\ Present <=> journal.phase # "none"
           /\ Reached("sqlite_restored") <=> journal.phase \in SqliteRestored
           /\ Reached("checkouts_ready") <=> journal.phase \in CheckoutsReady
           /\ Reached("checkouts_reconstructed") <=> journal.phase \in Reconstructed
           /\ Reached("projects_published") <=> journal.phase \in Published
           /\ Reached("activation_ready") <=> journal.phase \in Activated
  <1>1. Present <=> journal.phase # "none"
    BY DEF JournalInv, Present, NoJournal
  <1>2. journal.phase \in {"none"} \cup Begun
    BY DEF Types, Journals
  <1>3. CASE journal.phase = "none"
    BY <1>1, <1>3 DEF Reached, SqliteRestored, CheckoutsReady, Rebinding, Reconstructed, Published,
                      AuthorityReviewed, RosterReviewed, Activated
  <1>4. CASE journal.phase # "none"
    BY <1>1, <1>2, <1>4, Ranks
    DEF Reached, Begun, SqliteRestored, CheckoutsReady, Rebinding, Reconstructed, Published,
        AuthorityReviewed, RosterReviewed, Activated
  <1> QED BY <1>1, <1>3, <1>4

(* The invariant says what the runs check. *)
LEMMA InvSound == RestoreInv => OneAuthority /\ NothingPartialServes
  <1> SUFFICES ASSUME RestoreInv PROVE OneAuthority /\ NothingPartialServes
    OBVIOUS
  <1>1. SRTypeOK
    BY PhaseRange DEF RestoreInv, Types, SRTypeOK, Journals
  <1>2. OneAuthority
    BY <1>1 DEF RestoreInv, OneAuthority, Acts, ProcessInv, ReviewInv, AuthorityReviewed, RosterReviewed,
                Activated
  <1>3. ReceiptsVouch
    BY ReachedPhases DEF RestoreInv, ReceiptInv, ReceiptsVouch
  <1>4. Acts => journal.phase \in Activated
    BY DEF RestoreInv, Acts, ProcessInv, Activated
  <1>5. ASSUME journal.phase \in Activated
        PROVE  journal.phase \in Published /\ journal.phase \in Reconstructed /\ journal.phase \in SqliteRestored
    BY <1>5 DEF SqliteRestored, CheckoutsReady, Rebinding, Reconstructed, Published, AuthorityReviewed,
                RosterReviewed
  <1>6. NothingPartialServes
    BY <1>3, <1>4, <1>5 DEF RestoreInv, Types, Journals, ReceiptInv, NothingPartialServes
  <1> QED BY <1>2, <1>6

(* Nothing is restored, nothing runs. *)
LEMMA InvInit == SRInit => RestoreInv
  <1> SUFFICES ASSUME SRInit PROVE RestoreInv
    OBVIOUS
  <1>1. Types
    BY DEF SRInit, Types, Journals, Arguments, NoJournal, NoArchive, RepoStates, CommandSteps, Units
  <1>2. JournalInv /\ StepInv /\ ProcessInv
    BY DEF SRInit, JournalInv, StepInv, ProcessInv, NoJournal
  <1>3. ReviewInv /\ ReceiptInv
    BY DEF SRInit, ReviewInv, ReceiptInv, NoJournal, SqliteRestored, CheckoutsReady, Rebinding,
           Reconstructed,
           Published, AuthorityReviewed, RosterReviewed, Activated
  <1> QED BY <1>1, <1>2, <1>3 DEF RestoreInv

-----------------------------------------------------------------------------
(* Writing one entry of the journal, and one flag of the unit. *)
LEMMA PhaseWritten ==
    ASSUME NEW j \in Journals, NEW q \in Begun
    PROVE  LET k == [j EXCEPT !.phase = q]
           IN  /\ k \in Journals /\ k.phase = q /\ k.archive = j.archive /\ k.repo = j.repo
               /\ k.bound = j.bound /\ k.published = j.published
               /\ k.authority = j.authority /\ k.roster = j.roster
  BY DEF Journals

LEMMA AuthorityWritten ==
    ASSUME NEW j \in Journals
    PROVE  LET k == [j EXCEPT !.phase = "authority_reviewed", !.authority = TRUE]
           IN  /\ k \in Journals /\ k.phase = "authority_reviewed" /\ k.archive = j.archive /\ k.repo = j.repo
               /\ k.bound = j.bound /\ k.published = j.published
               /\ k.authority = TRUE /\ k.roster = j.roster
  BY DEF Journals, Begun, SqliteRestored, CheckoutsReady, Rebinding, Reconstructed, Published,
         AuthorityReviewed

LEMMA RosterWritten ==
    ASSUME NEW j \in Journals, NEW r \in SUBSET Members
    PROVE  LET k == [j EXCEPT !.phase = "member_roster_reviewed", !.roster = r]
           IN  /\ k \in Journals /\ k.phase = "member_roster_reviewed" /\ k.archive = j.archive
               /\ k.repo = j.repo /\ k.bound = j.bound /\ k.published = j.published
               /\ k.authority = j.authority /\ k.roster = r
  BY DEF Journals, Begun, SqliteRestored, CheckoutsReady, Rebinding, Reconstructed, Published,
         AuthorityReviewed,
         RosterReviewed

LEMMA JournalCreated ==
    ASSUME NEW a \in Archives
    PROVE  LET k == [NoJournal EXCEPT !.phase = "archive_verified", !.archive = a]
           IN  /\ k \in Journals /\ k.phase = "archive_verified" /\ k.archive = a
               /\ k.repo = [p \in Projects |-> "none"] /\ k.bound = {} /\ k.published = {}
               /\ k.authority = FALSE /\ k.roster = {}
  BY DEF Journals, NoJournal, RepoStates, Begun

LEMMA UnitWritten ==
    ASSUME NEW u \in Units, NEW b \in BOOLEAN
    PROVE  /\ [started |-> b, enabled |-> b] \in Units
           /\ [u EXCEPT !.started = b] \in Units /\ [u EXCEPT !.started = b].started = b
           /\ [u EXCEPT !.started = b].enabled = u.enabled
           /\ [u EXCEPT !.enabled = b] \in Units /\ [u EXCEPT !.enabled = b].enabled = b
  BY DEF Units

(* What a step does not touch stays true. *)
LEMMA Untouched ==
    ASSUME RestoreInv
    PROVE  /\ UNCHANGED <<journal, db, command, args, unit, srv>> => JournalInv'
           /\ UNCHANGED <<journal, command, srv>> => StepInv'
           /\ UNCHANGED <<journal, command, unit, srv>> => ProcessInv'
           /\ UNCHANGED <<journal, members, args, seen, old>> => ReviewInv'
           /\ UNCHANGED <<journal, db, checkout, live>> => ReceiptInv'
  BY DEF RestoreInv, JournalInv, StepInv, ProcessInv, ReviewInv, ReceiptInv

(* The command goes on, or gives up, without having changed anything. *)
LEMMA CommandMoves ==
    ASSUME RestoreInv, UNCHANGED <<journal, dataVars, projVars, args, seen, unit, srv, old>>,
           command' \in CommandSteps,
           journal.phase = "none" => command' \in {"idle", "stage", "journal"},
           command' # "idle" => command # "idle",
           srv = "opening" => command' \in {"commit", "undo", "idle", "stage", "journal"},
           StepInv'
    PROVE  RestoreInv'
  <1>1. Types'
    BY DEF RestoreInv, Types, dataVars, projVars
  <1>2. JournalInv' /\ ProcessInv'
    BY DEF RestoreInv, JournalInv, ProcessInv, dataVars
  <1> QED BY <1>1, <1>2, Untouched DEF RestoreInv, dataVars, projVars

LEMMA CommandStops ==
    ASSUME RestoreInv, UNCHANGED <<journal, dataVars, projVars, args, seen, unit, srv, old>>, command' = "idle"
    PROVE  RestoreInv'
  BY CommandMoves DEF StepInv, CommandSteps

(* The command writes the next phase, with the machine as it is: nothing runs yet. *)
LEMMA PhaseAdvances ==
    ASSUME RestoreInv, NEW q \in Begun \ Activated, Phase(q), command' \in CommandSteps, command # "idle",
           journal.phase \in Begun \ Activated,
           UNCHANGED <<dataVars, projVars, args, seen, unit, srv, old>>,
           StepInv', ReceiptInv',
           q \in AuthorityReviewed <=> journal.phase \in AuthorityReviewed,
           q \in RosterReviewed <=> journal.phase \in RosterReviewed
    PROVE  RestoreInv'
  <1>1. /\ journal' \in Journals /\ journal'.phase = q /\ journal'.archive = journal.archive
        /\ journal'.authority = journal.authority /\ journal'.roster = journal.roster
    BY PhaseWritten DEF RestoreInv, Types, Phase
  <1>2. Types'
    BY <1>1 DEF RestoreInv, Types, dataVars, projVars
  <1>3. q # "none" /\ journal.phase # "none" /\ q # "complete"
    BY DEF Begun, SqliteRestored, CheckoutsReady, Rebinding, Reconstructed, Published,
        AuthorityReviewed, RosterReviewed, Activated
  <1>4. JournalInv'
    BY <1>1, <1>3 DEF RestoreInv, JournalInv, dataVars
  <1>5. ProcessInv'
    BY <1>1 DEF RestoreInv, ProcessInv, Types, Activated
  <1>6. ReviewInv'
    BY <1>1 DEF RestoreInv, ReviewInv, dataVars
  <1> QED BY <1>2, <1>4, <1>5, <1>6 DEF RestoreInv
LEMMA Step_stage_candidate == ASSUME RestoreInv, stage_candidate PROVE RestoreInv'
  BY CommandMoves DEF stage_candidate, At, Goto, Machine, World, StepInv, CommandSteps

LEMMA Step_journal_candidate == ASSUME RestoreInv, journal_candidate PROVE RestoreInv'
  <1> USE DEF journal_candidate, At, Goto, World
  <1>1. CASE ~Present /\ (db # "none" \/ extra # {})
    BY <1>1, CommandStops
  <1>2. CASE ~(~Present /\ (db # "none" \/ extra # {}))
    <2>1. /\ unit' = [started |-> FALSE, enabled |-> FALSE] /\ srv' = "none"
          /\ UNCHANGED <<dataVars, projVars, args, seen, old>>
          /\ command' \in {"idle", "install"} /\ args.archive \in Archives
      BY <1>2 DEF Fenced, RestoreInv, JournalInv
    <2>2. unit' \in Units /\ unit'.enabled = FALSE
      BY <2>1 DEF Units
    <2>3. CASE Present
      <3>1. journal' = journal /\ journal.phase # "none"
        BY <1>2, <2>3, ReachedPhases DEF RestoreInv
      <3>2. Types'
        BY <2>1, <2>2, <3>1 DEF RestoreInv, Types, dataVars, projVars, CommandSteps
      <3>3. JournalInv' /\ StepInv' /\ ProcessInv'
        BY <2>1, <2>2, <3>1 DEF RestoreInv, JournalInv, StepInv, ProcessInv
      <3> QED BY <2>1, <3>1, <3>2, <3>3, Untouched DEF RestoreInv, dataVars, projVars
    <2>4. CASE ~Present
      <3>1. /\ journal' = [NoJournal EXCEPT !.phase = "archive_verified", !.archive = args.archive]
            /\ journal.phase = "none" /\ db = "none"
        BY <1>2, <2>4, ReachedPhases DEF RestoreInv, JournalInv
      <3>2. /\ journal' \in Journals /\ journal'.phase = "archive_verified"
            /\ journal'.archive = args.archive /\ journal'.repo = [p \in Projects |-> "none"]
            /\ journal'.bound = {} /\ journal'.published = {}
            /\ journal'.authority = FALSE /\ journal'.roster = {}
        BY <2>1, <3>1, JournalCreated
      <3>3. Types'
        BY <2>1, <2>2, <3>2 DEF RestoreInv, Types, dataVars, projVars, CommandSteps
      <3>4. JournalInv' /\ StepInv' /\ ProcessInv'
        BY <2>1, <2>2, <3>2 DEF RestoreInv, JournalInv, StepInv, ProcessInv
      <3>5. ReviewInv'
        BY <2>1, <3>2 DEF RestoreInv, ReviewInv, AuthorityReviewed, RosterReviewed, Activated
      <3>6. ReceiptInv'
        BY <2>1, <3>1, <3>2 DEF ReceiptInv, dataVars, projVars, SqliteRestored, CheckoutsReady,
                                Rebinding,
                                Reconstructed, Published, AuthorityReviewed, RosterReviewed, Activated
      <3> QED BY <3>3, <3>4, <3>5, <3>6 DEF RestoreInv
    <2> QED BY <2>3, <2>4
  <1> QED BY <1>1, <1>2

LEMMA Step_LinkDatabase == ASSUME RestoreInv, LinkDatabase PROVE RestoreInv'
  <1> USE DEF LinkDatabase, At, World, projVars
  <1>1. journal.archive \in Archives /\ journal.phase = "archive_verified"
    BY DEF RestoreInv, JournalInv
  <1>2. Types' /\ JournalInv'
    BY <1>1 DEF RestoreInv, Types, JournalInv
  <1>3. ReceiptInv'
    BY <1>1 DEF RestoreInv, ReceiptInv, SqliteRestored, CheckoutsReady, Rebinding, Reconstructed, Published,
                AuthorityReviewed, RosterReviewed, Activated
  <1> QED BY <1>2, <1>3, Untouched DEF RestoreInv

LEMMA Step_install_sqlite_candidate == ASSUME RestoreInv, install_sqlite_candidate PROVE RestoreInv'
  <1> USE DEF install_sqlite_candidate, At, Goto, Machine, World
  <1>1. CASE command' = "idle"
    BY <1>1, CommandStops
  <1>2. CASE command' = "verify" /\ journal.phase # "archive_verified"
    <2>1. journal.phase \in SqliteRestored
      BY <1>2 DEF RestoreInv, Types, Journals, JournalInv, Begun
    <2>2. StepInv' /\ srv # "opening"
      BY <1>2, <2>1 DEF StepInv, RestoreInv, ProcessInv
    <2> QED BY <1>2, <2>1, <2>2, CommandMoves DEF CommandSteps, RestoreInv, JournalInv
  <1>3. CASE command' = "verify" /\ journal.phase = "archive_verified"
    <2>1. Phase("sqlite_restored") /\ db # "none"
      BY <1>3 DEF Restored
    <2>2. /\ "sqlite_restored" \in Begun \ Activated /\ journal.phase \in Begun \ Activated
          /\ "sqlite_restored" \notin AuthorityReviewed /\ journal.phase \notin AuthorityReviewed
          /\ "sqlite_restored" \notin RosterReviewed /\ journal.phase \notin RosterReviewed
      BY <1>3 DEF Begun, SqliteRestored, CheckoutsReady, Rebinding, Reconstructed, Published,
                  AuthorityReviewed, RosterReviewed, Activated
    <2>3. /\ journal'.phase = "sqlite_restored" /\ journal'.archive = journal.archive
          /\ journal'.repo = journal.repo /\ journal'.bound = journal.bound
          /\ journal'.published = journal.published
      BY <2>1, <2>2, PhaseWritten DEF Phase, RestoreInv, Types
    <2>4. StepInv'
      BY <1>3, <2>3 DEF StepInv, SqliteRestored
    <2>5. ReceiptInv'
      BY <1>3, <2>1, <2>3
      DEF RestoreInv, ReceiptInv, dataVars, projVars, CheckoutsReady, Rebinding, Reconstructed, Published,
          AuthorityReviewed, RosterReviewed, Activated
    <2> QED BY <1>3, <2>1, <2>2, <2>4, <2>5, PhaseAdvances DEF CommandSteps
  <1> QED BY <1>1, <1>2, <1>3

LEMMA Step_verify_offline_candidate == ASSUME RestoreInv, verify_offline_candidate PROVE RestoreInv'
  <1>1. /\ unit' = [started |-> FALSE, enabled |-> FALSE] /\ srv' = "none" /\ command = "verify"
        /\ UNCHANGED <<journal, dataVars, projVars, args, seen, old>> /\ command' \in {"idle", "recover"}
    BY DEF verify_offline_candidate, Fenced, At, Goto, World
  <1>2. unit' \in Units /\ unit'.enabled = FALSE
    BY <1>1 DEF Units
  <1>3. Types'
    BY <1>1, <1>2 DEF RestoreInv, Types, dataVars, projVars, CommandSteps
  <1>4. JournalInv' /\ StepInv' /\ ProcessInv'
    BY <1>1, <1>2 DEF RestoreInv, JournalInv, StepInv, ProcessInv
  <1> QED BY <1>1, <1>3, <1>4, Untouched DEF RestoreInv, dataVars, projVars

LEMMA Step_RecoverRepository ==
    ASSUME RestoreInv, NEW p \in Projects, RecoverRepository(p)
    PROVE  RestoreInv'
  <1> USE DEF RecoverRepository, At, World
  <1>1. PICK r : r = CheckoutProgress[journal.repo[p]]
    OBVIOUS
  <1>2. /\ journal.repo \in [Projects -> RepoStates] /\ journal \in Journals
        /\ checkout \in [Projects -> {"none", "clean", "bound"}] /\ journal.phase = "checkouts_recovering"
    BY DEF RestoreInv, Types, Journals
  <1>3. r \in RepoStates /\ (r = "checkout_ready" => journal.repo[p] = "key_ready")
    BY <1>1, <1>2 DEF CheckoutProgress, RepoStates
  <1>4. journal' = [journal EXCEPT !.repo = [journal.repo EXCEPT ![p] = r]]
    BY <1>1
  <1>5. /\ journal' \in Journals /\ journal'.phase = journal.phase /\ journal'.archive = journal.archive
        /\ journal'.repo = [journal.repo EXCEPT ![p] = r] /\ journal'.bound = journal.bound
        /\ journal'.published = journal.published /\ journal'.authority = journal.authority
        /\ journal'.roster = journal.roster
    BY <1>2, <1>3, <1>4 DEF Journals
  <1>6. /\ \A q \in Projects : checkout'[q] = IF q = p /\ journal.repo[p] = "key_ready" THEN "clean"
                                              ELSE checkout[q]
        /\ checkout' \in [Projects -> {"none", "clean", "bound"}]
    BY <1>2
  <1>7. Types'
    BY <1>5, <1>6 DEF RestoreInv, Types, dataVars
  <1>8. JournalInv' /\ StepInv' /\ ProcessInv' /\ ReviewInv'
    BY <1>2, <1>5 DEF RestoreInv, JournalInv, StepInv, ProcessInv, ReviewInv, dataVars
  <1>9. journal.bound = {}
    BY <1>2 DEF RestoreInv, ReceiptInv, Rebinding, Reconstructed, Published, AuthorityReviewed,
                RosterReviewed,
                Activated
  <1>10. \A q \in Projects : journal'.repo[q] = "checkout_ready" => checkout'[q] # "none"
    <2> SUFFICES ASSUME NEW q \in Projects, journal'.repo[q] = "checkout_ready"
                 PROVE  checkout'[q] # "none"
      OBVIOUS
    <2>1. CASE q = p
      BY <1>2, <1>3, <1>5, <1>6, <2>1
    <2>2. CASE q # p
      BY <1>2, <1>5, <1>6, <2>2 DEF RestoreInv, ReceiptInv
    <2> QED BY <2>1, <2>2
  <1>11. ReceiptInv'
    BY <1>5, <1>9, <1>10 DEF RestoreInv, ReceiptInv, dataVars
  <1> QED BY <1>7, <1>8, <1>11 DEF RestoreInv

LEMMA Step_RecoveryPauses == ASSUME RestoreInv, RecoveryPauses PROVE RestoreInv'
  BY CommandStops DEF RecoveryPauses, Goto

(* The phases of the checkouts. *)
LEMMA Step_recover_checkouts == ASSUME RestoreInv, recover_checkouts PROVE RestoreInv'
  <1> USE DEF recover_checkouts, At, Goto, Machine, World
  <1>1. ASSUME NEW q \in {"checkouts_recovering", "checkouts_ready"}, Phase(q), UNCHANGED command,
               journal.phase \in {"sqlite_restored", "checkouts_recovering"}
        PROVE  RestoreInv'
    <2>1. /\ q \in Begun \ Activated /\ journal.phase \in Begun \ Activated
          /\ q \notin AuthorityReviewed /\ journal.phase \notin AuthorityReviewed
          /\ q \notin RosterReviewed /\ journal.phase \notin RosterReviewed
          /\ q \in SqliteRestored /\ q \notin Reconstructed /\ q \notin Published
          /\ journal.phase \notin Rebinding /\ journal.phase \in SqliteRestored
      BY <1>1 DEF Begun, SqliteRestored, CheckoutsReady, Rebinding, Reconstructed, Published,
                  AuthorityReviewed, RosterReviewed, Activated
    <2>2. /\ journal'.phase = q /\ journal'.archive = journal.archive
          /\ journal'.repo = journal.repo /\ journal'.bound = journal.bound
          /\ journal'.published = journal.published
      BY <1>1, <2>1, PhaseWritten DEF Phase, RestoreInv, Types
    <2>3. StepInv'
      BY <1>1, <2>1, <2>2 DEF StepInv
    <2>4. ReceiptInv'
      BY <2>1, <2>2 DEF RestoreInv, ReceiptInv, dataVars, projVars
    <2>5. UNCHANGED <<dataVars, projVars, args, seen, unit, srv, old>>
      OBVIOUS
    <2> QED BY <1>1, <2>1, <2>3, <2>4, <2>5, PhaseAdvances DEF CommandSteps
  <1>2. CASE Reached("checkouts_ready") /\ Goto("rebind") /\ UNCHANGED journal
    <2>1. journal.phase \in CheckoutsReady
      BY <1>2, ReachedPhases DEF RestoreInv
    <2>2. StepInv' /\ srv # "opening"
      BY <1>2, <2>1 DEF StepInv, RestoreInv, ProcessInv
    <2> QED BY <1>2, <2>2, CommandMoves DEF CommandSteps, RestoreInv, JournalInv
  <1> QED BY <1>1, <1>2

LEMMA Step_RebindProject ==
    ASSUME RestoreInv, NEW p \in Projects, RebindProject(p)
    PROVE  RestoreInv'
  <1> USE DEF RebindProject, At, World
  <1>1. Types'
    BY DEF RestoreInv, Types
  <1>2. JournalInv'
    BY DEF RestoreInv, JournalInv
  <1>3. ReceiptInv'
    BY DEF RestoreInv, ReceiptInv, Types
  <1> QED BY <1>1, <1>2, <1>3, Untouched DEF RestoreInv

LEMMA Step_rebind_checkouts == ASSUME RestoreInv, rebind_checkouts PROVE RestoreInv'
  <1> USE DEF rebind_checkouts, At, Goto, Machine, World
  <1>1. ASSUME NEW q \in {"projects_rebinding", "checkouts_reconstructed"}, Phase(q), UNCHANGED command,
               journal.phase \in {"checkouts_ready", "projects_rebinding"},
               q = "checkouts_reconstructed" => journal.bound = Projects
        PROVE  RestoreInv'
    <2>1. /\ q \in Begun \ Activated /\ journal.phase \in Begun \ Activated
          /\ q \notin AuthorityReviewed /\ journal.phase \notin AuthorityReviewed
          /\ q \notin RosterReviewed /\ journal.phase \notin RosterReviewed
          /\ q \in SqliteRestored /\ q \in CheckoutsReady /\ q \in Rebinding /\ q \notin Published
          /\ journal.phase \in SqliteRestored /\ (q \in Reconstructed => q = "checkouts_reconstructed")
      BY <1>1 DEF Begun, SqliteRestored, CheckoutsReady, Rebinding, Reconstructed, Published,
                  AuthorityReviewed, RosterReviewed, Activated
    <2>2. /\ journal'.phase = q /\ journal'.archive = journal.archive
          /\ journal'.repo = journal.repo /\ journal'.bound = journal.bound
          /\ journal'.published = journal.published
      BY <1>1, <2>1, PhaseWritten DEF Phase, RestoreInv, Types
    <2>3. StepInv'
      BY <1>1, <2>1, <2>2 DEF StepInv
    <2>4. ReceiptInv'
      BY <1>1, <2>1, <2>2 DEF RestoreInv, ReceiptInv, dataVars, projVars
    <2>5. UNCHANGED <<dataVars, projVars, args, seen, unit, srv, old>>
      OBVIOUS
    <2> QED BY <1>1, <2>1, <2>3, <2>4, <2>5, PhaseAdvances DEF CommandSteps
  <1>2. ASSUME NEW p \in Projects \ journal.bound, journal.phase = "projects_rebinding",
               checkout[p] = "bound", UNCHANGED command,
               journal' = [journal EXCEPT !.bound = @ \cup {p}]
        PROVE  RestoreInv'
    <2>1. /\ journal' \in Journals /\ journal'.phase = journal.phase /\ journal'.archive = journal.archive
          /\ journal'.repo = journal.repo /\ journal'.bound = journal.bound \cup {p}
          /\ journal'.published = journal.published /\ journal'.authority = journal.authority
          /\ journal'.roster = journal.roster
      BY <1>2 DEF RestoreInv, Types, Journals
    <2>2. Types'
      BY <1>2, <2>1 DEF RestoreInv, Types, dataVars, projVars
    <2>3. JournalInv' /\ StepInv' /\ ProcessInv' /\ ReviewInv'
      BY <1>2, <2>1 DEF RestoreInv, JournalInv, StepInv, ProcessInv, ReviewInv, dataVars
    <2>4. ReceiptInv'
      BY <1>2, <2>1 DEF RestoreInv, Types, Journals, ReceiptInv, Rebinding, dataVars, projVars
    <2> QED BY <2>2, <2>3, <2>4 DEF RestoreInv
  <1>3. CASE Reached("checkouts_reconstructed") /\ Goto("publish") /\ UNCHANGED journal
    <2>1. journal.phase \in Reconstructed
      BY <1>3, ReachedPhases DEF RestoreInv
    <2>2. StepInv' /\ srv # "opening"
      BY <1>3, <2>1 DEF StepInv, RestoreInv, ProcessInv
    <2> QED BY <1>3, <2>2, CommandMoves DEF CommandSteps, RestoreInv, JournalInv
  <1> QED BY <1>1, <1>2, <1>3

LEMMA Step_PublishBytes ==
    ASSUME RestoreInv, NEW p \in Projects, PublishBytes(p)
    PROVE  RestoreInv'
  <1> USE DEF PublishBytes, At, World
  <1>1. Types'
    BY DEF RestoreInv, Types
  <1>2. ReceiptInv'
    BY DEF RestoreInv, ReceiptInv
  <1> QED BY <1>1, <1>2, Untouched DEF RestoreInv

LEMMA Step_publish_projects == ASSUME RestoreInv, publish_projects PROVE RestoreInv'
  <1> USE DEF publish_projects, At, Goto, Machine, World
  <1>1. ASSUME NEW q \in {"projects_publishing", "projects_published"}, Phase(q), UNCHANGED command,
               journal.phase \in {"checkouts_reconstructed", "projects_publishing"},
               q = "projects_published" => journal.published = Projects
        PROVE  RestoreInv'
    <2>1. /\ q \in Begun \ Activated /\ journal.phase \in Begun \ Activated
          /\ q \notin AuthorityReviewed /\ journal.phase \notin AuthorityReviewed
          /\ q \notin RosterReviewed /\ journal.phase \notin RosterReviewed
          /\ q \in SqliteRestored /\ q \in Rebinding /\ q \in Reconstructed
          /\ journal.phase \in SqliteRestored /\ journal.phase \in Reconstructed
          /\ q \in Published => q = "projects_published"
      BY <1>1 DEF Begun, SqliteRestored, CheckoutsReady, Rebinding, Reconstructed, Published,
                  AuthorityReviewed, RosterReviewed, Activated
    <2>2. /\ journal'.phase = q /\ journal'.archive = journal.archive
          /\ journal'.repo = journal.repo /\ journal'.bound = journal.bound
          /\ journal'.published = journal.published
      BY <1>1, <2>1, PhaseWritten DEF Phase, RestoreInv, Types
    <2>3. StepInv'
      BY <1>1, <2>1, <2>2 DEF StepInv
    <2>4. ReceiptInv'
      BY <1>1, <2>1, <2>2 DEF RestoreInv, ReceiptInv, dataVars, projVars
    <2>5. UNCHANGED <<dataVars, projVars, args, seen, unit, srv, old>>
      OBVIOUS
    <2> QED BY <1>1, <2>1, <2>3, <2>4, <2>5, PhaseAdvances DEF CommandSteps
  <1>2. ASSUME NEW p \in Projects \ journal.published, journal.phase = "projects_publishing",
               p \in live, UNCHANGED command,
               journal' = [journal EXCEPT !.published = @ \cup {p}]
        PROVE  RestoreInv'
    <2>1. /\ journal' \in Journals /\ journal'.phase = journal.phase /\ journal'.archive = journal.archive
          /\ journal'.repo = journal.repo /\ journal'.bound = journal.bound
          /\ journal'.published = journal.published \cup {p}
          /\ journal'.authority = journal.authority /\ journal'.roster = journal.roster
      BY <1>2 DEF RestoreInv, Types, Journals
    <2>2. Types'
      BY <1>2, <2>1 DEF RestoreInv, Types, dataVars, projVars
    <2>3. JournalInv' /\ StepInv' /\ ProcessInv' /\ ReviewInv'
      BY <1>2, <2>1 DEF RestoreInv, JournalInv, StepInv, ProcessInv, ReviewInv, dataVars
    <2>4. ReceiptInv'
      BY <1>2, <2>1 DEF RestoreInv, Types, Journals, ReceiptInv, Published, AuthorityReviewed, RosterReviewed,
                        Activated, dataVars, projVars
    <2> QED BY <2>2, <2>3, <2>4 DEF RestoreInv
  <1>3. CASE Reached("projects_published") /\ Goto("authority") /\ UNCHANGED journal
    <2>1. journal.phase \in Published
      BY <1>3, ReachedPhases DEF RestoreInv
    <2>2. StepInv' /\ srv # "opening"
      BY <1>3, <2>1 DEF StepInv, RestoreInv, ProcessInv
    <2> QED BY <1>3, <2>2, CommandMoves DEF CommandSteps, RestoreInv, JournalInv
  <1> QED BY <1>1, <1>2, <1>3

(* The review of the old server's authority: recorded only on a confirmation. *)
LEMMA Step_review_old_authority == ASSUME RestoreInv, review_old_authority PROVE RestoreInv'
  <1> USE DEF review_old_authority, At, Goto, Machine, World
  <1>1. CASE journal.authority /\ command' = "roster" /\ UNCHANGED journal
    <2>1. journal.phase \in AuthorityReviewed /\ srv # "opening"
      BY <1>1 DEF RestoreInv, ReviewInv, ProcessInv
    <2>2. StepInv'
      BY <1>1, <2>1 DEF StepInv
    <2> QED BY <1>1, <2>1, <2>2, CommandMoves DEF CommandSteps, RestoreInv, JournalInv
  <1>2. CASE command' = "idle" /\ UNCHANGED journal
    BY <1>2, CommandStops
  <1>3. CASE /\ ~journal.authority /\ args.authority /\ command' = "roster"
             /\ journal' = [journal EXCEPT !.phase = "authority_reviewed", !.authority = TRUE]
    <2>1. /\ journal' \in Journals /\ journal'.phase = "authority_reviewed"
          /\ journal'.archive = journal.archive /\ journal'.repo = journal.repo
          /\ journal'.bound = journal.bound /\ journal'.published = journal.published
          /\ journal'.authority = TRUE /\ journal'.roster = journal.roster
      BY <1>3, AuthorityWritten DEF RestoreInv, Types
    <2>2. journal.phase = "projects_published"
      BY <1>3 DEF RestoreInv, StepInv, ReviewInv, Published
    <2>3. srv = "none" /\ ~unit.enabled /\ ~old
      BY <1>3, <2>2 DEF RestoreInv, Types, ProcessInv, ReviewInv
    <2>4. Types'
      BY <1>3, <2>1 DEF RestoreInv, Types, dataVars, projVars, CommandSteps
    <2>5. JournalInv' /\ StepInv'
      BY <1>3, <2>1, <2>2 DEF RestoreInv, JournalInv, StepInv, AuthorityReviewed, dataVars
    <2>6. ProcessInv'
      BY <2>1, <2>3 DEF ProcessInv
    <2>7. ReviewInv'
      BY <2>1, <2>2, <2>3 DEF RestoreInv, ReviewInv, AuthorityReviewed, RosterReviewed, Activated, dataVars
    <2>8. ReceiptInv'
      BY <2>1, <2>2
      DEF RestoreInv, ReceiptInv, dataVars, projVars, SqliteRestored, CheckoutsReady, Rebinding,
          Reconstructed,
          Published, AuthorityReviewed
    <2> QED BY <2>4, <2>5, <2>6, <2>7, <2>8 DEF RestoreInv
  <1> QED BY <1>1, <1>2, <1>3

(* The roster: members go only while none is recorded, and what is recorded was displayed. *)
LEMMA Step_review_member_roster == ASSUME RestoreInv, review_member_roster PROVE RestoreInv'
  <1> USE DEF review_member_roster, At, Goto
  <1>0. UNCHANGED <<db, extra, projVars, unit, srv, args, old>> /\ command = "roster"
    BY DEF countVars
  <1>1. CASE journal.roster # {} /\ command' = "prepare" /\ UNCHANGED <<journal, members, seen>>
    <2>1. journal.phase \in RosterReviewed /\ srv # "opening"
      BY <1>0, <1>1 DEF RestoreInv, ReviewInv, ProcessInv
    <2>2. StepInv' /\ journal.phase # "none"
      BY <1>0, <1>1, <2>1 DEF StepInv, RosterReviewed, Activated
    <2>3. /\ UNCHANGED <<journal, dataVars, projVars, args, seen, unit, srv, old>>
          /\ command' \in CommandSteps /\ command # "idle"
      BY <1>0, <1>1 DEF CommandSteps, dataVars
    <2> QED BY <2>1, <2>2, <2>3, CommandMoves
  <1>2. CASE command' = "idle" /\ UNCHANGED <<journal, members, seen>>
    BY <1>0, <1>2, CommandStops DEF dataVars
  <1>3. CASE /\ journal.roster = {} /\ members' = members \ args.stale
             /\ seen' = seen \cup {members'} /\ command' = "idle" /\ UNCHANGED journal
    <2>1. Types'
      BY <1>0, <1>3 DEF RestoreInv, Types, projVars, CommandSteps
    <2>2. JournalInv' /\ StepInv' /\ ProcessInv'
      BY <1>0, <1>3 DEF RestoreInv, JournalInv, StepInv, ProcessInv
    <2>3. ReviewInv'
      BY <1>0, <1>3 DEF RestoreInv, ReviewInv, RosterReviewed
    <2> QED BY <1>0, <1>3, <2>1, <2>2, <2>3, Untouched DEF RestoreInv, projVars
  <1>4. CASE /\ journal.roster = {} /\ args.roster = members /\ members # {}
             /\ journal' = [journal EXCEPT !.phase = "member_roster_reviewed", !.roster = members]
             /\ command' = "prepare" /\ UNCHANGED <<members, seen>>
    <2>1. /\ journal' \in Journals /\ journal'.phase = "member_roster_reviewed"
          /\ journal'.archive = journal.archive /\ journal'.repo = journal.repo
          /\ journal'.bound = journal.bound /\ journal'.published = journal.published
          /\ journal'.authority = journal.authority /\ journal'.roster = members
      <3>1. journal \in Journals /\ members \in SUBSET Members
        BY DEF RestoreInv, Types
      <3> HIDE DEF review_member_roster
      <3> QED BY <1>4, <3>1, RosterWritten
    <2>2. journal.phase = "authority_reviewed"
      BY <1>0, <1>4 DEF RestoreInv, StepInv, ReviewInv, AuthorityReviewed
    <2>3. srv = "none" /\ ~unit.enabled
      BY <2>2 DEF RestoreInv, Types, ProcessInv
    <2>4. Types'
      BY <1>0, <1>4, <2>1 DEF RestoreInv, Types, projVars, CommandSteps
    <2>5. JournalInv' /\ StepInv'
      BY <1>0, <1>4, <2>1, <2>2 DEF RestoreInv, JournalInv, StepInv, RosterReviewed
    <2>6. ProcessInv'
      BY <1>0, <2>1, <2>3 DEF ProcessInv
    <2>7. ReviewInv'
      BY <1>0, <1>4, <2>1, <2>2 DEF RestoreInv, ReviewInv, AuthorityReviewed, RosterReviewed, Activated
    <2>8. ReceiptInv'
      BY <1>0, <2>1, <2>2
      DEF RestoreInv, ReceiptInv, projVars, SqliteRestored, CheckoutsReady, Rebinding, Reconstructed,
          Published,
          AuthorityReviewed, RosterReviewed
    <2> QED BY <2>4, <2>5, <2>6, <2>7, <2>8 DEF RestoreInv
  <1> QED BY <1>1, <1>2, <1>3, <1>4

LEMMA Step_prepare_activation == ASSUME RestoreInv, prepare_activation PROVE RestoreInv'
  <1> USE DEF prepare_activation, At, Goto, World
  <1>0. UNCHANGED <<dataVars, projVars, args, seen, old>> /\ command = "prepare"
    OBVIOUS
  <1>1. CASE Reached("activation_ready") /\ command' = "activate" /\ UNCHANGED <<journal, unit, srv>>
    <2>1. journal.phase \in Activated /\ srv # "opening"
      BY <1>0, <1>1, ReachedPhases DEF RestoreInv, ProcessInv
    <2>2. StepInv' /\ journal.phase # "none"
      BY <1>0, <1>1, <2>1 DEF StepInv, Activated
    <2> QED BY <1>0, <1>1, <2>1, <2>2, CommandMoves DEF CommandSteps
  <1>2. CASE command' = "idle" /\ UNCHANGED <<journal, unit, srv>>
    BY <1>0, <1>2, CommandStops
  <1>3. CASE /\ journal.phase = "member_roster_reviewed" /\ journal.roster = members
             /\ Fenced /\ Phase("activation_ready") /\ command' = "activate"
    <2>1. /\ journal' \in Journals /\ journal'.phase = "activation_ready"
          /\ journal'.archive = journal.archive /\ journal'.repo = journal.repo
          /\ journal'.bound = journal.bound /\ journal'.published = journal.published
          /\ journal'.authority = journal.authority /\ journal'.roster = journal.roster
      <3>1. "activation_ready" \in Begun
        BY DEF Begun, SqliteRestored, CheckoutsReady, Rebinding, Reconstructed, Published,
               AuthorityReviewed, RosterReviewed, Activated
      <3> QED BY <1>3, <3>1, PhaseWritten DEF RestoreInv, Types, Phase
    <2>2. unit' \in Units /\ unit'.enabled = FALSE /\ srv' = "none"
      BY <1>3 DEF Fenced, Units
    <2>3. Types'
      BY <1>0, <1>3, <2>1, <2>2 DEF RestoreInv, Types, dataVars, projVars, CommandSteps
    <2>4. JournalInv' /\ StepInv' /\ ProcessInv'
      BY <1>0, <1>3, <2>1, <2>2 DEF RestoreInv, JournalInv, StepInv, ProcessInv, Activated
    <2>5. ReviewInv'
      BY <1>0, <1>3, <2>1 DEF RestoreInv, ReviewInv, AuthorityReviewed, RosterReviewed, Activated, dataVars
    <2>6. ReceiptInv'
      BY <1>0, <1>3, <2>1
      DEF RestoreInv, ReceiptInv, dataVars, projVars, SqliteRestored, CheckoutsReady, Rebinding,
          Reconstructed,
          Published, AuthorityReviewed, RosterReviewed, Activated
    <2> QED BY <2>3, <2>4, <2>5, <2>6 DEF RestoreInv
  <1> QED BY <1>1, <1>2, <1>3

-----------------------------------------------------------------------------
(* Steps of the unit and the process: the data, the checkouts and the reviews stay. *)
LEMMA MachineMoves ==
    ASSUME RestoreInv, UNCHANGED <<journal, dataVars, projVars, args, seen, old>>,
           journal.phase # "none", command' \in CommandSteps, command' # "idle" => command # "idle",
           unit' \in Units, srv' \in {"none", "fenced", "opening", "open", "failed"},
           StepInv', ProcessInv'
    PROVE  RestoreInv'
  <1>1. Types' /\ JournalInv'
    BY DEF RestoreInv, Types, JournalInv, dataVars, projVars
  <1> QED BY <1>1, Untouched DEF RestoreInv, dataVars, projVars

LEMMA Step_activate_replacement == ASSUME RestoreInv, activate_replacement PROVE RestoreInv'
  <1>0. /\ UNCHANGED <<journal, dataVars, projVars, args, seen, old>>
        /\ command \in {"activate", "committed", "undo"} /\ command' \in {"idle", "commit"}
    BY DEF activate_replacement, World, At, Goto
  <1>1. journal.phase \in Activated /\ unit \in Units
    BY <1>0 DEF RestoreInv, StepInv, Types
  <1>2. StepInv'
    BY <1>0, <1>1 DEF StepInv
  <1>3. /\ unit' \in Units /\ srv' \in {"none", srv}
        /\ unit'.enabled => journal.phase = "complete" /\ srv' # "opening"
        /\ srv = "opening" => command' = "idle"
    <2>1. CASE At("activate") /\ journal.phase = "complete" /\ srv' = srv
               /\ unit' = [started |-> TRUE, enabled |-> TRUE]
      BY <2>1, UnitWritten, <1>1 DEF RestoreInv, ProcessInv, At
    <2>2. CASE At("activate") /\ journal.phase = "activation_ready" /\ srv' = srv
               /\ unit' = [unit EXCEPT !.started = TRUE]
      BY <2>2, UnitWritten, <1>1 DEF RestoreInv, ProcessInv, At
    <2>3. CASE At("committed") /\ unit' = [unit EXCEPT !.enabled = TRUE] /\ srv' = srv
      BY <2>3, UnitWritten, <1>1 DEF RestoreInv, ProcessInv, StepInv, At
    <2>4. CASE At("undo") /\ Fenced /\ command' = "idle"
      BY <2>4 DEF Fenced, Units
    <2> QED BY <2>1, <2>2, <2>3, <2>4 DEF activate_replacement, Goto
  <1>4. ProcessInv'
    BY <1>0, <1>3 DEF RestoreInv, ProcessInv
  <1>5. journal.phase # "none" /\ srv \in {"none", "fenced", "opening", "open", "failed"}
    BY <1>1 DEF Activated, RestoreInv, Types
  <1> QED BY <1>0, <1>2, <1>3, <1>4, <1>5, MachineMoves DEF CommandSteps

LEMMA Step_UndoActivation == ASSUME RestoreInv, UndoActivation PROVE RestoreInv'
  <1>1. StepInv' /\ journal.phase # "none"
    BY DEF RestoreInv, StepInv, UndoActivation, Goto, Activated
  <1> QED BY <1>1, CommandMoves DEF UndoActivation, Goto, CommandSteps

LEMMA Step_ActivationAnswered == ASSUME RestoreInv, ActivationAnswered PROVE RestoreInv'
  <1>1. StepInv'
    BY DEF RestoreInv, StepInv, ActivationAnswered, At, Goto, Machine
  <1> QED BY <1>1, CommandMoves DEF ActivationAnswered, At, Goto, Machine, World, CommandSteps

LEMMA Step_StartReplacement == ASSUME RestoreInv, StartReplacement PROVE RestoreInv'
  <1>1. /\ unit.started /\ srv = "none"
        /\ UNCHANGED <<journal, db, members, checkout, live, command, args, seen, unit, old>>
        /\ srv' = IF journal.phase = "activation_ready" THEN "fenced" ELSE "open"
        /\ extra' = extra \cup {"runtime"}
    BY DEF StartReplacement, projVars
  <1>2. journal.phase \in Activated
    <2>1. journal.phase # "none"
      BY <1>1 DEF RestoreInv, JournalInv
    <2> QED BY <2>1, ReachedPhases DEF RestoreInv, StartReplacement, MayStart, Activated
  <1>3. Types'
    BY <1>1 DEF RestoreInv, Types
  <1>4. JournalInv' /\ StepInv' /\ ProcessInv'
    BY <1>1, <1>2 DEF RestoreInv, JournalInv, StepInv, ProcessInv, Activated
  <1> QED BY <1>1, <1>3, <1>4, Untouched DEF RestoreInv

(* Between the two phases of the activation the reviews and receipts stay as they are. *)
LEMMA ActivationMoves ==
    ASSUME RestoreInv, NEW q \in Activated, Phase(q), journal.phase \in Activated,
           UNCHANGED <<dataVars, projVars, command, args, seen, unit, old>>,
           srv' \in {"opening", "failed"}, command # "committed",
           srv' = "opening" => q = "complete" /\ command = "commit" /\ ~unit.enabled,
           srv' = "failed" => q = "activation_ready" /\ ~unit.enabled
    PROVE  RestoreInv'
  <1>1. q \in Begun
    BY DEF Begun, SqliteRestored, CheckoutsReady, Rebinding, Reconstructed, Published,
           AuthorityReviewed,
           RosterReviewed
  <1>2. /\ journal' \in Journals /\ journal'.phase = q /\ journal'.archive = journal.archive
        /\ journal'.repo = journal.repo /\ journal'.bound = journal.bound
        /\ journal'.published = journal.published
        /\ journal'.authority = journal.authority /\ journal'.roster = journal.roster
    BY <1>1, PhaseWritten DEF RestoreInv, Types, Phase
  <1>3. Types'
    BY <1>2 DEF RestoreInv, Types, dataVars, projVars
  <1>4. JournalInv' /\ ProcessInv'
    BY <1>2 DEF RestoreInv, JournalInv, ProcessInv, Activated, dataVars
  <1>5. StepInv'
    BY <1>2 DEF RestoreInv, StepInv, SqliteRestored, CheckoutsReady, Rebinding, Reconstructed, Published,
                AuthorityReviewed, RosterReviewed
  <1>6. ReviewInv'
    BY <1>2 DEF RestoreInv, ReviewInv, AuthorityReviewed, RosterReviewed, dataVars
  <1>7. ReceiptInv'
    BY <1>2 DEF RestoreInv, ReceiptInv, dataVars, projVars, SqliteRestored, CheckoutsReady, Rebinding,
                Reconstructed, Published, AuthorityReviewed, RosterReviewed
  <1> QED BY <1>3, <1>4, <1>5, <1>6, <1>7 DEF RestoreInv

LEMMA Step_CommitActivation == ASSUME RestoreInv, CommitActivation PROVE RestoreInv'
  <1>1. CASE /\ At("commit") /\ srv = "fenced" /\ journal.phase = "activation_ready"
             /\ Phase("complete") /\ srv' = "opening"
    BY <1>1, ActivationMoves DEF CommitActivation, World, At, Activated, RestoreInv, ProcessInv
  <1>2. CASE srv = "opening" /\ srv' = "open" /\ UNCHANGED journal
    <2>1. StepInv' /\ ProcessInv'
      BY <1>2 DEF RestoreInv, StepInv, ProcessInv, CommitActivation
    <2>2. journal.phase # "none" /\ unit' \in Units /\ command' \in CommandSteps
      BY <1>2 DEF RestoreInv, Types, ProcessInv, CommitActivation
    <2> QED BY <1>2, <2>1, <2>2, MachineMoves DEF CommitActivation, World
  <1> QED BY <1>1, <1>2 DEF CommitActivation

LEMMA Step_RuntimeStartFails == ASSUME RestoreInv, RuntimeStartFails PROVE RestoreInv'
  BY ActivationMoves DEF RuntimeStartFails, Activated, RestoreInv, ProcessInv, StepInv

LEMMA Step_UncommittedStops == ASSUME RestoreInv, UncommittedStops PROVE RestoreInv'
  <1>1. /\ srv \in {"fenced", "opening", "failed"} /\ srv' = "none" /\ UNCHANGED command
        /\ unit' = [unit EXCEPT !.started = FALSE]
        /\ UNCHANGED <<journal, dataVars, projVars, args, seen, old>>
    BY DEF UncommittedStops
  <1>2. unit' \in Units /\ unit'.enabled = unit.enabled
    BY <1>1, UnitWritten DEF RestoreInv, Types
  <1>3. StepInv' /\ ProcessInv'
    BY <1>1, <1>2 DEF RestoreInv, StepInv, ProcessInv
  <1>4. journal.phase # "none" /\ command' \in CommandSteps
    BY <1>1 DEF RestoreInv, Types, ProcessInv
  <1> QED BY <1>1, <1>2, <1>3, <1>4, MachineMoves

-----------------------------------------------------------------------------
(* The operator. *)
LEMMA Step_Command ==
    ASSUME RestoreInv, NEW a \in Archives, NEW ok \in BOOLEAN, NEW roster \in SUBSET Members,
           NEW stale \in SUBSET Members, Command(a, ok, roster, stale)
    PROVE  RestoreInv'
  <1>1. PICK g : g = [archive |-> a, authority |-> ok, roster |-> roster, stale |-> stale]
    OBVIOUS
  <1>2. g \in Arguments /\ g.archive = a /\ g.authority = ok /\ g.roster = roster
    BY <1>1 DEF Arguments
  <1>3. /\ args' = g /\ command' = "stage" /\ (ok => ~old) /\ (roster # {} => roster \in seen)
        /\ UNCHANGED <<journal, dataVars, projVars, seen, unit, srv, old>>
    BY <1>1 DEF Command, Goto
  <1>4. Types'
    BY <1>2, <1>3 DEF RestoreInv, Types, dataVars, projVars, CommandSteps
  <1>5. JournalInv' /\ StepInv' /\ ProcessInv'
    BY <1>2, <1>3 DEF RestoreInv, JournalInv, StepInv, ProcessInv, dataVars
  <1>6. ReviewInv'
    BY <1>2, <1>3 DEF RestoreInv, ReviewInv, dataVars
  <1> QED BY <1>3, <1>4, <1>5, <1>6, Untouched DEF RestoreInv, dataVars, projVars

LEMMA Step_Resume == ASSUME RestoreInv, Resume PROVE RestoreInv'
  <1>1. PICK a : a = IF Present THEN journal.archive ELSE CHOOSE b \in Archives : TRUE
    OBVIOUS
  <1>2. a \in Archives
    BY <1>1, RestoreAssumption, ReachedPhases DEF RestoreInv, JournalInv
  <1>3. PICK r : r = IF members \in seen THEN members ELSE {}
    OBVIOUS
  <1>4. r \in SUBSET Members /\ (~old) \in BOOLEAN /\ {} \in SUBSET Members
    BY <1>3 DEF RestoreInv, Types
  <1>5. Command(a, ~old, r, {})
    BY <1>1, <1>3 DEF Resume
  <1> QED BY <1>2, <1>4, <1>5, Step_Command

LEMMA Step_StartByHand == ASSUME RestoreInv, StartByHand PROVE RestoreInv'
  <1>1. /\ unit' = [unit EXCEPT !.started = TRUE] /\ UNCHANGED <<command, srv>>
        /\ UNCHANGED <<journal, dataVars, projVars, args, seen, old>> /\ Present
    BY DEF StartByHand
  <1>2. unit' \in Units /\ unit'.enabled = unit.enabled
    BY <1>1, UnitWritten DEF RestoreInv, Types
  <1>3. StepInv' /\ ProcessInv'
    BY <1>1, <1>2 DEF RestoreInv, StepInv, ProcessInv
  <1>4. journal.phase # "none" /\ command' \in CommandSteps /\ srv' \in {"none", "fenced", "opening", "open", "failed"}
    BY <1>1, ReachedPhases DEF RestoreInv, Types
  <1> QED BY <1>1, <1>2, <1>3, <1>4, MachineMoves

LEMMA Step_ExcludeOldServer == ASSUME RestoreInv, ExcludeOldServer PROVE RestoreInv'
  <1>1. old' = FALSE /\ UNCHANGED <<journal, dataVars, projVars, command, args, seen, unit, srv>>
    BY DEF ExcludeOldServer
  <1>2. Types' /\ ReviewInv'
    BY <1>1 DEF RestoreInv, Types, ReviewInv, dataVars, projVars
  <1> QED BY <1>1, <1>2, Untouched DEF RestoreInv, dataVars, projVars

LEMMA Step_MachineReboots == ASSUME RestoreInv, MachineReboots PROVE RestoreInv'
  <1>1. /\ command' = "idle" /\ srv' = "none" /\ unit' = [unit EXCEPT !.started = unit.enabled]
        /\ UNCHANGED <<journal, dataVars, projVars, args, seen, old>> /\ unit \in Units
    BY DEF MachineReboots, Goto, RestoreInv, Types
  <1>2. unit.enabled \in BOOLEAN
    BY <1>1 DEF Units
  <1>3. unit' \in Units /\ unit'.enabled = unit.enabled
    BY <1>1, <1>2, UnitWritten
  <1>4. StepInv' /\ ProcessInv'
    BY <1>1, <1>3 DEF RestoreInv, StepInv, ProcessInv
  <1>5. CASE journal.phase # "none"
    BY <1>1, <1>3, <1>4, <1>5, MachineMoves DEF CommandSteps
  <1>6. CASE journal.phase = "none"
    <2>1. ~unit'.started /\ ~unit'.enabled
      BY <1>1, <1>2, <1>3, <1>6, UnitWritten DEF RestoreInv, JournalInv
    <2>2. Types' /\ JournalInv'
      BY <1>1, <1>3, <1>6, <2>1 DEF RestoreInv, Types, JournalInv, dataVars, projVars, CommandSteps
    <2> QED BY <1>1, <1>4, <2>2, Untouched DEF RestoreInv, dataVars, projVars
  <1> QED BY <1>5, <1>6

-----------------------------------------------------------------------------
LEMMA InvStep == RestoreInv /\ [SRNext]_srVars => RestoreInv'
  <1> SUFFICES ASSUME RestoreInv, [SRNext]_srVars PROVE RestoreInv'
    OBVIOUS
  <1>1. CASE Steps
    BY <1>1, Step_stage_candidate, Step_journal_candidate, Step_LinkDatabase,
       Step_install_sqlite_candidate,
       Step_verify_offline_candidate, Step_recover_checkouts, Step_rebind_checkouts,
       Step_publish_projects,
       Step_RecoverRepository, Step_RebindProject, Step_PublishBytes, Step_review_old_authority,
       Step_review_member_roster, Step_prepare_activation, Step_activate_replacement,
       Step_ActivationAnswered
    DEF Steps
  <1>2. CASE Process
    BY <1>2, Step_StartReplacement, Step_CommitActivation DEF Process
  <1>3. CASE Operator
    BY <1>3, Step_Command DEF Operator
  <1>4. CASE ActivationFails \/ ReplacementGone
    BY <1>4, Step_UndoActivation DEF ActivationFails, ReplacementGone
  <1>5. CASE CommandDies
    BY <1>5, CommandStops DEF CommandDies, Goto
  <1>6. CASE UNCHANGED srVars
    <2>1. Types'
      BY <1>6 DEF srVars, RestoreInv, Types, dataVars, projVars
    <2> QED BY <1>6, <2>1, Untouched DEF srVars, RestoreInv, dataVars, projVars
  <1> QED BY <1>1, <1>2, <1>3, <1>4, <1>5, <1>6, Step_Resume, Step_StartByHand, Step_ExcludeOldServer,
             Step_RecoveryPauses, Step_RuntimeStartFails, Step_UncommittedStops, Step_MachineReboots
          DEF SRNext

LEMMA Invariant == SRSpec => []RestoreInv
  BY InvInit, InvStep, PTL DEF SRSpec

(* For every archive, roster and set of projects, and however often the command is run, dies
   or is started over beside a machine that reboots: the replacement has effects only with
   the old server excluded and the roster it will authenticate confirmed as displayed
   (review_old_authority, review_member_roster, commit_restore_activation). *)
THEOREM ReplacementIsTheOneAuthority == SRSpec => []OneAuthority
  BY Invariant, InvSound, PTL

(* And what acts is the whole archive, with no receipt ahead of the work it vouches for
   (recover_checkouts, rebind_checkouts, publish_projects). *)
THEOREM ReplacementServesTheWholeArchive == SRSpec => []NothingPartialServes
  BY Invariant, InvSound, PTL
==============================================================================
