--------------------------- MODULE EpisodeReports ---------------------------
(***************************************************************************)
(* The ledger every episode shares: its Stop fence, its ending fence, and  *)
(* the one hidden report allocation an ending is owed, with its numbered   *)
(* provider calls.  A mode, ExperimentLoop or AutoResearch, decides when   *)
(* one ends.                                                               *)
(*                                                                         *)
(* Source: storage/episodes.py, runs/episodes/wrapup.py,                   *)
(* runs/episodes/report.py, runs/tasks/episode_report.py.                  *)
(***************************************************************************)
EXTENDS Naturals, FiniteSets

CONSTANTS
    MaxEpisodes,               \* episodes are numbered as they are created
    MaxOps,                    \* and so are task rows
    _REPORT_ATTEMPT_LIMIT

ASSUME ReportAssumption ==
    MaxEpisodes \in Nat \ {0} /\ MaxOps \in Nat \ {0} /\ _REPORT_ATTEMPT_LIMIT \in Nat \ {0}

VARIABLES
    ep,        \* episodes
    report     \* their hidden allocations: the row, its worker, its attempts, the output file

reportVars == <<ep, report>>

Episodes == 1..MaxEpisodes
Ops == 1..MaxOps
NoOp == 0

Endings == {"completed", "human_pause", "exhausted", "failed", "stopped"}
_status_for_ending ==
    [x \in Endings |-> CASE x = "completed" -> "completed"
                         [] x = "failed" -> "failed"
                         [] x = "stopped" -> "stopped"
                         [] OTHER -> "needs_action"]
_LIVE_EPISODE_STATUSES == {"running", "stopping", "wrapping_up"}
Ended == {"completed", "needs_action", "failed", "stopped"}

NoEpisode == [status |-> "none", ending |-> "none", stop |-> FALSE, used |-> 0, ceiling |-> 0, bound |-> FALSE,
              problem |-> FALSE, last |-> NoOp, wrap |-> "not_started", attempts |-> 0, concluding |-> NoOp]
NoReport == [row |-> "none", step |-> "none", attempt |-> "none", output |-> 0, calls |-> 0, published |-> 0]

ReportsInit ==
    /\ ep = [e \in Episodes |-> NoEpisode]
    /\ report = [e \in Episodes |-> NoReport]

(* An episode_wrapups row exists once the allocation or a skip was recorded. *)
HasWrapup(e) == ep[e].wrap # "not_started"

-----------------------------------------------------------------------------
(* The two fences. *)

StopAccepted(e) == ep[e].status \in {"running", "stopping"} /\ ~HasWrapup(e)

request_episode_stop(e) == [ep EXCEPT ![e].status = "stopping", ![e].stop = TRUE]

(* Stopped without a report: the only ending that skips one. *)
Skipped(x) == [x EXCEPT !.status = "stopped", !.ending = "stopped", !.stop = TRUE, !.wrap = "skipped"]

(* Mutant: a Stop that came after the reconciler looked is not seen. *)
FenceAccepted_AsRead(e, ending) == ep[e].ending \in {"none", ending}
FenceAccepted(e, ending) ==
    IF ep[e].ending # "none" THEN ep[e].ending = ending
    ELSE ~ep[e].stop /\ ep[e].status = "running"

(* The first ending fences the episode; the same ending again changes nothing. *)
fence_episode_ending(e, ending) ==
    ep' = IF ep[e].ending = "none"
            THEN [ep EXCEPT ![e].status = "wrapping_up", ![e].ending = ending] ELSE ep

(* The record of an episode whose ending is settled. *)
Finished(x, wrap) == [x EXCEPT !.status = _status_for_ending[x.ending], !.wrap = wrap]

-----------------------------------------------------------------------------
(* The allocation. *)

(* No session to report from: the ending is settled outright. *)
end_episode_without_report(e) ==
    /\ ep' = [ep EXCEPT ![e] = Finished(@, "not_started")]
    /\ UNCHANGED report

fail_episode_wrapup_unlaunchable(e, turn) ==
    /\ ep' = [ep EXCEPT ![e] = [Finished(@, "failed") EXCEPT !.concluding = turn]]
    /\ UNCHANGED report

(* The hidden row is inserted with the fence, and its worker is launched. *)
begin_episode_wrapup(e, turn) ==
    /\ ep' = [ep EXCEPT ![e].wrap = "pending", ![e].concluding = turn]
    /\ report' = [report EXCEPT ![e] = [NoReport EXCEPT !.row = "queued", !.step = "prepare"]]

(* The attempt that was under way when the process ended failed, and with the last one the
   episode ends; an attempt that had only been reserved is kept for the next worker. *)
Exhausted(e) == ep[e].attempts >= _REPORT_ATTEMPT_LIMIT /\ report[e].attempt = "running"
requeue_interrupted_episode_report_allocation(e) ==
    IF Exhausted(e)
      THEN /\ ep' = [ep EXCEPT ![e] = Finished(@, "failed")]
           /\ report' = [report EXCEPT ![e].row = "failed", ![e].attempt = "none"]
      ELSE /\ ep' = [ep EXCEPT ![e].wrap = "pending"]
           /\ report' = [report EXCEPT ![e].row = "queued", ![e].step = "prepare",
                                       ![e].attempt = IF @ = "running" THEN "none" ELSE @]

(* Mutant: a row that a shutdown paused is not started again. *)
Startable_Interrupted(e) ==
    /\ ep[e].status = "wrapping_up" /\ report[e].step = "none" /\ report[e].row = "interrupted"
(* start_episode_report: a row that has a worker keeps it. *)
Startable(e) ==
    /\ ep[e].status = "wrapping_up" /\ ep[e].wrap \in {"pending", "running"}
    /\ report[e].step = "none" /\ report[e].row \in {"interrupted", "paused"}
start_episode_report(e) ==
    IF Startable(e) THEN requeue_interrupted_episode_report_allocation(e) ELSE UNCHANGED reportVars

(* begin_episode_report_wrapup: no session, no report; a saved session that is gone fails it;
   an allocation that exists is taken up only for the same ending of the same turn. *)
begin_episode_report_wrapup(e, turn, ending, session) ==
    LET fenced == FenceAccepted(e, ending) IN
    \/ ~fenced /\ UNCHANGED reportVars
    \/ fenced /\ ~HasWrapup(e) /\ ~session /\ end_episode_without_report(e)
    \/ /\ fenced /\ HasWrapup(e)
       /\ IF ep[e].concluding = turn THEN start_episode_report(e) ELSE UNCHANGED reportVars
    \/ /\ fenced /\ ~HasWrapup(e) /\ session
       /\ IF ep[e].status = "wrapping_up"
            THEN begin_episode_wrapup(e, turn) \/ fail_episode_wrapup_unlaunchable(e, turn)
            ELSE UNCHANGED reportVars

-----------------------------------------------------------------------------
(* The report worker, stream_episode_report_run. *)

(* Mutant: the output of an earlier call stays in the mailbox. *)
mailbox_remove_Never(e) == report[e].output
(* What an earlier call left is removed before an attempt is reserved. *)
mailbox_remove(e) == 0

(* Inputs and contract are staged; a reserved attempt is used again, otherwise the next
   number is taken. *)
allocate_episode_report_attempt(e) ==
    /\ report[e].step = "prepare"
    /\ report[e].attempt = "queued" \/ ep[e].attempts < _REPORT_ATTEMPT_LIMIT
    /\ report' = [report EXCEPT ![e].step = "launch", ![e].attempt = "queued", ![e].output = mailbox_remove(e)]
    /\ ep' = IF report[e].attempt = "queued" THEN ep
             ELSE [ep EXCEPT ![e].wrap = "running", ![e].attempts = @ + 1]

(* The stage is lost between provider calls. *)
ReportUnlaunchable(e) ==
    /\ report[e].step = "prepare"
    /\ report' = [report EXCEPT ![e].row = "failed", ![e].step = "none", ![e].attempt = "none"]
    /\ ep' = [ep EXCEPT ![e] = Finished(@, "failed")]

(* The attempt is marked before the provider is called. *)
mark_episode_report_attempt_running(e) ==
    /\ report[e].step = "launch"
    /\ report' = [report EXCEPT ![e].step = "call", ![e].row = "running", ![e].attempt = "running",
                                ![e].calls = @ + 1]
    /\ UNCHANGED ep

ProviderWrites(e) ==
    /\ report[e].step = "call" /\ report[e].output # ep[e].attempts
    /\ report' = [report EXCEPT ![e].output = ep[e].attempts]
    /\ UNCHANGED ep

(* An attempt fails; the last one, or a changed session, closes the wrap-up. *)
FailedAttempt(e, final) ==
    IF final \/ ep[e].attempts >= _REPORT_ATTEMPT_LIMIT
      THEN /\ report' = [report EXCEPT ![e].row = "failed", ![e].step = "none", ![e].attempt = "none"]
           /\ ep' = [ep EXCEPT ![e] = Finished(@, "failed")]
      ELSE /\ report' = [report EXCEPT ![e].step = "prepare", ![e].attempt = "none"]
           /\ ep' = [ep EXCEPT ![e].wrap = "pending"]

record_episode_report_attempt_error(e) == report[e].step = "call" /\ FailedAttempt(e, FALSE)
finish_episode_report_error(e) == report[e].step = "call" /\ FailedAttempt(e, TRUE)

(* The file in the mailbox is valid: it becomes the report. *)
finish_episode_report_ready(e) ==
    /\ report[e].step = "call" /\ report[e].output # 0
    /\ report' = [report EXCEPT ![e].row = "succeeded", ![e].step = "none", ![e].attempt = "none",
                                ![e].published = report[e].output]
    /\ ep' = [ep EXCEPT ![e] = Finished(@, "ready")]

ReportWorker(e) ==
    \/ allocate_episode_report_attempt(e)
    \/ ReportUnlaunchable(e)
    \/ mark_episode_report_attempt_running(e)
    \/ ProviderWrites(e)
    \/ record_episode_report_attempt_error(e)
    \/ finish_episode_report_error(e)
    \/ finish_episode_report_ready(e)

(* The process ends.  A live row is interrupted where it stands; a graceful shutdown ends
   the provider call first, as a failed attempt of a paused row. *)
Shuts(e) == report[e].step = "call" /\ ep[e].attempts < _REPORT_ATTEMPT_LIMIT
ReportLeft(e, graceful) ==
    IF graceful /\ Shuts(e)
      THEN [report[e] EXCEPT !.row = "paused", !.step = "none", !.attempt = "none"]
    ELSE IF report[e].row \in {"queued", "running"}
      THEN [report[e] EXCEPT !.row = "interrupted", !.step = "none"]
    ELSE report[e]
EpisodeLeft(e, graceful) == IF graceful /\ Shuts(e) THEN [ep[e] EXCEPT !.wrap = "pending"] ELSE ep[e]
=============================================================================
