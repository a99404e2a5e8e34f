------------------------- MODULE AutoResearchLedger -------------------------
(***************************************************************************)
(* The ledger of an Auto-research episode: the turns of its orchestrator   *)
(* and the ordinary Work it spawned, what each cost, the keyed commands    *)
(* with their child admissions, the lifecycle notices and the mail that    *)
(* wake the orchestrator, and the recovery owed to each paid turn.         *)
(* Each operator is one transaction.                                       *)
(*                                                                         *)
(* Source: storage/auto_research.py, storage/auto_research_children.py.    *)
(***************************************************************************)
EXTENDS EpisodeReports

CONSTANTS
    Ceiling,          \* the most invocations an episode is authorized for
    max_attempts,     \* of the automatic recovery of one paid turn
    MaxKeys,          \* idempotency keys of commands, in the order of their use
    Messages          \* what people may write to the orchestrator

ASSUME LedgerAssumption ==
    /\ MaxEpisodes = 1 /\ Ceiling \in Nat \ {0} /\ max_attempts \in Nat \ {0} /\ MaxKeys \in Nat

VARIABLES
    task,      \* visible task rows
    cmd,       \* keyed commands: their start, exit, child admission and receipt
    work,      \* routes of spawned Work, by the key of their Spawn
    notice,    \* what the orchestrator is to be told of a Work row
    mail,
    rec        \* automatic recoveries, by the paid turn they belong to

ledgerVars == <<reportVars, task, cmd, work, notice, mail, rec>>

This == 1
Keys == 1..MaxKeys

NoTask == [role |-> "none", status |-> "none", recovers |-> NoOp, alloc |-> NoOp, key |-> 0, auto |-> FALSE,
           session |-> FALSE, abandoned |-> FALSE, structural |-> FALSE]
NoCommand == [verb |-> "none", of |-> 0, by |-> NoOp, exit |-> "none", adm |-> "none", receipt |-> "none"]
NoRoute == [op |-> NoOp, stop |-> FALSE]
Untold == [state |-> "none", by |-> NoOp]
NoRecovery == [status |-> "none", op |-> NoOp, attempts |-> 0, admitted |-> NoOp]

LedgerInit ==
    /\ ReportsInit
    /\ task = [o \in Ops |-> NoTask]
    /\ cmd = [k \in Keys |-> NoCommand]
    /\ work = [k \in Keys |-> NoRoute]
    /\ notice = [o \in Ops |-> Untold]
    /\ mail = [m \in Messages |-> Untold]
    /\ rec = [o \in Ops |-> NoRecovery]

LiveRow == {"live", "pausing"}
Recoverable == {"paused", "failed", "interrupted"}

Rows == {o \in Ops : task[o].status # "none"}
Fresh(o) == o = Cardinality(Rows) + 1
Turns == {o \in Rows : task[o].role = "orchestrator"}
Latest == CHOOSE o \in Turns : \A p \in Turns : p <= o
HasRecoveryChild(o) == \E c \in Rows : task[c].recovers = o

(* _validate_auto_research_parent_admission, and the conditions of every paid insert. *)
Accepting == ep[This].status = "running" /\ ep[This].ending = "none" /\ ~ep[This].stop
Affordable == ep[This].used < ep[This].ceiling

-----------------------------------------------------------------------------
(* Rows. *)

Insert(o, row) == task' = [task EXCEPT ![o] = row]
Pay(o, role, key, session) ==
    /\ Insert(o, [NoTask EXCEPT !.role = role, !.status = "live", !.alloc = o, !.key = key,
                                !.session = session])
    /\ ep' = [ep EXCEPT ![This].used = @ + 1]

(* create_auto_research_episode_with_root_task and its activation. *)
create_auto_research_episode_with_root_task(ceiling) ==
    /\ ep[This].status = "none"
    /\ ep' = [ep EXCEPT ![This].status = "running", ![This].used = 1, ![This].ceiling = ceiling]
    /\ Insert(1, [NoTask EXCEPT !.role = "orchestrator", !.status = "live", !.alloc = 1])

(* A turn of the actor that is live, or that a recovery may still take further; the recovery
   itself looks past the turn it recovers (_bind_auto_research_actor). *)
Busy(parent) == \E o \in Turns :
    /\ ~HasRecoveryChild(o)
    /\ \/ task[o].status \in LiveRow
       \/ task[o].status \in Recoverable /\ o # parent /\ ~task[o].abandoned

(* create_auto_research_recovery_task: a Stop leaves only a turn that was paused to recover. *)
RecoveryAccepted(o) ==
    /\ task[o].status \in Recoverable /\ ~task[o].abandoned /\ ~HasWrapup(This)
    /\ ep[This].status = "running" \/ (ep[This].status = "stopping" /\ task[o].status = "paused")
    /\ ~HasRecoveryChild(o) /\ ~Busy(o)
(* In the exact saved session, or clean. *)
create_auto_research_recovery_task(o, c, auto, session) ==
    Insert(c, [NoTask EXCEPT !.role = "orchestrator", !.status = "live", !.recovers = o,
                             !.alloc = task[o].alloc, !.auto = auto, !.session = session])

(* auto_research_is_quiescent, which looks at the orchestrator's turns alone. *)
GivenUp(o) ==
    LET r == rec[task[o].alloc] IN o \in {r.op, r.admitted} /\ r.status \in {"blocked", "exhausted"}
Settled(o) ==
    \/ HasRecoveryChild(o) \/ task[o].abandoned \/ task[o].structural
    \/ task[o].status = "succeeded"
    \/ task[o].status \in {"failed", "interrupted"} /\ GivenUp(o)
auto_research_is_quiescent == \A o \in Turns : Settled(o)

(* A Work row that ends, or that the start of the process interrupts, is told of with it
   (_insert_auto_research_task_lifecycle_notice). *)
Told(rows) == [o \in Ops |->
    IF rows[o].role = "work" /\ task[o].status \in LiveRow /\ rows[o].status \notin LiveRow
      THEN [state |-> "pending", by |-> NoOp] ELSE notice[o]]

-----------------------------------------------------------------------------
(* Commands and the Work they spawn. *)

(* start_agent_command: a Spawn is admitted with its start, while the episode takes work. *)
start_agent_command(k, verb, of, o) ==
    cmd' = [cmd EXCEPT ![k] = [NoCommand EXCEPT !.verb = verb, !.of = of, !.by = o,
                                               !.adm = IF verb = "spawn" /\ Accepting THEN "accepted" ELSE "none"]]

(* finish_agent_command: the first exit stays. *)
finish_agent_command(k, exit) ==
    cmd' = [cmd EXCEPT ![k].exit = IF @ = "none" THEN exit ELSE @]

(* Mutant: the transaction does not look for the route. *)
ChildAccepted_Twice(k) == Accepting /\ Affordable /\ cmd[k].adm \in {"accepted", "reflected"}
ChildAccepted(k) ==
    Accepting /\ Affordable /\ cmd[k].adm \in {"accepted", "reflected"} /\ work[k].op = NoOp
create_auto_research_child_work(k, o) ==
    /\ Pay(o, "work", k, FALSE)
    /\ work' = [work EXCEPT ![k].op = o]
    /\ cmd' = [cmd EXCEPT ![k].adm = "reflected"]

(* A reflected admission stays. *)
cancel_auto_research_child_admission(k) ==
    cmd' = [cmd EXCEPT ![k].adm = IF @ = "accepted" THEN "cancelled" ELSE @]

(* create_auto_research_child_work_recovery, in the exact saved session and unpaid. *)
ResumeAccepted(w) ==
    LET o == work[w].op IN Accepting /\ task[o].status \in Recoverable /\ task[o].session
create_auto_research_child_work_recovery(k, w, c) ==
    /\ Insert(c, [NoTask EXCEPT !.role = "work", !.status = "live", !.recovers = work[w].op,
                                !.alloc = task[work[w].op].alloc, !.key = k, !.session = TRUE])
    /\ work' = [work EXCEPT ![w].op = c]

(* process_auto_research_lifecycle_inbox: what is pending is acknowledged, with a receipt. *)
Pending(box) == {x \in DOMAIN box : box[x].state = "pending"}
Hand(box, xs, state, by) == [x \in DOMAIN box |-> IF x \in xs THEN [state |-> state, by |-> by] ELSE box[x]]
process_auto_research_lifecycle_inbox(k) ==
    IF cmd[k].receipt # "none" THEN UNCHANGED <<notice, cmd>>
    ELSE /\ notice' = Hand(notice, Pending(notice), "acknowledged", k)
         /\ cmd' = [cmd EXCEPT ![k].receipt = "taken"]

(* Mutant: a Spawn that was admitted and not yet seated does not hold Finish back. *)
FinishBlocked_Seated ==
    \/ \E k \in Keys : work[k].op # NoOp /\ task[work[k].op].status \in LiveRow
    \/ Pending(notice) # {}
(* _auto_research_finish_blockers *)
FinishBlocked ==
    \/ \E k \in Keys : work[k].op # NoOp /\ task[work[k].op].status \in LiveRow
    \/ Pending(notice) # {}
    \/ \E k \in Keys : cmd[k].adm = "accepted"

(* guard_auto_research_finish: the blockers, or the fence of completion, once for a key. *)
FinishRefused == IF ep[This].ending = "none" THEN ~Accepting ELSE ep[This].ending # "completed"
guard_auto_research_finish(k) ==
    /\ cmd[k].receipt = "none" /\ ~FinishRefused
    /\ IF ep[This].ending = "none" /\ FinishBlocked
         THEN cmd' = [cmd EXCEPT ![k].receipt = "blocked"] /\ UNCHANGED ep
         ELSE /\ cmd' = [cmd EXCEPT ![k].receipt = "completed"]
              /\ fence_episode_ending(This, "completed")

-----------------------------------------------------------------------------
(* Wakes: notices and mail that were read, claimed while they are still pending. *)

(* Mutant: what was read is claimed whatever has become of it. *)
WakeAccepted_Stale(notices, letters) == Accepting /\ Affordable /\ ~Busy(NoOp)
WakeAccepted(notices, letters) ==
    /\ Accepting /\ Affordable /\ ~Busy(NoOp)
    /\ notices \subseteq Pending(notice) /\ letters \subseteq Pending(mail)
create_auto_research_lifecycle_wake_task(o, notices, letters) ==
    /\ Pay(o, "orchestrator", 0, task[Latest].session)
    /\ notice' = Hand(notice, notices, "delivered", o)
    /\ mail' = Hand(mail, letters, "delivered", o)

(* record_auto_research_message, from a person to the orchestrator. *)
record_auto_research_message(m) ==
    /\ mail[m].state = "none" /\ ep[This].status = "running" /\ ep[This].ending = "none"
    /\ mail' = [mail EXCEPT ![m].state = "pending"]

-----------------------------------------------------------------------------
(* The automatic recovery of a paid turn. *)

(* Mutant: a failed attempt that nobody counted stays uncounted. *)
Counted_Never(r, o) == r.attempts
(* A failed attempt that the recovery did not admit itself is counted here. *)
Counted(r, o) ==
    IF r.op # o /\ r.admitted # o
      THEN IF r.attempts < max_attempts THEN r.attempts + 1 ELSE max_attempts
      ELSE r.attempts
schedule_auto_research_task_recovery(o) ==
    LET r == rec[task[o].alloc]
        attempts == Counted(r, o)
        status == IF r.status \in {"blocked", "exhausted"} THEN r.status
                  ELSE IF r.status = "admitted" /\ r.op = o THEN "admitted"
                  ELSE IF attempts >= max_attempts THEN "exhausted"
                  ELSE "pending"
    IN  rec' = [rec EXCEPT ![task[o].alloc] =
            IF r.status = "none" THEN [NoRecovery EXCEPT !.status = "pending", !.op = o]
            ELSE [status |-> status, op |-> o, attempts |-> attempts,
                  admitted |-> IF status = "pending" THEN NoOp ELSE r.admitted]]

(* complete_auto_research_recovery: counted once, even if the child failed and scheduled
   the next attempt before. *)
Pends(a, o) == rec[a].status = "pending" /\ rec[a].op = o /\ rec[a].attempts < max_attempts
Completed(a, o, child) ==
    \/ Pends(a, o)
    \/ rec[a].status = "admitted" /\ rec[a].op = o /\ rec[a].admitted = child
    \/ rec[a].op = child /\ rec[a].attempts > 0
complete_auto_research_recovery(a, o, child) ==
    rec' = IF Pends(a, o)
             THEN [rec EXCEPT ![a].attempts = @ + 1, ![a].status = "admitted", ![a].admitted = child]
             ELSE rec

defer_auto_research_recovery(a) ==
    rec' = IF rec[a].status # "pending" THEN rec
           ELSE [rec EXCEPT ![a].attempts = @ + 1,
                            ![a].status = IF rec[a].attempts + 1 >= max_attempts THEN "exhausted" ELSE "pending"]

abandon_auto_research_recovery(o) ==
    /\ task' = [task EXCEPT ![o].abandoned = TRUE]
    /\ rec' = [a \in Ops |-> IF o \in {rec[a].op, rec[a].admitted}
                               THEN [rec[a] EXCEPT !.status = "blocked"] ELSE rec[a]]

(* Mutant: a turn that the end of the process interrupted is not looked for. *)
auto_research_recovery_candidates_Failed ==
    {o \in Turns : /\ task[o].status = "failed"
                   /\ ep[This].status \in {"running", "stopping"}
                   /\ ~HasRecoveryChild(o) /\ ~\E a \in Ops : rec[a].op = o}
(* auto_research_recovery_candidates: failures that no recovery knows of. *)
auto_research_recovery_candidates ==
    {o \in Turns : /\ task[o].status \in {"failed", "interrupted"}
                   /\ ep[This].status \in {"running", "stopping"}
                   /\ ~HasRecoveryChild(o) /\ ~\E a \in Ops : rec[a].op = o}

-----------------------------------------------------------------------------
(* The episode's end. *)

(* mark_episode_stop_skipped, once the turns are over: under a Stop they stay over, so the
   look and the record are one step. *)
settle_auto_research_stop ==
    ep' = IF ep[This].stop /\ ep[This].status # "stopped" /\ auto_research_is_quiescent
            THEN [ep EXCEPT ![This] = Skipped(@)] ELSE ep

(* _has_unsettled_visible_episode_task: a turn or a Work row, live or paused. *)
Unsettled == \E o \in Rows : task[o].status \in LiveRow \cup {"paused"}
=============================================================================
