---------------------------- MODULE AutoResearch ----------------------------
(***************************************************************************)
(* Auto-research: one orchestrator, woken by what becomes of the Work it   *)
(* spawned and by mail, commands Work into being and finally Finish; the   *)
(* threads of settled turns, of the watcher poll, of people's requests and *)
(* of the start of the process carry admissions, wakes, recoveries and     *)
(* endings on, each through the same passes.                               *)
(*                                                                         *)
(* Source: runs/auto_research.py, runs/auto_research_effects.py,           *)
(* runs/auto_research_admission.py, runs/auto_research_child_reconcile.py, *)
(* runs/auto_research_delivery.py, runs/auto_research_recovery.py,         *)
(* runs/episodes/reconcile.py, api/app.py.                                 *)
(***************************************************************************)
EXTENDS AutoResearchLedger, Sequences

CONSTANT
    Scenarios     \* what is explored together: the invocations authorized, the commands the
                  \* orchestrator gives, each [verb, of] under its own key, and events

(* Mail, turns that fail or are paused and effects that are out of reach, recoveries people
   ask for, commands given again, Stops, and ends of the process. *)
Events == {"mails", "faults", "retries", "repeats", "stops", "restarts"}
Verbs == {"spawn", "pause", "resume", "stop", "inbox", "finish"}

ASSUME ScenarioAssumption ==
    \A s \in Scenarios :
      /\ s.plan.ceiling \in 1..Ceiling /\ s.budget \in [Events -> Nat]
      /\ s.plan.commands \in Seq([verb : Verbs, of : 0..MaxKeys]) /\ Len(s.plan.commands) <= MaxKeys

VARIABLES
    plan,      \* what is authorized and commanded
    call,      \* the command being served: the mailbox serves one at a time
    thr,       \* threads: the passes they have yet to make and where they stand in one
    boot,
    budget

vars == <<ledgerVars, plan, call, thr, boot, budget>>

Poller == 0
Person == MaxOps + 1
Threads == Ops \cup {Poller, Person}

Idle == [rest |-> <<>>, pc |-> "next", at |-> 0, op |-> NoOp, as |-> "none", notices |-> {}, letters |-> {}]
NoCall == [step |-> "idle", key |-> 0, fresh |-> FALSE, out |-> "none"]

(* Mutant: the poll no longer delivers what became of Work. *)
Poll_Deaf == <<"recover", "children", "episode", "mail">>
Poll == <<"recover", "children", "episode", "lifecycle", "mail">>
AfterTurn == <<"children", "lifecycle", "mail", "settle", "lifecycle", "mail", "episode">>
Startup == <<"reports", "children", "orphans", "lifecycle", "mail", "episode", "recover", "serve">>

Init ==
    /\ LedgerInit
    /\ \E s \in Scenarios : plan = s.plan /\ budget = s.budget
    /\ call = NoCall
    /\ thr = [t \in Threads |-> Idle]
    /\ boot = "serving"

Spend(event) == budget[event] > 0 /\ budget' = [budget EXCEPT ![event] = @ - 1]

-----------------------------------------------------------------------------
(* Turns and Work. *)

Authorize ==
    /\ boot = "serving"
    /\ create_auto_research_episode_with_root_task(plan.ceiling)
    /\ UNCHANGED <<report, cmd, work, notice, mail, rec, plan, call, thr, boot, budget>>

(* A Work row that ended calls for passes of the poll, which stands for them. *)
EndsAs(o, row) ==
    /\ task' = [task EXCEPT ![o] = row]
    /\ notice' = Told(task')
    /\ thr' = [thr EXCEPT ![o].rest = IF row.role = "orchestrator" THEN AfterTurn ELSE @]
    /\ UNCHANGED <<reportVars, cmd, work, mail, rec, plan, call, boot>>

(* A provider turn ends, with the commands it gave answered. *)
TurnEnds(o) ==
    /\ task[o].status \in LiveRow
    /\ task[o].role = "orchestrator" => call.step = "idle"
    /\ \/ EndsAs(o, [task[o] EXCEPT !.status = "succeeded", !.session = TRUE]) /\ UNCHANGED budget
       \/ /\ task[o].status = "pausing" /\ UNCHANGED budget
          /\ \E session \in {task[o].session, TRUE} :
               EndsAs(o, [task[o] EXCEPT !.status = "paused", !.session = session])
TurnFails(o) ==
    /\ task[o].status \in LiveRow
    /\ task[o].role = "orchestrator" => call.step = "idle"
    /\ Spend("faults")
    /\ \E session \in {task[o].session, TRUE}, structural \in BOOLEAN :
         \/ /\ structural => task[o].role = "orchestrator"
            /\ EndsAs(o, [task[o] EXCEPT !.status = "failed", !.session = session, !.structural = structural])
         \/ /\ ~structural /\ task[o].role = "orchestrator"      \* a person pauses it
            /\ EndsAs(o, [task[o] EXCEPT !.status = "paused", !.session = session])

-----------------------------------------------------------------------------
(* Commands. *)

Answering(out) == call' = [call EXCEPT !.step = "answer", !.out = out]
Goes(step) == call' = [call EXCEPT !.step = step]
Leaf(w) == IF w \in Keys /\ work[w].op # NoOp THEN task[work[w].op] ELSE NoTask
Verb == cmd[call.key].verb
Of == cmd[call.key].of
(* What a command raises is the agent's error at first, and unknown when it is given again. *)
Raised == IF call.fresh THEN "invalid" ELSE "unavailable"

Issue(o, k) ==
    /\ call.step = "idle" /\ task[o].status \in LiveRow /\ task[o].role = "orchestrator"
    /\ k \in DOMAIN plan.commands /\ cmd[k].by = NoOp /\ \A j \in 1..(k - 1) : cmd[j].by # NoOp
    /\ start_agent_command(k, plan.commands[k].verb, plan.commands[k].of, o)
    /\ call' = [step |-> "guard", key |-> k, fresh |-> TRUE, out |-> "none"]
    /\ UNCHANGED <<reportVars, task, work, notice, mail, rec, plan, thr, boot, budget>>

(* A key given again is answered from its record, unless that is missing or unavailable. *)
Repeat(o, k) ==
    /\ call.step = "idle" /\ task[o].status \in LiveRow /\ task[o].role = "orchestrator"
    /\ cmd[k].by # NoOp /\ cmd[k].exit \in {"none", "unavailable"} /\ Spend("repeats")
    /\ call' = [step |-> "prove", key |-> k, fresh |-> FALSE, out |-> "none"]
    /\ UNCHANGED <<ledgerVars, plan, thr, boot>>

(* _reconcile_unknown: the effect is in the ledger. *)
Proven(k) ==
    CASE cmd[k].verb = "spawn" -> work[k].op # NoOp
      [] cmd[k].verb = "resume" -> \E o \in Rows : task[o].key = k
      [] cmd[k].verb = "pause" -> Leaf(cmd[k].of).status \in {"pausing", "paused"}
      [] cmd[k].verb = "stop" -> Leaf(cmd[k].of).status # "live" /\ cmd[k].of \in Keys /\ work[cmd[k].of].stop
      [] OTHER -> cmd[k].receipt # "none"
Prove ==
    /\ call.step = "prove"
    /\ IF Proven(call.key)
         THEN Answering(IF cmd[call.key].receipt = "blocked" THEN "invalid" ELSE "ok") ELSE Goes("guard")
    /\ UNCHANGED <<ledgerVars, plan, thr, boot, budget>>

Guard ==
    /\ call.step = "guard"
    /\ IF Accepting THEN Goes("execute") ELSE Answering("unavailable")
    /\ UNCHANGED <<ledgerVars, plan, thr, boot, budget>>

Spawn ==
    /\ Verb = "spawn"
    /\ LET k == call.key IN
       \/ /\ ChildAccepted(k) /\ Answering("ok") /\ UNCHANGED <<report, budget>>
          /\ \E o \in Ops : Fresh(o) /\ create_auto_research_child_work(k, o)
       \/ /\ ~ChildAccepted(k) /\ Answering(Raised) /\ UNCHANGED <<reportVars, task, work, budget>>
          /\ IF work[k].op = NoOp THEN cancel_auto_research_child_admission(k) ELSE UNCHANGED cmd
       \/ Spend("faults") /\ Answering("unavailable") /\ UNCHANGED <<reportVars, task, work, cmd>>
    /\ UNCHANGED <<notice, mail, rec>>

Pause ==
    /\ Verb = "pause"
    /\ IF Leaf(Of).status = "live" /\ ~work[Of].stop
         THEN task' = [task EXCEPT ![work[Of].op].status = "pausing"] /\ Answering("ok")
         ELSE /\ UNCHANGED task
              /\ Answering(IF Leaf(Of).status \in {"pausing", "paused"} THEN "ok" ELSE Raised)
    /\ UNCHANGED <<reportVars, cmd, work, notice, mail, rec, budget>>

StopWork ==
    /\ Verb = "stop"
    /\ IF Leaf(Of) = NoTask THEN Answering("invalid") /\ UNCHANGED <<task, work>>
       ELSE /\ work' = [work EXCEPT ![Of].stop = TRUE]
            /\ task' = [task EXCEPT ![work[Of].op].status = IF @ = "live" THEN "pausing" ELSE @]
            /\ Answering("ok")
    /\ UNCHANGED <<reportVars, cmd, notice, mail, rec, budget>>

Resume ==
    /\ Verb = "resume"
    /\ IF Leaf(Of).status \in Recoverable /\ Leaf(Of).session /\ ~work[Of].stop
         THEN IF ResumeAccepted(Of)
                THEN /\ \E c \in Ops : Fresh(c) /\ create_auto_research_child_work_recovery(call.key, Of, c)
                     /\ Answering("ok")
                ELSE Answering("unavailable") /\ UNCHANGED <<task, work>>
         ELSE Answering("invalid") /\ UNCHANGED <<task, work>>
    /\ UNCHANGED <<reportVars, cmd, notice, mail, rec, budget>>

Inbox ==
    /\ Verb = "inbox" /\ process_auto_research_lifecycle_inbox(call.key) /\ Answering("ok")
    /\ UNCHANGED <<reportVars, task, work, mail, rec, budget>>

Finish ==
    /\ Verb = "finish"
    /\ \/ /\ guard_auto_research_finish(call.key)
          /\ Answering(IF cmd'[call.key].receipt = "blocked" THEN "invalid" ELSE "ok")
       \/ /\ FinishRefused /\ UNCHANGED <<ep, cmd>>
          /\ Answering(IF ep[This].ending = "none" THEN "unavailable" ELSE Raised)
    /\ UNCHANGED <<report, task, work, notice, mail, rec, budget>>

Execute ==
    /\ call.step = "execute"
    /\ Spawn \/ Pause \/ StopWork \/ Resume \/ Inbox \/ Finish
    /\ UNCHANGED <<plan, thr, boot>>

Answer ==
    /\ call.step = "answer" /\ call' = NoCall
    /\ finish_agent_command(call.key, call.out)
    /\ UNCHANGED <<reportVars, task, work, notice, mail, rec, plan, thr, boot, budget>>

Serve == Prove \/ Guard \/ Execute \/ Answer

-----------------------------------------------------------------------------
(* The passes. *)

(* Reaching the ceiling ends the episode once every admitted turn is over. *)
Exhaustible == ~Affordable /\ auto_research_is_quiescent

WakeDue(box) ==
    /\ Pending(box) # {} /\ Accepting /\ task[Latest].session
    /\ (Affordable /\ ~Busy(NoOp)) \/ Exhaustible
EpisodeDue ==
    IF ep[This].stop THEN ep[This].status # "stopped" /\ auto_research_is_quiescent
    ELSE IF ep[This].wrap \in {"pending", "running"} THEN Startable(This) /\ ~Unsettled
    ELSE IF ep[This].ending = "none" THEN ep[This].status = "running" /\ Exhaustible
    ELSE ep[This].status = "wrapping_up" /\ ~Unsettled /\ auto_research_is_quiescent
DueRecoveries == {a \in Ops : rec[a].status = "pending" /\ ep[This].status \in {"running", "stopping"}}
Admitted == {k \in Keys : cmd[k].adm = "accepted"}

HasWork(pass) ==
    CASE pass = "children" -> Admitted # {}
      [] pass = "lifecycle" -> WakeDue(notice)
      [] pass = "mail" -> WakeDue(mail)
      [] pass = "episode" -> EpisodeDue
      [] pass = "recover" -> DueRecoveries # {}
      [] pass = "orphans" -> auto_research_recovery_candidates # {}
      [] pass = "reports" -> Startable(This)
      [] OTHER -> TRUE

Least(S) == CHOOSE x \in S : \A y \in S : x <= y
To(t, rest, pc) == thr' = [thr EXCEPT ![t] = [@ EXCEPT !.rest = rest, !.pc = pc]]
Onward(t, rest) == thr' = [thr EXCEPT ![t] = [Idle EXCEPT !.rest = rest]]

(* reconcile_pending_auto_research_child_admissions: the Spawn is carried out from its record,
   deferred, or cancelled; the admissions that are left come next. *)
Drive(t, here, after) ==
    LET k == Least(Admitted)
        able == cmd[k].exit \in {"none", "unavailable"} /\ ChildAccepted(k)
        then(out) == thr' = [thr EXCEPT ![t] = [Idle EXCEPT !.rest = here, !.pc = "answer", !.at = k, !.as = out]]
    IN  /\ \/ /\ able /\ then("ok") /\ UNCHANGED budget
              /\ \E o \in Ops : Fresh(o) /\ create_auto_research_child_work(k, o)
           \/ Spend("faults") /\ Onward(t, after) /\ UNCHANGED <<ep, task, cmd, work>>
           \/ /\ ~able /\ then("invalid") /\ UNCHANGED <<ep, task, work, budget>>
              /\ cancel_auto_research_child_admission(k)
        /\ UNCHANGED <<report, notice, mail, rec, boot>>

(* _finish_command_if_unknown *)
Redriven(t) ==
    /\ thr[t].pc = "answer" /\ Onward(t, thr[t].rest)
    /\ IF cmd[thr[t].at].exit = "none" THEN finish_agent_command(thr[t].at, thr[t].as) ELSE UNCHANGED cmd
    /\ UNCHANGED <<reportVars, task, work, notice, mail, rec, boot, budget>>

(* A delivery reads what is pending ... *)
ReadWake(t, pass, after) ==
    /\ thr' = [thr EXCEPT ![t] = [Idle EXCEPT !.rest = after, !.pc = "claim", !.letters = Pending(mail),
                                              !.notices = IF pass = "lifecycle" THEN Pending(notice) ELSE {}]]
    /\ UNCHANGED <<ledgerVars, boot, budget>>

(* ... and claims it with the wake it pays for, or finds the ceiling reached. *)
Claim(t) ==
    /\ thr[t].pc = "claim"
    /\ LET notices == thr[t].notices
           letters == thr[t].letters IN
       \/ /\ WakeAccepted(notices, letters) /\ Onward(t, thr[t].rest)
          /\ \E o \in Ops : Fresh(o) /\ create_auto_research_lifecycle_wake_task(o, notices, letters)
          /\ UNCHANGED report
       \/ /\ ~WakeAccepted(notices, letters) /\ UNCHANGED <<reportVars, task, notice, mail>>
          /\ IF Accepting /\ Exhaustible
               THEN thr' = [thr EXCEPT ![t] = [Idle EXCEPT !.rest = <<"episode">> \o thr[t].rest, !.pc = "fence",
                                                           !.at = 1]]
               ELSE Onward(t, thr[t].rest)
    /\ UNCHANGED <<cmd, work, rec, boot, budget>>

(* auto_research_exhaustion_signal: a delivery goes on when it is refused, an episode pass
   does not. *)
FenceExhausted(t) ==
    /\ thr[t].pc = "fence"
    /\ IF FenceAccepted(This, "exhausted")
         THEN fence_episode_ending(This, "exhausted") /\ Onward(t, thr[t].rest)
         ELSE Onward(t, IF thr[t].at = 1 THEN Tail(thr[t].rest) ELSE <<>>) /\ UNCHANGED ep
    /\ UNCHANGED <<report, task, cmd, work, notice, mail, rec, boot, budget>>

(* reconcile_auto_research_episode *)
EpisodePass(t, here, after) ==
    /\ \/ ep[This].stop /\ settle_auto_research_stop /\ Onward(t, after) /\ UNCHANGED report
       \/ ~ep[This].stop /\ ep[This].wrap # "not_started" /\ start_episode_report(This) /\ Onward(t, after)
       \/ /\ ~ep[This].stop /\ ep[This].ending = "none" /\ To(t, here, "fence") /\ UNCHANGED reportVars
       \/ /\ ~ep[This].stop /\ ep[This].ending # "none" /\ ep[This].wrap = "not_started" /\ Onward(t, after)
          /\ begin_episode_report_wrapup(This, Latest, ep[This].ending, task[Latest].session)
    /\ UNCHANGED <<task, cmd, work, notice, mail, rec, boot, budget>>

(* settle_auto_research_task: what a settled turn calls for. *)
Settle(t, after) ==
    /\ LET lost == task[t].status \in {"failed", "interrupted"} IN
       IF ep[This].stop /\ auto_research_is_quiescent
         THEN settle_auto_research_stop /\ Onward(t, <<>>) /\ UNCHANGED rec
       ELSE IF ~lost THEN Onward(t, after) /\ UNCHANGED <<ep, rec>>
       ELSE IF task[t].structural
         THEN /\ UNCHANGED rec
              /\ IF FenceAccepted(This, "failed") THEN fence_episode_ending(This, "failed") /\ Onward(t, after)
                 ELSE UNCHANGED ep /\ Onward(t, <<>>)
       ELSE /\ UNCHANGED ep
            /\ IF ep[This].status \in {"running", "stopping"}
                 THEN schedule_auto_research_task_recovery(t) /\ Onward(t, after)
                 ELSE UNCHANGED rec /\ Onward(t, <<>>)
    /\ UNCHANGED <<report, task, cmd, work, notice, mail, boot, budget>>

SettleStop(t, after) ==
    /\ settle_auto_research_stop /\ Onward(t, after)
    /\ UNCHANGED <<report, task, cmd, work, notice, mail, rec, boot, budget>>

(* reconcile_due_auto_research_recoveries *)
ReadRecovery(t, after) ==
    /\ \E a \in DueRecoveries :
         thr' = [thr EXCEPT ![t] = [Idle EXCEPT !.rest = after, !.pc = "retry", !.at = a, !.op = rec[a].op]]
    /\ UNCHANGED <<ledgerVars, boot, budget>>

Retry(t) ==
    /\ thr[t].pc = "retry"
    /\ LET o == thr[t].op IN
       \/ HasRecoveryChild(o) /\ To(t, thr[t].rest, "complete") /\ UNCHANGED <<task, rec, budget>>
       \/ /\ ~HasRecoveryChild(o) /\ RecoveryAccepted(o) /\ To(t, thr[t].rest, "complete")
          /\ \E c \in Ops, session \in {task[o].session, FALSE} :
               Fresh(c) /\ create_auto_research_recovery_task(o, c, TRUE, session)
          /\ UNCHANGED <<rec, budget>>
       \/ /\ ~HasRecoveryChild(o) /\ ~RecoveryAccepted(o) /\ To(t, thr[t].rest, "failed")
          /\ UNCHANGED <<task, rec, budget>>
       \/ /\ ~HasRecoveryChild(o) /\ Spend("faults")          \* the saved workspace is out of reach
          /\ IF ep[This].stop THEN abandon_auto_research_recovery(o) /\ To(t, thr[t].rest, "stop")
             ELSE To(t, thr[t].rest, "failed") /\ UNCHANGED <<task, rec>>
    /\ UNCHANGED <<reportVars, cmd, work, notice, mail, boot>>

StopAbandoned(t) ==
    /\ thr[t].pc = "stop" /\ settle_auto_research_stop /\ To(t, thr[t].rest, "failed")
    /\ UNCHANGED <<report, task, cmd, work, notice, mail, rec, boot, budget>>

Complete(t) ==
    /\ thr[t].pc = "complete"
    /\ LET child == CHOOSE c \in Rows : task[c].recovers = thr[t].op IN
       /\ complete_auto_research_recovery(thr[t].at, thr[t].op, child)
       /\ Onward(t, IF Completed(thr[t].at, thr[t].op, child) THEN thr[t].rest ELSE <<>>)
    /\ UNCHANGED <<reportVars, task, cmd, work, notice, mail, boot, budget>>

RetryFailed(t) ==
    /\ thr[t].pc = "failed"
    /\ IF HasRecoveryChild(thr[t].op) THEN To(t, thr[t].rest, "complete") /\ UNCHANGED <<task, rec>>
       ELSE /\ Onward(t, thr[t].rest)
            /\ IF task[thr[t].op].abandoned THEN abandon_auto_research_recovery(thr[t].op)
               ELSE defer_auto_research_recovery(thr[t].at) /\ UNCHANGED task
    /\ UNCHANGED <<reportVars, cmd, work, notice, mail, boot, budget>>

(* reconcile_orphaned_auto_research_failures, whose error ends the start of the process. *)
Orphan(t, here, after) ==
    /\ LET o == Least(auto_research_recovery_candidates) IN
       IF ~task[o].structural
         THEN schedule_auto_research_task_recovery(o) /\ Onward(t, here) /\ UNCHANGED <<ep, boot>>
       ELSE IF FenceAccepted(This, "failed")
         THEN fence_episode_ending(This, "failed") /\ Onward(t, <<"episode">> \o after) /\ UNCHANGED <<rec, boot>>
       ELSE boot' = "down" /\ Onward(t, <<>>) /\ UNCHANGED <<ep, rec>>
    /\ UNCHANGED <<report, task, cmd, work, notice, mail, budget>>

RestartReport(t, after) ==
    /\ start_episode_report(This) /\ Onward(t, after)
    /\ UNCHANGED <<task, cmd, work, notice, mail, rec, boot, budget>>

(* A pass that finds nothing to do changes nothing, and takes no step of its own. *)
Passes(t) == IF t = Poller /\ boot = "serving" /\ thr[t].rest = <<>> THEN Poll ELSE thr[t].rest
Pass(t) ==
    /\ thr[t].pc = "next"
    /\ LET ps == Passes(t)
           due == {i \in DOMAIN ps : HasWork(ps[i])}
           i == Least(due)
           here == SubSeq(ps, i, Len(ps))
           after == SubSeq(ps, i + 1, Len(ps)) IN
       IF due = {}
         THEN /\ thr[t].rest # <<>> /\ Onward(t, <<>>)
              /\ UNCHANGED <<ledgerVars, boot, budget>>
       ELSE \/ ps[i] = "children" /\ Drive(t, here, after)
            \/ ps[i] \in {"lifecycle", "mail"} /\ ReadWake(t, ps[i], after)
            \/ ps[i] = "episode" /\ EpisodePass(t, here, after)
            \/ ps[i] = "settle" /\ Settle(t, after)
            \/ ps[i] = "stop" /\ SettleStop(t, after)
            \/ ps[i] = "recover" /\ ReadRecovery(t, after)
            \/ ps[i] = "orphans" /\ Orphan(t, here, after)
            \/ ps[i] = "reports" /\ RestartReport(t, after)
            \/ ps[i] = "serve" /\ Onward(t, after) /\ boot' = "serving" /\ UNCHANGED <<ledgerVars, budget>>

Thread(t) ==
    /\ \/ Pass(t) \/ Redriven(t) \/ Claim(t) \/ FenceExhausted(t)
       \/ Retry(t) \/ StopAbandoned(t) \/ Complete(t) \/ RetryFailed(t)
    /\ UNCHANGED <<plan, call>>

-----------------------------------------------------------------------------
(* People, and the process. *)

Asks(pass) == thr[Person] = Idle /\ Onward(Person, <<pass>>)

SendMail(m) ==
    /\ boot = "serving" /\ Spend("mails") /\ record_auto_research_message(m) /\ Asks("mail")
    /\ UNCHANGED <<reportVars, task, cmd, work, notice, rec, plan, call, boot>>

(* stop_auto_research: the request, and then a look at whether it settles at once. *)
RequestStop ==
    /\ boot = "serving" /\ StopAccepted(This) /\ Spend("stops") /\ Asks("stop")
    /\ ep' = request_episode_stop(This)
    /\ UNCHANGED <<report, task, cmd, work, notice, mail, rec, plan, call, boot>>

(* Resume or Retry of a turn. *)
PersonRecovers(o, c) ==
    /\ boot = "serving" /\ o \in Turns /\ RecoveryAccepted(o) /\ Fresh(c) /\ Spend("retries")
    /\ \E session \in {task[o].session, FALSE} : create_auto_research_recovery_task(o, c, FALSE, session)
    /\ UNCHANGED <<reportVars, cmd, work, notice, mail, rec, plan, call, thr, boot>>

(* Its saved workspace is gone: under a Stop it is abandoned. *)
PersonAbandons(o) ==
    /\ boot = "serving" /\ o \in Turns /\ task[o].status \in Recoverable /\ ~task[o].abandoned
    /\ ep[This].status = "stopping" /\ Spend("retries") /\ Asks("stop")
    /\ abandon_auto_research_recovery(o)
    /\ UNCHANGED <<reportVars, cmd, work, notice, mail, plan, call, boot>>

(* recover_at_startup keeps a paid wake or Work that provably never started. *)
Keepable == {o \in Rows : /\ task[o].status = "live" /\ o # 1
                          /\ task[o].role = "work" \/ task[o].recovers = NoOp
                          /\ \A k \in Keys : cmd[k].by # o}
Restart ==
    /\ boot = "serving" /\ Spend("restarts") /\ boot' = "starting"
    /\ \E graceful \in BOOLEAN : ep' = [e \in Episodes |-> EpisodeLeft(e, graceful)]
                                 /\ report' = [e \in Episodes |-> ReportLeft(e, graceful)]
    /\ \E kept \in SUBSET Keepable, saved \in BOOLEAN :
         task' = [o \in Ops |-> IF task[o].status \in LiveRow /\ o \notin kept
                    THEN [task[o] EXCEPT !.status = "interrupted", !.session = @ \/ saved] ELSE task[o]]
    /\ notice' = Told(task')
    /\ thr' = [t \in Threads |-> IF t = Poller THEN [Idle EXCEPT !.rest = Startup] ELSE Idle]
    /\ call' = NoCall
    /\ UNCHANGED <<cmd, work, mail, rec, plan>>

Report == ReportWorker(This) /\ UNCHANGED <<task, cmd, work, notice, mail, rec, plan, call, thr, boot, budget>>

(* What goes on without people and without faults: commands are served, threads run on, the
   poll comes round, provider turns end. *)
System == Serve \/ Report \/ (\E t \in Threads : Thread(t)) \/ (\E o \in Ops : TurnEnds(o))

Next ==
    /\ boot # "down"
    /\ \/ System \/ Authorize \/ Restart \/ RequestStop
       \/ \E o \in Ops : TurnFails(o) \/ PersonAbandons(o)
       \/ \E o \in Ops, k \in Keys : Issue(o, k) \/ Repeat(o, k)
       \/ \E m \in Messages : SendMail(m)
       \/ \E o, c \in Ops : PersonRecovers(o, c)

(* No thread repeats itself for ever, so each comes to its turn. *)
Fairness == WF_vars(boot # "down" /\ System)

Spec == Init /\ [][Next]_vars /\ Fairness

-----------------------------------------------------------------------------
TypeOK ==
    /\ task \in [Ops -> [role : {"none", "orchestrator", "work"},
                         status : {"none", "succeeded"} \cup LiveRow \cup Recoverable,
                         recovers : Ops \cup {NoOp}, alloc : Ops \cup {NoOp}, key : Keys \cup {0}, auto : BOOLEAN,
                         session : BOOLEAN, abandoned : BOOLEAN, structural : BOOLEAN]]
    /\ cmd \in [Keys -> [verb : Verbs \cup {"none"}, of : 0..MaxKeys, by : Ops \cup {NoOp},
                         exit : {"none", "ok", "invalid", "unavailable"},
                         adm : {"none", "accepted", "reflected", "cancelled"},
                         receipt : {"none", "taken", "blocked", "completed"}]]
    /\ work \in [Keys -> [op : Ops \cup {NoOp}, stop : BOOLEAN]]
    /\ notice \in [Ops -> [state : {"none", "pending", "delivered", "acknowledged"}, by : Nat]]
    /\ mail \in [Messages -> [state : {"none", "pending", "delivered"}, by : Nat]]
    /\ rec \in [Ops -> [status : {"none", "pending", "admitted", "blocked", "exhausted"},
                        op : Ops \cup {NoOp}, attempts : 0..max_attempts, admitted : Ops \cup {NoOp}]]
    /\ boot \in {"serving", "starting", "down"}

-----------------------------------------------------------------------------
PaidRows == {o \in Rows : task[o].recovers = NoOp}
LiveTurns == {o \in Turns : task[o].status \in LiveRow}
Spawned(k) == {o \in PaidRows : task[o].role = "work" /\ task[o].key = k}

(* The invocations counted are the rows that were paid for, never past the authorization;
   a recovery runs on the payment of one of them, and the automatic ones of a payment stay
   under their limit, whoever else recovered it and wherever the process ended between a
   recovery's row and its count.  The orchestrator has one turn at a time. *)
TurnsArePaid ==
    /\ Cardinality(PaidRows) = ep[This].used /\ ep[This].used <= ep[This].ceiling
    /\ \A o \in Rows : task[o].alloc \in PaidRows
    /\ \A a \in Ops : Cardinality({o \in Rows : task[o].alloc = a /\ task[o].auto}) <= max_attempts
    /\ Cardinality(LiveTurns) <= 1

(* A Spawn makes one worker however often its key is served, given again or carried out
   from its record, none once its admission is cancelled, and is not reported done without
   it; a Finish is reported done only for an episode that ends as completed. *)
CommandsTakeEffectOnce ==
    \A k \in Keys :
      /\ Cardinality(Spawned(k)) = (IF cmd[k].adm = "reflected" THEN 1 ELSE 0)
      /\ cmd[k].verb = "spawn" /\ cmd[k].exit = "ok" => cmd[k].adm = "reflected"
      /\ cmd[k].verb = "finish" /\ cmd[k].exit = "ok" => ep[This].ending = "completed"

(* What the ledger says of turns and of commands is what was done. *)
LedgerIsExact == TypeOK /\ TurnsArePaid /\ CommandsTakeEffectOnce

(* A paid invocation whose turn a person retried. *)
Retried(a) == \E o \in Turns : task[o].alloc = a /\ task[o].recovers # NoOp /\ ~task[o].auto

(* An episode completes with no Work under way, nothing left to tell its orchestrator and
   no Spawn admitted that is still to be seated; it is stopped only when no turn of the
   orchestrator is live, and exhausted too, but for the turns of an invocation that a person
   retried after the look that found none; and no report is written beside a live row. *)
EndingsAreEarned ==
    /\ ep[This].ending = "completed" =>
         Pending(notice) = {} /\ Admitted = {} /\ \A o \in Rows \ Turns : task[o].status \notin LiveRow
    /\ ep[This].ending = "exhausted" => \A o \in LiveTurns : Retried(task[o].alloc)
    /\ ep[This].ending = "stopped" => LiveTurns = {}
    /\ report[This].step # "none" => \A o \in Rows : task[o].status \notin LiveRow

(* What was handed to a wake or acknowledged is not handed over again, and the exit a
   command was first answered with stays its answer. *)
HandedOverOnce == [][
    /\ \A o \in Ops : notice[o].state \in {"delivered", "acknowledged"} => notice'[o] = notice[o]
    /\ \A m \in Messages : mail[m].state = "delivered" => mail'[m] = mail[m]
    /\ \A k \in Keys : cmd[k].exit # "none" => cmd'[k].exit = cmd[k].exit ]_vars

(* Turns that no recovery has taken further.  Of those that failed, the late settlement of an
   earlier turn may have taken the recovery over: until the next start nobody sees them. *)
Open == {o \in Turns : ~HasRecoveryChild(o) /\ ~task[o].abandoned}
Paused == {o \in Open : task[o].status = "paused"}
Lost == {o \in Open : task[o].status \in {"failed", "interrupted"}}
Displaced == {o \in Lost : thr[o].rest = <<>> /\ rec[task[o].alloc].op \notin {NoOp, o}}

(* Only a person can take the orchestrator further. *)
NeedsPeople == Paused \cup Displaced # {} \/ \E o \in Lost : GivenUp(o)

(* What became of a Work row reaches the orchestrator, in a wake or through its inbox, unless
   the episode ends, the orchestrator is left to people or has no session to wake. *)
NoticesArrive ==
    Pending(notice) # {} ~>
      (Pending(notice) = {} \/ ~Accepting \/ NeedsPeople \/ ~task[Latest].session \/ boot = "down")

(* After its ending a turn that fails is not recovered, and a row that is paused is waited
   for: the wrap-up of such an episode does not begin. *)
Stranded ==
    \/ \E o \in Turns : task[o].status \in Recoverable /\ ~Settled(o)
    \/ \E o \in Rows : task[o].status = "paused"

(* An episode that was stopped, fenced or has spent its invocations comes to its end, unless a
   paused turn is left to people, its wrap-up is stranded, or the start of the process failed. *)
Closing ==
    ep[This].status \in {"stopping", "wrapping_up"} \/ (ep[This].status = "running" /\ ~Affordable)
LeftOpen ==
    \/ ep[This].status = "running" /\ NeedsPeople
    \/ ep[This].status = "stopping" /\ Paused \cup Displaced # {}
    \/ ep[This].status = "wrapping_up" /\ Stranded
EpisodesEnd == Closing ~> (ep[This].status \in Ended \/ LeftOpen \/ boot = "down")

(* Auto-research is an episode as every mode promises one (EpisodeLifecycle). *)
Lifecycle == INSTANCE EpisodeLifecycle
    WITH status <- [e \in Episodes |-> ep[e].status],
         spent <- [e \in Episodes |-> ep[e].used],
         ending <- [e \in Episodes |-> ep[e].ending],
         StatusOf <- _status_for_ending
LifecycleSpec == Lifecycle!Spec
=============================================================================
