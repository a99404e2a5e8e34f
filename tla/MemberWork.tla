---------------------------- MODULE MemberWork ----------------------------
(***************************************************************************)
(* What members have running when they go: a person's request is checked,  *)
(* claims its attachments and only then becomes a task row, in separate    *)
(* steps; episodes wake turns on their authorizer's behalf; a removal      *)
(* fences access, presses the pause and stop owners and completes when     *)
(* nothing is left.  The process can die at any point.                     *)
(*                                                                         *)
(* Source: api/tasks.py (start, resume), attachments.py, background.py     *)
(* (request_member_removal_pause, resume), storage/agent_tasks.py          *)
(* (create_agent_task, has_resumable_paused_chat_task), storage/spaces.py  *)
(* (removal), server_ops/members.py, runs/membership_fence.py,             *)
(* api/project_state.py (leave).                                           *)
(***************************************************************************)
EXTENDS TeamMembers

CONSTANTS
    Ops,          \* operation ids, all turns of one conversation of Home
    Episodes,
    Requests,     \* requests served at the same time
    Home,         \* the project the work belongs to
    NoOp,
    Budgets       \* how much of each kind of event is explored together

(* Operations on people and seats, turns, episodes, removals, pauses pressed by people,
   uploads, expired uploads, and deaths of the process. *)
Events == {"edits", "turns", "runs", "removals", "pauses", "uploads", "expiries", "restarts"}

ASSUME WorkAssumption ==
    /\ Home \in Projects /\ NoOp \notin Ops
    /\ Episodes \cap {"none", "turn"} = {}
    /\ Budgets \subseteq [Events -> Nat]

VARIABLES
    task,      \* task rows
    episode,   \* episodes: [status, by]
    req,       \* requests of people in flight
    set,       \* the attachment set of the conversation
    advance,   \* the removal coordinator
    due,       \* removals a settled worker or the start of the process looks at again
    recovering,\* stopping episodes the start of the process has yet to look at
    leaving,   \* a leave that has given up the seat and not fenced yet
    raced,     \* a turn paused while a fresh one was between check and insert
    late,      \* turns and episodes a request admitted after its author had gone
    died,      \* the process has died at some time
    budget

workVars == <<task, episode>>
ghostVars == <<raced, late, died>>
pending == <<advance, due, recovering, leaving>>
vars == <<teamVars, workVars, req, set, pending, ghostVars, budget>>

NoTask == [status |-> "none", by |-> NoOne, parent |-> NoOp, saved |-> FALSE, owned |-> FALSE, runs |-> FALSE,
           stop |-> FALSE, via |-> "none", batch |-> 0, staged |-> 0]
NoReq == [step |-> "idle", by |-> NoOne, kind |-> "none", op |-> NoOp, target |-> NoOp, batch |-> 0]
NoSet == [ver |-> 0, by |-> NoOp]
NoAdvance == [step |-> "idle", who |-> NoOne, todo |-> {}, shown |-> <<>>]

Live == {"queued", "running", "pausing"}
LiveEpisode == {"running", "stopping"}

Init ==
    /\ TeamInit
    /\ task = [o \in Ops |-> NoTask]
    /\ episode = [e \in Episodes |-> [status |-> "none", by |-> NoOne]]
    /\ req = [r \in Requests |-> NoReq]
    /\ set = NoSet /\ advance = NoAdvance /\ leaving = NoOne /\ due = {} /\ recovering = {}
    /\ raced = FALSE /\ late = {} /\ died = FALSE
    /\ budget \in Budgets

Spend(event) == budget[event] > 0 /\ budget' = [budget EXCEPT ![event] = @ - 1]

LiveTasks(m) == {o \in Ops : task[o].status \in Live /\ task[o].by = m}
LiveEpisodes(m) == {e \in Episodes : episode[e].status \in LiveEpisode /\ episode[e].by = m}

(* has_resumable_paused_chat_task and _has_active_chat_overlap. *)
Resumable(o) ==
    /\ task[o].status = "paused" /\ task[o].saved /\ task[o].via = "turn"
    /\ ~\E c \in Ops : task[c].parent = o
Busy(via) == \E o \in Ops : task[o].via = via /\ task[o].status \in Live
Overlap == Busy("turn")

(* The turns of an episode nobody has taken further, and _settle_experiment_loop_stop's
   question: one that paused, failed or was interrupted is still to be resumed. *)
Leaves(rows, e) == {o \in Ops : rows[o].via = e /\ ~\E c \in Ops : rows[c].parent = o}
Unresolved(rows, e) == {o \in Leaves(rows, e) : rows[o].status # "done"}
Settled(rows, runs) ==
    [e \in Episodes |-> IF runs[e].status = "stopping" /\ Unresolved(rows, e) = {}
                          THEN [runs[e] EXCEPT !.status = "stopped"] ELSE runs[e]]

Reserved == {req[r].op : r \in Requests}
Unused(o) == task[o] = NoTask /\ o \notin Reserved

-----------------------------------------------------------------------------
(* A person's request. *)

(* The middleware resolves the session and the seat, once. *)
Authenticate(r, m, kind, target) ==
    /\ req[r] = NoReq
    /\ resolve_team_session(m) /\ m \in seats[Home]
    /\ Spend(IF kind = "run" THEN "runs" ELSE "turns")
    /\ target # NoOp <=> kind = "resume"
    /\ kind = "resume" => task[target].status \in {"paused", "interrupted"}
    /\ req' = [req EXCEPT ![r] = [NoReq EXCEPT !.step = "entered", !.by = m, !.kind = kind,
                                               !.target = target]]
    /\ UNCHANGED <<teamVars, workVars, set, pending, ghostVars>>

(* Mutant: a paused turn is not looked for. *)
PausedTurnBlocks_Never == FALSE
PausedTurnBlocks == \E o \in Ops : Resumable(o)

(* start_agent_task up to the claim: a paused turn refuses a fresh one. *)
CheckPausedTurn(r) ==
    /\ req[r].step = "entered" /\ req[r].kind = "turn"
    /\ IF PausedTurnBlocks
         THEN req' = [req EXCEPT ![r] = NoReq]
         ELSE \E o \in Ops : Unused(o) /\ req' = [req EXCEPT ![r] = [@ EXCEPT !.step = "checked", !.op = o]]
    /\ UNCHANGED <<teamVars, workVars, set, pending, ghostVars, budget>>

(* Mutant: a claim does not ask who has the set. *)
Claimable_Any(o) == set.ver # 0
Claimable(o) == set.ver # 0 /\ set.by \in {NoOp, o}

(* ChatAttachmentStore.claim, when the turn has attachments. *)
claim(r) ==
    /\ req[r].step = "checked"
    /\ \/ req' = [req EXCEPT ![r] = [@ EXCEPT !.step = "claimed"]] /\ UNCHANGED set
       \/ /\ Claimable(req[r].op)
          /\ set' = [set EXCEPT !.by = req[r].op]
          /\ req' = [req EXCEPT ![r] = [@ EXCEPT !.step = "claimed", !.batch = set.ver]]
       \/ ~Claimable(req[r].op) /\ req' = [req EXCEPT ![r] = NoReq] /\ UNCHANGED set
    /\ UNCHANGED <<teamVars, workVars, pending, ghostVars, budget>>

(* The row as a request inserts it. *)
Row(r, via) ==
    [NoTask EXCEPT !.status = "queued", !.by = req[r].by, !.via = via, !.batch = req[r].batch]

(* release: a claim whose row was not created goes back to ingress. *)
release(r) == set' = IF req[r].batch # 0 /\ set.by = req[r].op THEN [set EXCEPT !.by = NoOp] ELSE set

(* What a request admits after its author has lost the seat it was let in with. *)
Overtaken(r, x) == IF req[r].by \in seats[Home] THEN late ELSE late \cup {x}

(* create_agent_task for a fresh turn. *)
InsertTurn(r) ==
    /\ req[r].step = "claimed"
    /\ IF Overlap
         THEN release(r) /\ UNCHANGED <<task, late>>
         ELSE /\ task' = [task EXCEPT ![req[r].op] = Row(r, "turn")]
              /\ late' = Overtaken(r, req[r].op)
              /\ UNCHANGED set
    /\ req' = [req EXCEPT ![r] = NoReq]
    /\ UNCHANGED <<teamVars, episode, pending, raced, died, budget>>

(* The child that takes a turn further; a turn of an episode stays in the name
   of the episode's authorizer, whoever resumes it. *)
Child(parent, by) ==
    [NoTask EXCEPT !.status = "queued", !.via = task[parent].via, !.parent = parent, !.saved = TRUE,
                   !.by = IF task[parent].via \in Episodes THEN episode[task[parent].via].by ELSE by,
                   !.batch = task[parent].batch]

(* resume: only with a session that was saved, while no other turn is under way,
   and for a turn of an episode while that is not over.  A turn that was already
   taken further can be resumed again. *)
InsertResume(r) ==
    /\ req[r].step = "entered" /\ req[r].kind = "resume"
    /\ LET parent == task[req[r].target]
       IN  IF Busy(parent.via) \/ ~parent.saved
              \/ (parent.via \in Episodes /\ episode[parent.via].status \notin LiveEpisode)
             THEN UNCHANGED <<task, late>>
             ELSE \E o \in Ops : /\ Unused(o) /\ late' = Overtaken(r, o)
                                 /\ task' = [task EXCEPT ![o] = Child(req[r].target, req[r].by)]
    /\ req' = [req EXCEPT ![r] = NoReq]
    /\ UNCHANGED <<teamVars, episode, set, pending, raced, died, budget>>

(* Run on an Experiment: the episode and its first turn in one transaction. *)
InsertEpisode(r) ==
    /\ req[r].step = "entered" /\ req[r].kind = "run"
    /\ \E e \in Episodes, o \in Ops :
          /\ episode[e].status = "none" /\ Unused(o)
          /\ episode' = [episode EXCEPT ![e] = [status |-> "running", by |-> req[r].by]]
          /\ task' = [task EXCEPT ![o] = Row(r, e)]
          /\ late' = Overtaken(r, e)
    /\ req' = [req EXCEPT ![r] = NoReq]
    /\ UNCHANGED <<teamVars, set, pending, raced, died, budget>>

(* Ids run out. *)
NothingLeft(r) ==
    /\ req[r].step = "entered"
    /\ \/ ~\E o \in Ops : Unused(o)
       \/ req[r].kind = "run" /\ \A e \in Episodes : episode[e].status # "none"
    /\ req[r].kind = "turn" => ~PausedTurnBlocks
    /\ req' = [req EXCEPT ![r] = NoReq]
    /\ UNCHANGED <<teamVars, workVars, set, pending, ghostVars, budget>>

-----------------------------------------------------------------------------
(* Attachments: add, remove, sweep. *)

add ==
    /\ set.by = NoOp /\ Spend("uploads")
    /\ set' = [set EXCEPT !.ver = budget["uploads"]]
    /\ UNCHANGED <<teamVars, workVars, req, pending, ghostVars>>

remove ==
    /\ set.by = NoOp /\ set.ver # 0
    /\ set' = NoSet
    /\ UNCHANGED <<teamVars, workVars, req, pending, ghostVars, budget>>

sweep ==
    /\ set.ver # 0 /\ Spend("expiries")
    /\ set' = NoSet
    /\ UNCHANGED <<teamVars, workVars, req, pending, ghostVars>>

-----------------------------------------------------------------------------
(* Workers. *)

(* stage: the set must be claimed and hold what the task was admitted with. *)
StageFits(o) == set.by # NoOp /\ set.ver = task[o].batch

Launch(o) ==
    /\ task[o].status = "queued"
    /\ \/ ~task[o].owned /\ task' = [task EXCEPT ![o] = [@ EXCEPT !.owned = TRUE]]
       \/ /\ task[o].owned
          /\ task' = [task EXCEPT ![o] = IF task[o].batch # 0 /\ ~StageFits(o)
                                           THEN [@ EXCEPT !.status = "failed"]
                                           ELSE [@ EXCEPT !.status = "running", !.runs = TRUE, !.saved = TRUE,
                                                          !.staged = IF task[o].batch = 0 THEN 0 ELSE set.ver]]
    /\ UNCHANGED <<teamVars, episode, req, set, pending, ghostVars, budget>>

Checking == \E r \in Requests : req[r].step \in {"checked", "claimed"}

(* A turn ends.  It ends paused when the worker saw the pause before the
   provider was started, or when a person's pause reached the provider. *)
Settle(o) ==
    /\ task[o].owned /\ task[o].status \in {"running", "pausing"}
    /\ \E s \in {"done", "failed", "paused"} :
          /\ s = "paused" => task[o].status = "pausing" /\ (task[o].stop \/ ~task[o].runs)
          /\ s # "paused" => task[o].runs
          /\ task' = [task EXCEPT ![o] = [@ EXCEPT !.status = s, !.runs = FALSE, !.stop = FALSE]]
          /\ raced' = (raced \/ (s = "paused" /\ task[o].saved /\ task[o].via = "turn" /\ Checking))
    /\ UNCHANGED <<teamVars, episode, req, set, pending, late, died, budget>>

(* Its worker then has the stopped episodes settled, and every removal under
   way looked at again, before it lets go of the row. *)
_task_settled(o) ==
    /\ task[o].owned /\ task[o].status \notin Live
    /\ task' = [task EXCEPT ![o] = [@ EXCEPT !.owned = FALSE]]
    /\ episode' = IF task[o].via \in Episodes THEN Settled(task, episode) ELSE episode
    /\ due' = {m \in Members : user[m] = "removing"}
    /\ UNCHANGED <<teamVars, req, set, advance, recovering, leaving, ghostVars, budget>>

(* pause, pressed by a person.  A row that is not owned yet is not launched
   any more and stays pausing until the process is restarted. *)
pause(o) ==
    /\ task[o].status \in {"queued", "running"} /\ Spend("pauses")
    /\ task' = [task EXCEPT ![o] = [@ EXCEPT !.status = "pausing", !.stop = task[o].owned]]
    /\ UNCHANGED <<teamVars, episode, req, set, pending, ghostVars>>

(* A watcher wakes a running episode on its authorizer's behalf. *)
Wake(e) ==
    /\ episode[e].status = "running" /\ Unresolved(task, e) = {}
    /\ \E o \in Ops :
          /\ Unused(o)
          /\ task' = [task EXCEPT ![o] = [NoTask EXCEPT !.status = "queued", !.via = e,
                                                        !.by = episode[e].by]]
    /\ UNCHANGED <<teamVars, episode, req, set, pending, ghostVars, budget>>

(* _fence_one for each live episode of m: the stop is recorded, and settled at
   once when no turn of the episode is left to be taken further. *)
Fenced(m) ==
    Settled(task, [e \in Episodes |-> IF episode[e].by = m /\ episode[e].status = "running"
                                        THEN [episode[e] EXCEPT !.status = "stopping"] ELSE episode[e]])

-----------------------------------------------------------------------------
(* leave_project of the API: the seat first, then the fence. *)

Leave(m) ==
    /\ leaving = NoOne /\ leave_project(Home, m)
    /\ leaving' = m
    /\ UNCHANGED <<workVars, req, set, advance, due, recovering, ghostVars, budget>>

fence_episodes_for_departed_member ==
    /\ leaving # NoOne
    /\ episode' = Fenced(leaving) /\ leaving' = NoOne
    /\ UNCHANGED <<teamVars, task, req, set, advance, due, recovering, ghostVars, budget>>

-----------------------------------------------------------------------------
(* The removal coordinator. *)

(* _member_removal_preview_from_connection: everything the boundary covers. *)
Inventory(m) ==
    <<user[m], {p \in Projects : m \in seats[p]}, LiveTasks(m), LiveEpisodes(m), m \in token,
      m \in session, {c \in Codes : code[c].by = m /\ code[c].state \notin {"consumed", "revoked"}},
      {q \in invited : m \in {q[2], q[3]}}, Authenticating>>

(* _removal_blockers. *)
Removable(m) ==
    /\ m \in token => Authenticating \ {m} # {}
    /\ \A p \in Projects : m \in seats[p] => AuthenticatingIn(p) \ {m} # {}

(* plan: the operator is shown the consequences. *)
plan(m) ==
    /\ advance = NoAdvance /\ user[m] = "active" /\ Spend("removals")
    /\ advance' = [NoAdvance EXCEPT !.step = "shown", !.who = m, !.shown = Inventory(m)]
    /\ UNCHANGED <<teamVars, workVars, req, set, due, recovering, leaving, ghostVars>>

GiveUp ==
    /\ advance.step = "shown"
    /\ Inventory(advance.who) # advance.shown \/ ~Removable(advance.who)
    /\ advance' = NoAdvance
    /\ UNCHANGED <<teamVars, workVars, req, set, due, recovering, leaving, ghostVars, budget>>

(* begin_member_removal: only over the consequences that were shown. *)
begin_member_removal ==
    /\ advance.step = "shown"
    /\ Inventory(advance.who) = advance.shown /\ Removable(advance.who)
    /\ AccessFence(advance.who)
    /\ advance' = [advance EXCEPT !.step = "pausing", !.todo = LiveTasks(advance.who), !.shown = <<>>]
    /\ UNCHANGED <<workVars, req, set, due, recovering, leaving, ghostVars, budget>>

(* Mutant: a removal is looked at again by the command alone. *)
reconcile_pending_Command(m) ==
    /\ m \in due /\ advance = NoAdvance
    /\ due' = due \ {m} /\ UNCHANGED advance
    /\ UNCHANGED <<teamVars, workVars, req, set, recovering, leaving, ghostVars, budget>>

(* reconcile_pending, from a settling worker or the start of the process. *)
reconcile_pending(m) ==
    /\ m \in due /\ advance = NoAdvance
    /\ due' = due \ {m}
    /\ advance' = IF user[m] = "removing"
                    THEN [NoAdvance EXCEPT !.step = "pausing", !.who = m, !.todo = LiveTasks(m)]
                    ELSE advance
    /\ UNCHANGED <<teamVars, workVars, req, set, recovering, leaving, ghostVars, budget>>

(* request_member_removal_pause: an owned row is left to its worker, one
   without a worker is settled here, one that is already pausing refuses. *)
request_member_removal_pause(o) ==
    /\ advance.step = "pausing" /\ o \in advance.todo
    /\ advance' = [advance EXCEPT !.todo = @ \ {o}]
    /\ task' = IF task[o].status \in {"queued", "running"}
                 THEN [task EXCEPT ![o] = [@ EXCEPT !.status = IF task[o].owned THEN "pausing" ELSE "paused"]]
                 ELSE task
    /\ raced' = (raced \/ (task'[o].status = "paused" /\ task[o].status # "paused"
                            /\ task[o].saved /\ task[o].via = "turn" /\ Checking))
    /\ UNCHANGED <<teamVars, episode, req, set, due, recovering, leaving, late, died, budget>>

fence_episodes_for_removed_member ==
    /\ advance.step = "pausing" /\ advance.todo = {}
    /\ episode' = Fenced(advance.who)
    /\ advance' = [advance EXCEPT !.step = "completing"]
    /\ UNCHANGED <<teamVars, task, req, set, due, recovering, leaving, ghostVars, budget>>

(* Mutant: an episode without a turn of its own is taken to be over. *)
complete_member_removal_TasksOnly ==
    /\ advance.step = "completing"
    /\ user' = IF LiveTasks(advance.who) = {}
                 THEN [user EXCEPT ![advance.who] = "removed"] ELSE user
    /\ advance' = NoAdvance
    /\ UNCHANGED <<order, token, session, code, seats, invited>>
    /\ UNCHANGED <<workVars, req, set, due, recovering, leaving, ghostVars, budget>>

(* complete_member_removal: only when nothing the member authorized is live. *)
complete_member_removal ==
    /\ advance.step = "completing"
    /\ user' = IF LiveTasks(advance.who) = {} /\ LiveEpisodes(advance.who) = {}
                 THEN [user EXCEPT ![advance.who] = "removed"] ELSE user
    /\ advance' = NoAdvance
    /\ UNCHANGED <<order, token, session, code, seats, invited>>
    /\ UNCHANGED <<workVars, req, set, due, recovering, leaving, ghostVars, budget>>

-----------------------------------------------------------------------------
(* The process dies and starts again: requests and the coordinator are gone,
   recover_at_startup settles the live rows, and removals under way are due. *)
Restart ==
    /\ Spend("restarts") /\ died' = TRUE
    /\ task' = [o \in Ops |->
                  [task[o] EXCEPT !.owned = FALSE, !.runs = FALSE, !.stop = FALSE,
                                  !.status = IF @ \notin Live THEN @
                                             ELSE IF @ = "pausing" THEN "paused" ELSE "interrupted"]]
    /\ req' = [r \in Requests |-> NoReq]
    /\ advance' = NoAdvance /\ leaving' = NoOne
    /\ due' = {m \in Members : user[m] = "removing"}
    /\ recovering' = {e \in Episodes : episode[e].status = "stopping"}
    /\ UNCHANGED <<teamVars, episode, set, raced, late>>

(* restart_stopping_experiment_recoveries and settle_ready_experiment_loop_stops:
   a last turn of a stopping episode is taken further, or left alone while its machine
   cannot be reached; or all are abandoned because what one needs is gone. *)
restart_stopping_experiment_recovery(e) ==
    /\ e \in recovering
    /\ recovering' = recovering \ {e}
    /\ \/ UNCHANGED task /\ episode' = Settled(task, episode)
       \/ /\ episode[e].status = "stopping" /\ ~Busy(e)
          /\ \/ \E l \in Unresolved(task, e), o \in Ops :
                   /\ task[l].saved /\ Unused(o)
                   /\ task' = [task EXCEPT ![o] = Child(l, NoOne)] /\ UNCHANGED episode
             \/ /\ Unresolved(task, e) # {}
                /\ episode' = [episode EXCEPT ![e] = [@ EXCEPT !.status = "stopped"]] /\ UNCHANGED task
    /\ UNCHANGED <<teamVars, req, set, advance, due, leaving, ghostVars, budget>>

-----------------------------------------------------------------------------
TeamStep ==
    /\ Spend("edits")
    /\ TeamNext
    /\ UNCHANGED <<workVars, req, set, pending, ghostVars>>

Admission ==
    \E r \in Requests : \/ CheckPausedTurn(r) \/ claim(r) \/ InsertTurn(r) \/ InsertResume(r)
                        \/ InsertEpisode(r) \/ NothingLeft(r)
Work == \/ \E o \in Ops : Launch(o) \/ Settle(o) \/ _task_settled(o)
        \/ \E e \in Episodes : restart_stopping_experiment_recovery(e)
Removal ==
    \/ GiveUp \/ begin_member_removal
    \/ \E m \in Members : reconcile_pending(m)
    \/ \E o \in Ops : request_member_removal_pause(o)
    \/ fence_episodes_for_removed_member \/ complete_member_removal

(* What the process does once it has started. *)
Serving ==
    \/ TeamStep \/ Admission \/ Removal
    \/ \E r \in Requests, m \in Members, k \in {"turn", "resume", "run"}, o \in Ops \cup {NoOp} :
          Authenticate(r, m, k, o)
    \/ \E m \in Members : plan(m) \/ Leave(m)
    \/ fence_episodes_for_departed_member
    \/ \E o \in Ops : pause(o)
    \/ \E e \in Episodes : Wake(e)
    \/ add \/ remove \/ sweep

Next == Work \/ Restart \/ (recovering = {} /\ Serving)

(* Handlers return, workers finish their turns, and what is due is done. *)
Fairness ==
    /\ WF_vars(Work) /\ WF_vars(recovering = {} /\ Admission)
    /\ WF_vars(recovering = {} /\ Removal)
    /\ WF_vars(recovering = {} /\ fence_episodes_for_departed_member)
Spec == Init /\ [][Next]_vars /\ Fairness

-----------------------------------------------------------------------------
TypeOK ==
    /\ TeamTypeOK
    /\ \A o \in Ops : /\ task[o].status \in Live \cup {"none", "paused", "done", "failed", "interrupted"}
                      /\ task[o].runs => task[o].owned /\ task[o].status \in {"running", "pausing"}
                      /\ task[o].by = NoOne <=> task[o].status = "none"
    /\ \A e \in Episodes : episode[e].status \in LiveEpisode \cup {"none", "stopped"}
    /\ set.ver \in Nat /\ set.by \in Ops \cup {NoOp}

(* Work that is live for a member who is gone was asked for by that member in a
   request that had been authenticated before the fence: nothing the member had
   running or had set up outlives the removal. *)
NoWorkAfterRemoval ==
    \A m \in Members : user[m] = "removed" =>
        /\ LiveEpisodes(m) \subseteq late
        /\ \A o \in LiveTasks(m) : o \in late \/ task[o].via \in late

(* A fresh turn is never under way beside a paused one that can still be resumed,
   unless the pause landed between the check and the insert. *)
PausedTurnIsDecided ==
    raced \/ \A o, c \in Ops :
        ~(Resumable(o) /\ task[c].via = "turn" /\ task[c].status \in Live /\ task[c].parent = NoOp)

(* The files of one message go to one turn and the turns that resume it, and a
   turn is only ever given the files it was admitted with.  A set is only kept from
   being sent by a turn that exists or is being admitted; only the death of the
   process in between strands one. *)
FilesOfOneTurn ==
    /\ TypeOK
    /\ set.by # NoOp /\ ~died => task[set.by] # NoTask \/ set.by \in Reserved
    /\ \A o \in Ops : task[o].staged # 0 => task[o].staged = task[o].batch
    /\ \A o, c \in Ops : set.by \in {o, c} /\ o # c /\ task[o].batch = set.ver /\ task[c].batch = set.ver
          /\ task[o].parent = NoOp /\ task[c].parent = NoOp => FALSE

(* Neither turns nor files of one conversation are taken for another's. *)
TurnsDoNotMix == PausedTurnIsDecided /\ FilesOfOneTurn

(* A removal that has begun is completed, unless it waits for a row that is
   pausing without a worker, or for a turn of a stopping episode that is left to be
   resumed.  And an episode of a person who has left the project stops, unless the
   process died before the fence was pressed or a request admitted it afterwards. *)
RemovalDrains ==
    /\ \A e \in Episodes : (episode[e].status = "running" /\ episode[e].by \notin seats[Home])
        ~> (episode[e].status # "running" \/ died \/ e \in late
              \/ episode[e].by \in seats[Home])
    /\ \A m \in Members : user[m] = "removing"
        ~> \/ user[m] = "removed"
           \/ \E o \in Ops : /\ task[o].by = m
                             /\ task[o].status \in {"pausing", "paused", "failed", "interrupted"}
                             /\ ~task[o].owned
=============================================================================
