--------------------------- MODULE WatcherDelivery ---------------------------
(***************************************************************************)
(* From a watcher's check to the Work turn it wakes: the poller's stale    *)
(* snapshots, delivery units assembled by three kinds of thread (poller,   *)
(* task settlement, retry worker), the authorizer check, the claim         *)
(* transaction of create_watcher_notification_task under the delivery lock *)
(* and the retry worker's generation lease, human and agent stops, the     *)
(* conversation's own turns, admission closing and process death.          *)
(*                                                                         *)
(* One conversation on one graph target: every watcher has the same        *)
(* delivery binding, so all ready units form one delivery.                 *)
(***************************************************************************)
EXTENDS Naturals, FiniteSets

CONSTANTS ChatWatchers, \* watcher ids of the conversation
          Setups,       \* what is armed, and the bounds, of the cases considered
          Nobody,       \* an origin task without a human authorizer
          Wakes,        \* ids of the turns deliveries may create
          HumanTurns,   \* ids of the turns humans may start
          Poller,       \* the watcher poller's thread
          Settlers,     \* threads delivering at a task's settlement
          RetryThreads, \* threads the retry worker may start, one per generation
          NoThread,     \* nobody
          ErrorLimit    \* WATCHER_GROUP_DIAGNOSTIC_ERROR_COUNT

ASSUME DeliveryAssumption ==
    /\ \A s \in Setups :
          /\ s.grouped \subseteq s.armed /\ s.graph \subseteq s.armed /\ s.armed \subseteq ChatWatchers
          /\ s.retries \subseteq RetryThreads /\ s.closes \in Nat /\ s.crashes \in Nat
    /\ Wakes \cap HumanTurns = {}
    /\ Poller \notin Settlers \cup RetryThreads /\ Settlers \cap RetryThreads = {}
    /\ NoThread \notin {Poller} \cup Settlers \cup RetryThreads
    /\ ErrorLimit \in Nat \ {0}

VARIABLES
    setup,      \* the case at hand
    status,     \* status of each watcher row
    errs,       \* consecutive_error_count, counted up to ErrorLimit
    notified,   \* watchers with notified = 1
    stoppedBy,  \* who stopped each watcher
    turn,       \* each turn: "none", "active" or "settled"
    names,      \* the watchers each turn's row claims
    polled,     \* watchers the running poll pass has yet to check
    dpc,        \* where each thread is in a delivery
    unit,       \* the delivery unit each thread read
    accepting,  \* _accepting_watcher_deliveries
    dlock,      \* holder of _watcher_delivery_lock
    lease,      \* the retry thread whose generation is current
    begun,      \* retry threads started so far
    running,    \* the process is running
    closes, deaths   \* spent bounds

rowVars == <<status, errs, notified, stoppedBy>>
turnVars == <<turn, names>>
procVars == <<accepting, dlock, lease, begun, running, closes, deaths>>
wdVars == <<rowVars, turnVars, polled, dpc, unit, procVars>>

Grouped == setup.grouped   \* members of the conversation's one durable watcher group
Graph == setup.graph       \* graph conditions among the watchers
Author == setup.author     \* the human who authorized each watcher's origin task

Deliverers == {Poller} \cup Settlers \cup RetryThreads
Turns == Wakes \cup HumanTurns
Open == {"active", "degraded"}

(* A watcher the case leaves out was stopped long ago. *)
WDInit ==
    /\ setup \in Setups
    /\ status = [w \in ChatWatchers |-> IF w \in setup.armed THEN "active" ELSE "stopped"]
    /\ errs = [w \in ChatWatchers |-> 0]
    /\ notified = ChatWatchers \ setup.armed
    /\ stoppedBy = [w \in ChatWatchers |-> IF w \in setup.armed THEN "none" ELSE "human"]
    /\ turn = [t \in Turns |-> "none"]
    /\ names = [t \in Turns |-> {}]
    /\ polled = {}
    /\ dpc = [d \in Deliverers |-> "idle"]
    /\ unit = [d \in Deliverers |-> {}]
    /\ accepting = TRUE
    /\ dlock = NoThread
    /\ lease = NoThread
    /\ begun = {}
    /\ running = TRUE
    /\ closes = 0 /\ deaths = 0

-----------------------------------------------------------------------------
(* Checks. *)

(* A pass reads the due external rows; the checks run after the read. *)
PollBegins(S) ==
    /\ running
    /\ dpc[Poller] = "idle"
    /\ S \subseteq {w \in ChatWatchers \ Graph : status[w] \in Open /\ w \notin notified}
    /\ polled' = S
    /\ dpc' = [dpc EXCEPT ![Poller] = "checking"]
    /\ UNCHANGED <<rowVars, turnVars, unit, procVars>>

(* A check answers; a row stopped or claimed meanwhile keeps its status. *)
record_watcher_check(w, result) ==
    /\ running
    /\ w \in polled
    /\ polled' = polled \ {w}
    /\ IF status[w] \in Open /\ w \notin notified
         THEN /\ status' = [status EXCEPT ![w] = result]
              /\ errs' = [errs EXCEPT ![w] = IF result # "degraded" THEN 0
                                             ELSE IF @ < ErrorLimit THEN @ + 1 ELSE @]
         ELSE UNCHANGED <<status, errs>>
    /\ UNCHANGED <<notified, stoppedBy, turnVars, dpc, unit, procVars>>

(* An accepted graph boundary completes or retires a graph condition. *)
BoundaryDecides(w, result) ==
    /\ running
    /\ w \in Graph
    /\ status[w] = "active"
    /\ status' = [status EXCEPT ![w] = result]
    /\ IF result = "stopped"
         THEN /\ notified' = notified \cup {w}
              /\ stoppedBy' = [stoppedBy EXCEPT ![w] = "loop"]
         ELSE UNCHANGED <<notified, stoppedBy>>
    /\ UNCHANGED <<errs, turnVars, polled, dpc, unit, procVars>>

-----------------------------------------------------------------------------
(* Delivery units. *)

(* Mutant: the members that are ready are delivered without the others. *)
_ready_group_SomeMembers ==
    {w \in Grouped : /\ status[w] # "stopped" /\ w \notin notified
                     /\ \/ status[w] = "completed"
                        \/ status[w] = "degraded" /\ errs[w] >= ErrorLimit}

(* The members a collectively ready group delivers, none while it is not. *)
_ready_group_members ==
    LET members == {w \in Grouped : stoppedBy[w] # "agent"} IN
    IF /\ \A w \in members : /\ status[w] # "stopped" /\ w \notin notified
                             /\ \/ status[w] = "completed"
                                \/ status[w] = "degraded" /\ errs[w] >= ErrorLimit
      THEN members ELSE {}

Ready == {w \in ChatWatchers \ Grouped : status[w] = "completed" /\ w \notin notified}
         \cup (IF \E w \in Grouped : /\ w \notin notified
                                     /\ \/ status[w] = "completed"
                                        \/ status[w] = "degraded" /\ errs[w] >= ErrorLimit
                 THEN _ready_group_members ELSE {})

(* Mutant: no thread takes a delivery with a graph condition. *)
ReadsReady_NoGraph(d) ==
    /\ running
    /\ \/ d = Poller /\ dpc[d] = "checking" /\ polled = {}
       \/ d \in Settlers /\ dpc[d] = "idle"
       \/ d \in RetryThreads /\ dpc[d] = "idle" /\ lease = d
    /\ IF Ready # {} /\ Ready \cap Graph = {}
         THEN /\ unit' = [unit EXCEPT ![d] = Ready]
              /\ dpc' = [dpc EXCEPT ![d] = "resolving"]
         ELSE /\ d = Poller
              /\ dpc' = [dpc EXCEPT ![d] = "idle"]
              /\ UNCHANGED unit
    /\ UNCHANGED <<rowVars, turnVars, polled, procVars>>

(* The poller, its checks done, leaves deliveries with a graph condition to
   the other threads, which take no other; a retry pass needs its lease. *)
ReadsReadyGroups(d) ==
    /\ running
    /\ \/ d = Poller /\ dpc[d] = "checking" /\ polled = {}
       \/ d \in Settlers /\ dpc[d] = "idle"
       \/ d \in RetryThreads /\ dpc[d] = "idle" /\ lease = d
    /\ IF Ready # {} /\ (d = Poller <=> Ready \cap Graph = {})
         THEN /\ unit' = [unit EXCEPT ![d] = Ready]
              /\ dpc' = [dpc EXCEPT ![d] = "resolving"]
         ELSE /\ d = Poller
              /\ dpc' = [dpc EXCEPT ![d] = "idle"]
              /\ UNCHANGED unit
    /\ UNCHANGED <<rowVars, turnVars, polled, procVars>>

Returns(d) ==
    /\ dpc' = [dpc EXCEPT ![d] = "idle"]
    /\ unit' = [unit EXCEPT ![d] = {}]

(* Every row of unit S still awaits delivery, and its group is whole. *)
Claimable(S) ==
    /\ \A w \in S : status[w] \in {"completed", "degraded"} /\ w \notin notified
    /\ \A w \in S \ Grouped : status[w] = "completed"
    /\ S \cap Grouped # {} => /\ _ready_group_members # {}
                              /\ _ready_group_members \subseteq S

(* resolve_watcher_delivery_authorizer: in one transaction, the unit is seen
   still deliverable and its one human found, or it is stopped for good. *)
resolve_watcher_delivery_authorizer(d) ==
    /\ running
    /\ dpc[d] = "resolving"
    /\ \/ /\ d \in RetryThreads /\ lease # d
          /\ Returns(d)
          /\ UNCHANGED rowVars
       \/ /\ ~Claimable(unit[d])
          /\ Returns(d)
          /\ UNCHANGED rowVars
       \/ /\ Claimable(unit[d])
          /\ \E h \in {Author[w] : w \in ChatWatchers} \ {Nobody} : \A w \in unit[d] : Author[w] = h
          /\ dpc' = [dpc EXCEPT ![d] = "claiming"]
          /\ UNCHANGED <<rowVars, unit>>
       \/ /\ Claimable(unit[d])
          /\ ~\E h \in {Author[w] : w \in ChatWatchers} \ {Nobody} : \A w \in unit[d] : Author[w] = h
          /\ status' = [w \in ChatWatchers |-> IF w \in unit[d] THEN "stopped" ELSE status[w]]
          /\ notified' = notified \cup unit[d]
          /\ stoppedBy' = [w \in ChatWatchers |-> IF w \in unit[d] THEN "rcp" ELSE stoppedBy[w]]
          /\ UNCHANGED errs
          /\ Returns(d)
    /\ UNCHANGED <<turnVars, polled, procVars>>

(* Mutant: the admission flag is not looked at under the lock. *)
claim_IgnoresClose(d) ==
    /\ running
    /\ dpc[d] = "claiming"
    /\ dlock = NoThread
    /\ dlock' = d
    /\ dpc' = [dpc EXCEPT ![d] = "locked"]
    /\ UNCHANGED <<rowVars, turnVars, unit, polled, accepting, lease, begun, running, closes, deaths>>

(* claim_and_spawn enters the delivery lock, a retry pass only while its
   generation is current, and gives up if admission is closed. *)
claim_and_spawn(d) ==
    /\ running
    /\ dpc[d] = "claiming"
    /\ dlock = NoThread
    /\ IF accepting /\ (d \in RetryThreads => lease = d)
         THEN /\ dlock' = d
              /\ dpc' = [dpc EXCEPT ![d] = "locked"]
              /\ UNCHANGED unit
         ELSE Returns(d) /\ UNCHANGED dlock
    /\ UNCHANGED <<rowVars, turnVars, polled, accepting, lease, begun, running, closes, deaths>>

_has_active_chat_overlap == \E t \in Turns : turn[t] = "active"

(* Mutant: the transaction trusts the unit that was read before it. *)
create_notification_TrustsUnit(d) ==
    /\ running
    /\ dpc[d] = "locked"
    /\ \E t \in Wakes :
          /\ turn[t] = "none"
          /\ ~_has_active_chat_overlap
          /\ turn' = [turn EXCEPT ![t] = "active"]
          /\ names' = [names EXCEPT ![t] = unit[d]]
          /\ notified' = notified \cup unit[d]
    /\ dlock' = NoThread
    /\ Returns(d)
    /\ UNCHANGED <<status, errs, stoppedBy, polled, accepting, lease, begun, running, closes, deaths>>

(* The claim transaction re-reads the unit, yields to a live turn of the
   conversation, and otherwise queues the turn and marks every row. *)
create_watcher_notification_task(d) ==
    /\ running
    /\ dpc[d] = "locked"
    /\ \/ \E t \in Wakes :
             /\ turn[t] = "none"
             /\ Claimable(unit[d])
             /\ ~_has_active_chat_overlap
             /\ turn' = [turn EXCEPT ![t] = "active"]
             /\ names' = [names EXCEPT ![t] = unit[d]]
             /\ notified' = notified \cup unit[d]
       \/ /\ ~Claimable(unit[d]) \/ _has_active_chat_overlap
          /\ UNCHANGED <<notified, turnVars>>
    /\ dlock' = NoThread
    /\ Returns(d)
    /\ UNCHANGED <<status, errs, stoppedBy, polled, accepting, lease, begun, running, closes, deaths>>

-----------------------------------------------------------------------------
(* Humans, agents, turns. *)

(* A claimed update can no longer be stopped. *)
stop_watchers(w) ==
    /\ running
    /\ status[w] \in Open \cup {"completed"}
    /\ w \notin notified
    /\ status' = [status EXCEPT ![w] = "stopped"]
    /\ notified' = notified \cup {w}
    /\ stoppedBy' = [stoppedBy EXCEPT ![w] = "human"]
    /\ UNCHANGED <<errs, turnVars, polled, dpc, unit, procVars>>

(* An Experiment turn's handoff retires an external watcher. *)
_validate_and_apply_agent_watcher_stops(w) ==
    /\ running
    /\ w \notin Graph
    /\ status[w] \in Open \cup {"completed"}
    /\ w \notin notified
    /\ \E t \in Turns : turn[t] = "active"
    /\ status' = [status EXCEPT ![w] = "stopped"]
    /\ notified' = notified \cup {w}
    /\ stoppedBy' = [stoppedBy EXCEPT ![w] = "agent"]
    /\ UNCHANGED <<errs, turnVars, polled, dpc, unit, procVars>>

(* create_agent_task refuses a second live turn of the conversation. *)
HumanStarts(t) ==
    /\ running
    /\ t \in HumanTurns
    /\ turn[t] = "none"
    /\ ~_has_active_chat_overlap
    /\ turn' = [turn EXCEPT ![t] = "active"]
    /\ UNCHANGED <<rowVars, names, polled, dpc, unit, procVars>>

TurnSettles(t) ==
    /\ running
    /\ turn[t] = "active"
    /\ turn' = [turn EXCEPT ![t] = "settled"]
    /\ UNCHANGED <<rowVars, names, polled, dpc, unit, procVars>>

-----------------------------------------------------------------------------
(* Lifecycle. *)

(* close and accept_watcher_notifications, under the delivery lock. *)
close_watcher_notifications ==
    /\ running
    /\ accepting
    /\ closes < setup.closes
    /\ closes' = closes + 1
    /\ dlock = NoThread
    /\ accepting' = FALSE
    /\ UNCHANGED <<rowVars, turnVars, polled, dpc, unit, dlock, lease, begun, running, deaths>>

accept_watcher_notifications ==
    /\ running
    /\ ~accepting
    /\ dlock = NoThread
    /\ accepting' = TRUE
    /\ UNCHANGED <<rowVars, turnVars, polled, dpc, unit, dlock, lease, begun, running, closes, deaths>>

(* A new generation supersedes the old one, whose thread may still run. *)
StartRetryWorker(d) ==
    /\ running
    /\ d \in setup.retries \ begun
    /\ lease = NoThread
    /\ dlock \notin RetryThreads
    /\ lease' = d
    /\ begun' = begun \cup {d}
    /\ UNCHANGED <<rowVars, turnVars, polled, dpc, unit, accepting, dlock, running, closes, deaths>>

(* stop() waits for the lifecycle lock a claiming retry pass holds. *)
StopRetryWorker ==
    /\ running
    /\ lease # NoThread
    /\ dlock \notin RetryThreads
    /\ setup.retries \ begun # {}
    /\ lease' = NoThread
    /\ UNCHANGED <<rowVars, turnVars, polled, dpc, unit, accepting, dlock, begun, running, closes, deaths>>

(* Death of the process interrupts the live turns at the next start; their
   claims stay. *)
ServerDies ==
    /\ running
    /\ deaths < setup.crashes
    /\ deaths' = deaths + 1
    /\ running' = FALSE
    /\ turn' = [t \in Turns |-> IF turn[t] = "active" THEN "settled" ELSE turn[t]]
    /\ polled' = {}
    /\ dpc' = [d \in Deliverers |-> "idle"]
    /\ unit' = [d \in Deliverers |-> {}]
    /\ accepting' = FALSE
    /\ dlock' = NoThread
    /\ lease' = NoThread
    /\ begun' = {}
    /\ UNCHANGED <<rowVars, names, closes>>

Restart ==
    /\ ~running
    /\ running' = TRUE
    /\ accepting' = TRUE
    /\ UNCHANGED <<rowVars, turnVars, polled, dpc, unit, dlock, lease, begun, closes, deaths>>

Continues(d) ==
    \/ resolve_watcher_delivery_authorizer(d)
    \/ claim_and_spawn(d)
    \/ create_watcher_notification_task(d)

Delivers(d) == ReadsReadyGroups(d) \/ Continues(d)

WDNext ==
    \/ \E S \in SUBSET ChatWatchers : PollBegins(S)
    \/ \E w \in ChatWatchers : \/ \E r \in {"active", "completed", "degraded"} :
                                     record_watcher_check(w, r)
                               \/ \E r \in {"completed", "stopped"} : BoundaryDecides(w, r)
                               \/ stop_watchers(w)
                               \/ _validate_and_apply_agent_watcher_stops(w)
    \/ \E d \in Deliverers : Delivers(d)
    \/ \E t \in Turns : HumanStarts(t) \/ TurnSettles(t)
    \/ close_watcher_notifications
    \/ accept_watcher_notifications
    \/ \E d \in RetryThreads : StartRetryWorker(d)
    \/ StopRetryWorker
    \/ ServerDies
    \/ Restart

WDSpec == WDInit /\ [][WDNext /\ UNCHANGED setup]_<<wdVars, setup>>

(***************************************************************************)
(* The poller keeps polling, the retry worker is started and its threads   *)
(* run, turns end, and admission closed for a cutover is opened again.     *)
(* Nothing obliges a settling task to begin a delivery, but one it has     *)
(* begun goes on.                                                          *)
(***************************************************************************)
WDFairness ==
    /\ WF_wdVars(PollBegins({}))
    /\ \A w \in ChatWatchers :
          WF_wdVars(\E r \in {"active", "completed", "degraded"} : record_watcher_check(w, r))
    /\ \A d \in Deliverers \ Settlers : WF_wdVars(Delivers(d))
    /\ \A d \in Settlers : WF_wdVars(Continues(d))
    /\ \A t \in Turns : WF_wdVars(TurnSettles(t))
    /\ WF_wdVars(accept_watcher_notifications)
    /\ WF_wdVars(\E d \in RetryThreads : StartRetryWorker(d))
    /\ WF_wdVars(Restart)

WDFairSpec == WDSpec /\ WDFairness

-----------------------------------------------------------------------------
WDTypeOK ==
    /\ status \in [ChatWatchers -> {"active", "degraded", "completed", "stopped"}]
    /\ errs \in [ChatWatchers -> 0..ErrorLimit]
    /\ notified \subseteq ChatWatchers
    /\ stoppedBy \in [ChatWatchers -> {"none", "human", "agent", "loop", "rcp"}]
    /\ turn \in [Turns -> {"none", "active", "settled"}]
    /\ names \in [Turns -> SUBSET ChatWatchers]
    /\ polled \subseteq ChatWatchers
    /\ dpc \in [Deliverers -> {"idle", "checking", "resolving", "claiming", "locked"}]
    /\ unit \in [Deliverers -> SUBSET ChatWatchers]
    /\ accepting \in BOOLEAN
    /\ dlock \in Deliverers \cup {NoThread}
    /\ lease \in RetryThreads \cup {NoThread}
    /\ begun \subseteq RetryThreads
    /\ running \in BOOLEAN
    /\ closes \in 0..setup.closes /\ deaths \in 0..setup.crashes
    /\ setup \in Setups

(***************************************************************************)
(* A watcher's completion wakes at most one turn, whichever threads        *)
(* assembled it into however many units, across restarts.                  *)
(***************************************************************************)
WokenOnce ==
    \A s, t \in Turns : s # t => names[s] \cap names[t] = {}

(***************************************************************************)
(* Stop and claim exclude each other: a stopped watcher, by whomever, is   *)
(* in no turn, a claimed one keeps the status it was delivered with, and a *)
(* row that is marked notified was stopped or is named by a turn.          *)
(***************************************************************************)
StopExcludesWake ==
    \A w \in ChatWatchers :
        /\ status[w] = "stopped" => \A t \in Turns : w \notin names[t]
        /\ w \in notified => status[w] = "stopped" \/ \E t \in Turns : w \in names[t]
        /\ (\E t \in Turns : w \in names[t]) => status[w] \in {"completed", "degraded"}

(***************************************************************************)
(* A conversation never has two live turns, human or automatic.            *)
(***************************************************************************)
OneTurnPerChat == Cardinality({t \in Turns : turn[t] = "active"}) <= 1

(***************************************************************************)
(* A durable group is delivered as one unit: a turn that names one member  *)
(* names every member an agent did not retire.                             *)
(***************************************************************************)
GroupDeliveredWhole ==
    \A t \in Turns : names[t] \cap Grouped # {} =>
        \A w \in Grouped : stoppedBy[w] # "agent" => w \in names[t]

(***************************************************************************)
(* What the claim transaction decides: a completion leads to one wake at   *)
(* most, to none once it is stopped, never beside a live turn, and with    *)
(* the whole of its group.                                                 *)
(***************************************************************************)
WakesAreSound == WDTypeOK /\ WokenOnce /\ StopExcludesWake /\ OneTurnPerChat /\ GroupDeliveredWhole

(***************************************************************************)
(* Once admission is closed no delivery that already passed its checks can *)
(* still create a turn, and neither can a superseded retry generation.     *)
(***************************************************************************)
NoWakeWhileClosed ==
    [][\A t \in Wakes : turn[t] = "none" /\ turn'[t] = "active" =>
          accepting /\ (dlock \in RetryThreads => lease = dlock)]_wdVars

(***************************************************************************)
(* A completed ungrouped watcher wakes a turn or is stopped, also when a   *)
(* live turn holds the conversation or the process dies first.  So does a  *)
(* group whose members have all completed, unless a human stops one first: *)
(* _ready_group_members then gives up the whole group, and its other       *)
(* members stay open for good.                                             *)
(***************************************************************************)
CompletionIsDelivered ==
    /\ \A w \in ChatWatchers : w \notin Grouped /\ status[w] = "completed" ~> w \in notified
    /\ (Grouped # {} /\ \A w \in Grouped : status[w] = "completed") ~>
          \E w \in Grouped : w \in notified
=============================================================================
