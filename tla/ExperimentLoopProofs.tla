------------------------ MODULE ExperimentLoopProofs ------------------------
(***************************************************************************)
(* For any number of episodes, turns, invocations and events: turns are    *)
(* paid for and end with Stop and with an accepted ending, a report comes  *)
(* after the work, at a bounded cost and from its own attempt, and the     *)
(* loop is an episode as EpisodeLifecycle promises one.                    *)
(***************************************************************************)
EXTENDS ExperimentLoop, FiniteSetTheorems, TLAPS

Episode == [status : {"none"} \cup _LIVE_EPISODE_STATUSES \cup Ended,
            ending : {"none"} \cup Endings, stop : BOOLEAN, used : 0..Ceiling, ceiling : 0..Ceiling,
            bound : BOOLEAN, problem : BOOLEAN, last : Ops \cup {NoOp},
            wrap : {"not_started", "pending", "running", "ready", "failed", "skipped"},
            attempts : 0.._REPORT_ATTEMPT_LIMIT, concluding : Ops \cup {NoOp}]
ReportRow == [row : {"none", "queued", "running", "paused", "interrupted", "failed", "succeeded"},
              step : {"none", "prepare", "launch", "call"},
              attempt : {"none", "queued", "running"}, output : Nat, calls : Nat, published : Nat]
TaskRow == [status : {"none", "succeeded"} \cup LiveTurn \cup Recoverable,
            ep : Episodes \cup {0}, parent : Ops \cup {NoOp}, inv : 0..Ceiling,
            kind : {"turn", "repair"}, ctx : BOOLEAN, session : BOOLEAN,
            graph : {"none", "applied", "rejected"},
            exit : {"none"} \cup Exits, abandoned : BOOLEAN,
            step : {"none", "queued", "run", "patched", "committed", "settling", "settled"}]
Wake == [step : {"idle", "preflight", "claim"}, ep : Episodes \cup {0}, inv : 0..(Ceiling + 1),
         admits : BOOLEAN]
Look == [step : {"idle", "fence", "wrap"}, ep : Episodes \cup {0},
         turn : Ops \cup {NoOp}, ending : {"none"} \cup Endings]

(* A step the worker of a turn is at while its row is live. *)
Working == {"queued", "run", "patched", "committed"}

(* Whether an episode is still open, by what its record says. *)
Unfenced == {"none", "running", "stopping"}

(* One episode's record. *)
EpisodeOK(x) ==
    /\ x.status = "none" => x = NoEpisode
    /\ x.status \in Unfenced => x.ending = "none" /\ x.wrap = "not_started"
    /\ x.status \notin Unfenced => x.ending \in Endings
    /\ x.status \in Ended => x.status = _status_for_ending[x.ending]
    /\ x.stop <=> x.status \in {"stopping", "stopped"}
    /\ x.ending = "stopped" <=> x.status = "stopped"
    /\ x.status = "stopped" => x.wrap = "skipped"
    /\ x.used <= x.ceiling

(* The record and its hidden report. *)
ReportOK(x, y) ==
    /\ x.wrap \in {"not_started", "skipped"} => y = NoReport
    /\ y.step # "none" => /\ x.status = "wrapping_up" /\ x.wrap \in {"pending", "running"}
                          /\ y.row \in {"queued", "running"} /\ y.published = 0
    /\ y.step = "launch" => y.attempt = "queued"
    /\ y.attempt = "queued" => y.calls < x.attempts
    /\ y.calls <= x.attempts
    /\ y.step \in {"launch", "call"} => y.output \in {0, x.attempts}
    /\ y.published # 0 => y.published = x.attempts /\ x.status \in Ended

RecordInv == \A e \in Episodes : EpisodeOK(ep[e]) /\ ReportOK(ep[e], report[e])

(* A task row is a turn of an episode, worked on while it is live; a recovery continues a
   turn that is over. *)
RowOK(rows, o) ==
    /\ rows[o].status = "none" => rows[o] = NoTask
    /\ rows[o].status # "none" => rows[o].ep \in Episodes
    /\ rows[o].step \in Working <=> rows[o].status \in LiveTurn
    /\ rows[o].parent # NoOp =>
         /\ rows[o].parent < o /\ rows[rows[o].parent].ep = rows[o].ep
         /\ rows[rows[o].parent].status \in {"succeeded"} \cup Recoverable

RowInv ==
    /\ \A o \in Ops : RowOK(task, o)
    /\ \A o \in Ops : task[o].status # "none" => ep[task[o].ep].status # "none"

(* Rows are numbered as they come, and only the last one is live. *)
OrderInv ==
    /\ \E n \in 0..MaxOps : \A o \in Ops : task[o].status # "none" <=> o <= n
    /\ \A o, p \in Ops : task[o].status \in LiveTurn /\ task[p].status # "none" => p <= o
    /\ \A e \in Episodes : ep[e].status # "none" =>
          \E m \in TurnsOf(task, e) : \A p \in TurnsOf(task, e) : p <= m

(* No turn of an episode is live beside its report, nor after its Stop has settled. *)
QuietInv ==
    \A e \in Episodes :
        /\ report[e].row # "none" => ~Active(e)
        /\ ep[e].status = "stopped" => ~Active(e) /\ unit[e] \in {"none", "stopped"}

(* What the threads in flight carry. *)
FlightInv ==
    /\ wake.step # "idle" => wake.ep \in Episodes /\ ep[wake.ep].status # "none"
    /\ \A r \in Lookers : look[r].step # "idle" =>
          /\ look[r].ep \in Episodes /\ look[r].turn \in Ops /\ look[r].ending \in Endings \ {"stopped"}
          /\ look[r].step = "wrap" => ep[look[r].ep].ending = look[r].ending

IInv == TypeOK /\ RecordInv /\ RowInv /\ OrderInv /\ QuietInv /\ FlightInv /\ ExitIsFinal /\ InvocationsArePaid

-----------------------------------------------------------------------------
(* Writing an episode's record, one lemma per shape of the write. *)
LEMMA TypesAre ==
    TypeOK <=> /\ ep \in [Episodes -> Episode] /\ report \in [Episodes -> ReportRow]
               /\ task \in [Ops -> TaskRow]
               /\ unit \in [Episodes -> {"none", "active", "ready", "claimed", "stopped"}]
               /\ wake \in Wake /\ look \in [Lookers -> Look]
               /\ boot \in {"serving", "stops", "settle", "reports"}
  BY Zenon DEF TypeOK, Episode, ReportRow, TaskRow, Wake, Look

LEMMA StatusWritten ==
    ASSUME NEW x \in Episode, NEW s \in {"none"} \cup _LIVE_EPISODE_STATUSES \cup Ended,
           NEW t \in {"none"} \cup Endings, NEW b \in BOOLEAN,
           NEW w \in {"not_started", "pending", "running", "ready", "failed", "skipped"}
    PROVE  LET y == [x EXCEPT !.status = s, !.ending = t, !.stop = b, !.wrap = w]
           IN  /\ y \in Episode /\ y.status = s /\ y.ending = t /\ y.stop = b /\ y.wrap = w
               /\ y.used = x.used /\ y.ceiling = x.ceiling /\ y.attempts = x.attempts
  <1> DEFINE y == [x EXCEPT !.status = s, !.ending = t, !.stop = b, !.wrap = w]
  <1>1. y \in Episode
    BY DEF Episode
  <1>2. y.status = s /\ y.ending = t /\ y.stop = b /\ y.wrap = w
    BY DEF Episode
  <1>3. y.used = x.used /\ y.ceiling = x.ceiling /\ y.attempts = x.attempts
    BY DEF Episode
  <1> QED BY <1>1, <1>2, <1>3

LEMMA ProblemWritten ==
    ASSUME NEW x \in Episode, NEW b \in BOOLEAN
    PROVE  LET y == [x EXCEPT !.problem = b]
           IN  /\ y \in Episode /\ y.status = x.status /\ y.ending = x.ending /\ y.stop = x.stop
               /\ y.wrap = x.wrap /\ y.used = x.used /\ y.ceiling = x.ceiling /\ y.attempts = x.attempts
  BY DEF Episode

LEMMA BindingWritten ==
    ASSUME NEW x \in Episode, NEW o \in Ops, NEW b \in BOOLEAN, NEW c \in BOOLEAN
    PROVE  LET y == [x EXCEPT !.bound = b, !.last = o, !.problem = c]
           IN  /\ y \in Episode /\ y.status = x.status /\ y.ending = x.ending /\ y.stop = x.stop
               /\ y.wrap = x.wrap /\ y.used = x.used /\ y.ceiling = x.ceiling /\ y.attempts = x.attempts
  BY DEF Episode

LEMMA WrapWritten ==
    ASSUME NEW x \in Episode, NEW s \in {"none"} \cup _LIVE_EPISODE_STATUSES \cup Ended,
           NEW w \in {"not_started", "pending", "running", "ready", "failed", "skipped"},
           NEW o \in Ops \cup {NoOp}, NEW n \in 0.._REPORT_ATTEMPT_LIMIT
    PROVE  LET y == [x EXCEPT !.status = s, !.wrap = w, !.concluding = o, !.attempts = n]
           IN  /\ y \in Episode /\ y.status = s /\ y.ending = x.ending /\ y.stop = x.stop
               /\ y.wrap = w /\ y.used = x.used /\ y.ceiling = x.ceiling /\ y.attempts = n
  <1> DEFINE y == [x EXCEPT !.status = s, !.wrap = w, !.concluding = o, !.attempts = n]
  <1>1. y \in Episode
    BY DEF Episode
  <1>2. y.status = s /\ y.wrap = w /\ y.attempts = n
    BY DEF Episode
  <1>3. y.ending = x.ending /\ y.stop = x.stop /\ y.used = x.used /\ y.ceiling = x.ceiling
    BY DEF Episode
  <1> QED BY <1>1, <1>2, <1>3

LEMMA UsedWritten ==
    ASSUME NEW x \in Episode, NEW u \in 0..Ceiling
    PROVE  LET y == [x EXCEPT !.used = u]
           IN  /\ y \in Episode /\ y.status = x.status /\ y.ending = x.ending /\ y.stop = x.stop
               /\ y.wrap = x.wrap /\ y.used = u /\ y.ceiling = x.ceiling /\ y.attempts = x.attempts
  BY DEF Episode

LEMMA TypesBecome ==
    ASSUME ep' \in [Episodes -> Episode], report' \in [Episodes -> ReportRow], task' \in [Ops -> TaskRow],
           unit' \in [Episodes -> {"none", "active", "ready", "claimed", "stopped"}],
           wake' \in Wake, look' \in [Lookers -> Look], boot' \in {"serving", "stops", "settle",
           "reports"}
    PROVE  TypeOK'
  BY Zenon DEF TypeOK, Episode, ReportRow, TaskRow, Wake, Look

-----------------------------------------------------------------------------
(* What one step does to the record of an episode, as EpisodeLifecycle sees it. *)
Moved(e) ==
    /\ ep'[e].used = ep[e].used
    /\ \/ ep'[e].status = ep[e].status /\ ep'[e].ending = ep[e].ending
       \/ ep[e].status = "running" /\ ep'[e].status = "stopping" /\ ep'[e].ending = ep[e].ending
       \/ /\ ep[e].status \in {"running", "stopping"}
          /\ ep'[e].status = "stopped" /\ ep'[e].ending = "stopped"
       \/ /\ ep[e].status = "running" /\ ep'[e].status = "wrapping_up"
          /\ ep'[e].ending \in Endings \ {"stopped"}
       \/ /\ ep[e].status = "wrapping_up" /\ ep'[e].ending = ep[e].ending
          /\ ep'[e].status = _status_for_ending[ep[e].ending]

(* One episode's record and report are written, to something that is sound. *)
Written(e) ==
    /\ ep' \in [Episodes -> Episode] /\ report' \in [Episodes -> ReportRow]
    /\ \A f \in Episodes \ {e} : ep'[f] = ep[f] /\ report'[f] = report[f]
    /\ ep[e].status # "none" /\ Moved(e)
    /\ EpisodeOK(ep'[e]) /\ ReportOK(ep'[e], report'[e])

(* Episodes go on: none comes into being or is forgotten, none spends, and an ending stays. *)
Kept ==
    \A f \in Episodes : /\ ep'[f].status = "none" <=> ep[f].status = "none"
                        /\ ep'[f].used = ep[f].used
                        /\ ep[f].ending # "none" => ep'[f].ending = ep[f].ending

LEMMA EndingStatuses == \A x \in Endings : _status_for_ending[x] \in Ended
  BY DEF Endings, _status_for_ending, Ended

LEMMA WrittenKeeps ==
    ASSUME IInv, NEW e \in Episodes, Written(e)
    PROVE  RecordInv' /\ Kept
  <1>1. RecordInv'
    <2> SUFFICES ASSUME NEW f \in Episodes PROVE EpisodeOK(ep'[f]) /\ ReportOK(ep'[f], report'[f])
      BY DEF RecordInv
    <2>1. CASE f = e
      BY <2>1 DEF Written
    <2>2. CASE f # e
      BY <2>2 DEF Written, IInv, RecordInv
    <2> QED BY <2>1, <2>2
  <1>2. EpisodeOK(ep[e])
    BY DEF IInv, RecordInv
  <1>3. ep[e].status \in Unfenced => ep[e].ending = "none"
    BY <1>2 DEF EpisodeOK
  <1>4. ep[e].status = "wrapping_up" => ep[e].ending \in Endings
    BY <1>2 DEF EpisodeOK, Unfenced
  <1>5. ep[e].status = "wrapping_up" => _status_for_ending[ep[e].ending] # "none"
    BY <1>4, EndingStatuses DEF Ended
  <1>6. Kept
    BY <1>3, <1>5 DEF Written, Kept, Moved, Unfenced
  <1> QED BY <1>1, <1>6

-----------------------------------------------------------------------------
(* Rows that go on: each stays the turn it is, what is over stays over, nothing new is live,
   and only a live turn hands over an ending. *)
RowsKept(rows) ==
    \A o \in Ops :
        /\ rows[o].ep = task[o].ep /\ rows[o].parent = task[o].parent /\ rows[o].inv = task[o].inv
        /\ task[o].status = "none" => rows[o] = NoTask
        /\ rows[o].status = "none" => task[o].status = "none"
        /\ task[o].status \in {"succeeded"} \cup Recoverable => rows[o].status = task[o].status
        /\ rows[o].step \in Working <=> rows[o].status \in LiveTurn
        /\ rows[o].exit # "none" => task[o].exit # "none" \/ task[o].status \in LiveTurn

LEMMA LiveIsLast ==
    ASSUME IInv, NEW o \in Ops, task[o].status \in LiveTurn
    PROVE  /\ task[o].ep \in Episodes /\ Active(task[o].ep)
           /\ \A e \in Episodes, p \in Ops : task[p].ep = e => p <= o
           /\ \A c \in Ops : task[c].parent # o
  <1>1. task[o].ep \in Episodes
    BY DEF IInv, RowInv, RowOK, LiveTurn
  <1>2. \A p \in Ops : task[p].ep \in Episodes => task[p].status # "none"
    BY DEF IInv, RowInv, RowOK, NoTask, Episodes
  <1>3. \A p \in Ops : task[p].status # "none" => p <= o
    BY DEF IInv, OrderInv
  <1>4. \A c \in Ops : task[c].parent # o
    <2> SUFFICES ASSUME NEW c \in Ops, task[c].parent = o PROVE FALSE
      OBVIOUS
    <2>1. task[o].status \in {"succeeded"} \cup Recoverable
      BY DEF IInv, RowInv, RowOK, Ops, NoOp
    <2> QED BY <2>1 DEF LiveTurn, Recoverable
  <1>5. Active(task[o].ep)
    BY <1>1 DEF Active, TurnsOf
  <1> QED BY <1>1, <1>2, <1>3, <1>4, <1>5

LEMMA RowsMove ==
    ASSUME IInv, Kept, RowsKept(task'), task' \in [Ops -> TaskRow]
    PROVE  /\ RowInv' /\ OrderInv' /\ ExitIsFinal' /\ InvocationsArePaid'
           /\ \A o \in Ops : task'[o].status \in LiveTurn => task[o].status \in LiveTurn
  <1> USE DEF RowsKept
  <1>0. task \in [Ops -> TaskRow]
    BY TypesAre DEF IInv
  <1>1. \A o \in Ops : task'[o].status \in LiveTurn => task[o].status \in LiveTurn
    <2> SUFFICES ASSUME NEW o \in Ops, task'[o].status \in LiveTurn PROVE task[o].status \in LiveTurn
      OBVIOUS
    <2>1. task[o].status \in {"none", "succeeded"} \cup LiveTurn \cup Recoverable
      BY <1>0 DEF TaskRow
    <2>2. task[o].status # "none"
      BY DEF NoTask, LiveTurn
    <2>3. task[o].status \notin {"succeeded"} \cup Recoverable
      BY DEF LiveTurn, Recoverable
    <2> QED BY <2>1, <2>2, <2>3
  <1>2. \A o \in Ops : task'[o].status = "none" <=> task[o].status = "none"
    BY DEF NoTask
  <1>3. RowInv'
    <2>1. ASSUME NEW o \in Ops PROVE RowOK(task', o)
      <3>1. RowOK(task, o)
        BY DEF IInv, RowInv
      <3>2. task'[o].parent # NoOp => task'[o].parent \in Ops
        BY <1>0 DEF TaskRow
      <3> QED BY <1>2, <3>1, <3>2 DEF RowOK
    <2>2. \A o \in Ops : task'[o].status # "none" => ep'[task'[o].ep].status # "none"
      <3> SUFFICES ASSUME NEW o \in Ops, task'[o].status # "none" PROVE ep'[task'[o].ep].status # "none"
        OBVIOUS
      <3>1. task[o].status # "none" /\ task'[o].ep = task[o].ep
        BY <1>2
      <3>2. task[o].ep \in Episodes /\ ep[task[o].ep].status # "none"
        BY <3>1 DEF IInv, RowInv, RowOK
      <3> QED BY <3>1, <3>2 DEF Kept
    <2> QED BY <2>1, <2>2 DEF RowInv
  <1>4. OrderInv'
    <2>1. \E n \in 0..MaxOps : \A o \in Ops : task'[o].status # "none" <=> o <= n
      BY <1>2 DEF IInv, OrderInv
    <2>2. \A o, p \in Ops : task'[o].status \in LiveTurn /\ task'[p].status # "none" => p <= o
      BY <1>1, <1>2 DEF IInv, OrderInv
    <2>3. \A e \in Episodes : ep'[e].status # "none" =>
             \E m \in TurnsOf(task', e) : \A p \in TurnsOf(task', e) : p <= m
      BY DEF IInv, OrderInv, Kept, TurnsOf
    <2> QED BY <2>1, <2>2, <2>3 DEF OrderInv
  <1>5. ExitIsFinal'
    <2> SUFFICES ASSUME NEW o \in Ops, task'[o].exit # "none", NEW p \in Ops, task'[p].ep = task'[o].ep
        PROVE  p <= o
      BY DEF ExitIsFinal, TurnsOf
    <2>1. task[p].ep = task[o].ep
      OBVIOUS
    <2>2. CASE task[o].exit # "none"
      BY <2>1, <2>2 DEF IInv, ExitIsFinal, TurnsOf
    <2>3. CASE task[o].status \in LiveTurn
      BY <2>1, <2>3, LiveIsLast
    <2> QED BY <2>2, <2>3
  <1>6. InvocationsArePaid'
    <2> SUFFICES ASSUME NEW e \in Episodes
        PROVE  LET roots == {o \in TurnsOf(task', e) : task'[o].parent = NoOp}
               IN  /\ {task'[o].inv : o \in roots} = 1..ep'[e].used /\ Cardinality(roots) = ep'[e].used
                   /\ \A o \in TurnsOf(task', e) : \E p \in roots : task'[p].inv = task'[o].inv /\ p <= o
      BY DEF InvocationsArePaid
    <2> DEFINE roots == {o \in TurnsOf(task, e) : task[o].parent = NoOp}
               newRoots == {o \in TurnsOf(task', e) : task'[o].parent = NoOp}
    <2>1. TurnsOf(task', e) = TurnsOf(task, e)
      BY DEF TurnsOf
    <2>2. newRoots = roots
      BY <2>1 DEF TurnsOf
    <2>3. \A o \in TurnsOf(task, e) : task'[o].inv = task[o].inv
      BY DEF TurnsOf
    <2>4. {task'[o].inv : o \in roots} = {task[o].inv : o \in roots}
      BY <2>3
    <2>5. /\ {task[o].inv : o \in roots} = 1..ep[e].used /\ Cardinality(roots) = ep[e].used
          /\ \A o \in TurnsOf(task, e) : \E p \in roots : task[p].inv = task[o].inv /\ p <= o
      BY DEF IInv, InvocationsArePaid
    <2>6. ep'[e].used = ep[e].used
      BY DEF Kept
    <2>7. \A o \in TurnsOf(task, e) : \E p \in roots : task'[p].inv = task'[o].inv /\ p <= o
      BY <2>3, <2>5
    <2> QED BY <2>1, <2>2, <2>4, <2>5, <2>6, <2>7
  <1> QED BY <1>1, <1>3, <1>4, <1>5, <1>6

(* Threads that go on with what they carry, or have done. *)
LEMMA FlightFramed ==
    ASSUME IInv, Kept, wake' = wake \/ wake' = NoWake,
           \A r \in Lookers : look'[r] = look[r] \/ look'[r] = NoLook
    PROVE  FlightInv'
  <1>1. wake'.step # "idle" => wake'.ep \in Episodes /\ ep'[wake'.ep].status # "none"
    BY DEF IInv, FlightInv, NoWake, Kept
  <1> SUFFICES ASSUME NEW r \in Lookers, look'[r].step # "idle"
      PROVE  /\ look'[r].ep \in Episodes /\ look'[r].turn \in Ops /\ look'[r].ending \in Endings \ {"stopped"}
             /\ look'[r].step = "wrap" => ep'[look'[r].ep].ending = look'[r].ending
    BY <1>1 DEF FlightInv
  <1>2. look'[r] = look[r]
    BY DEF NoLook
  <1>3. /\ look[r].ep \in Episodes /\ look[r].turn \in Ops /\ look[r].ending \in Endings \ {"stopped"}
        /\ look[r].step = "wrap" => ep[look[r].ep].ending = look[r].ending
    BY <1>2 DEF IInv, FlightInv
  <1>4. look[r].ending # "none"
    BY <1>3 DEF Endings
  <1> QED BY <1>2, <1>3, <1>4 DEF Kept

(* A step that inserts no row: no report comes to be beside a live turn, a Stop settles
   without one, and an episode whose Stop has settled gets no watcher. *)
LEMMA Moves ==
    ASSUME IInv, TypeOK', RecordInv', Kept, RowsKept(task'), FlightInv',
           \A f \in Episodes : report'[f].row # "none" => report[f].row # "none" \/ ~Active(f),
           \A f \in Episodes : ep'[f].status = "stopped" =>
               ep[f].status = "stopped" \/ (~Active(f) /\ unit'[f] \in {"none", "stopped"}),
           \A f \in Episodes : \/ unit'[f] = unit[f] \/ unit'[f] \in {"none", "stopped"}
                               \/ unit[f] \in {"active", "ready"} \/ Active(f)
    PROVE  IInv'
  <1>1. task' \in [Ops -> TaskRow]
    BY Zenon DEF TypeOK, TaskRow
  <1>2. /\ RowInv' /\ OrderInv' /\ ExitIsFinal' /\ InvocationsArePaid'
        /\ \A o \in Ops : task'[o].status \in LiveTurn => task[o].status \in LiveTurn
    BY <1>1, RowsMove
  <1>3. \A f \in Episodes : ~Active(f) => ~\E o \in TurnsOf(task', f) : task'[o].status \in LiveTurn
    BY <1>2 DEF Active, TurnsOf, RowsKept
  <1>4. QuietInv'
    <2> SUFFICES ASSUME NEW f \in Episodes
        PROVE  /\ report'[f].row # "none" => ~\E o \in TurnsOf(task', f) : task'[o].status \in LiveTurn
               /\ ep'[f].status = "stopped" =>
                     /\ ~\E o \in TurnsOf(task', f) : task'[o].status \in LiveTurn
                     /\ unit'[f] \in {"none", "stopped"}
      BY DEF QuietInv, Active
    <2>1. /\ report[f].row # "none" => ~Active(f)
          /\ ep[f].status = "stopped" => ~Active(f) /\ unit[f] \in {"none", "stopped"}
      BY DEF IInv, QuietInv
    <2> QED BY <1>3, <2>1
  <1> QED BY <1>2, <1>4 DEF IInv

(* Nothing is different about the rows. *)
LEMMA SameRows == ASSUME IInv, UNCHANGED task PROVE RowsKept(task')
  <1>1. \A o \in Ops : RowOK(task, o)
    BY DEF IInv, RowInv
  <1> QED BY <1>1 DEF RowsKept, RowOK

(* A step of reports alone. *)
LEMMA ReportMoves ==
    ASSUME IInv, NEW e \in Episodes, Written(e),
           report'[e].row # "none" => report[e].row # "none" \/ ~Active(e),
           ep'[e].status = "stopped" => ep[e].status = "stopped",
           UNCHANGED <<task, wake>>, boot' \in {"serving", "stops", "settle", "reports"},
           look' \in [Lookers -> Look], \A r \in Lookers : look'[r] = look[r] \/ look'[r] = NoLook,
           unit' \in [Episodes -> {"none", "active", "ready", "claimed", "stopped"}],
           \A f \in Episodes : unit'[f] = unit[f] \/ unit'[f] = "stopped"
    PROVE  IInv'
  <1>1. RecordInv' /\ Kept
    BY WrittenKeeps
  <1>2. task \in [Ops -> TaskRow] /\ wake \in Wake
    BY TypesAre DEF IInv
  <1>3. TypeOK'
    BY <1>2, TypesBecome DEF Written
  <1>4. FlightInv'
    BY <1>1, FlightFramed
  <1>5. /\ \A f \in Episodes : report'[f].row # "none" => report[f].row # "none" \/ ~Active(f)
        /\ \A f \in Episodes : ep'[f].status = "stopped" => ep[f].status = "stopped"
    BY DEF Written
  <1> QED BY <1>1, <1>3, <1>4, <1>5, SameRows, Moves

-----------------------------------------------------------------------------
(* The records of an episode and the operations on them. *)
LEMMA RecordsAre ==
    ASSUME IInv, NEW e \in Episodes
    PROVE  /\ ep[e] \in Episode /\ report[e] \in ReportRow
           /\ ep \in [Episodes -> Episode] /\ report \in [Episodes -> ReportRow]
           /\ EpisodeOK(ep[e]) /\ ReportOK(ep[e], report[e])
  BY TypesAre DEF IInv, RecordInv

(* An ending that is settled. *)
LEMMA FinishedRecord ==
    ASSUME NEW x \in Episode, EpisodeOK(x), x.status \notin Unfenced, x.status # "stopped",
           NEW w \in {"not_started", "ready", "failed"}
    PROVE  LET y == Finished(x, w)
           IN  /\ y \in Episode /\ EpisodeOK(y) /\ y.status \in Ended /\ y.status # "stopped"
               /\ y.status = _status_for_ending[x.ending] /\ y.ending = x.ending
               /\ y.used = x.used /\ y.attempts = x.attempts /\ y.wrap = w
  <1> DEFINE y == Finished(x, w)
  <1>1. x.ending \in Endings \ {"stopped"}
    BY DEF EpisodeOK
  <1> DEFINE s == _status_for_ending[x.ending]
  <1>2. s \in {"completed", "failed", "needs_action"}
    BY <1>1 DEF Endings, _status_for_ending
  <1> HIDE DEF s
  <1>3. y = [x EXCEPT !.status = s, !.wrap = w]
    BY DEF Finished, s
  <1>4. y \in Episode
    BY <1>2, <1>3 DEF Episode, Ended
  <1>5. y.status = s /\ y.wrap = w
    BY <1>3 DEF Episode
  <1>6. y.ending = x.ending /\ y.used = x.used /\ y.attempts = x.attempts /\ y.ceiling = x.ceiling
    BY <1>3 DEF Episode
  <1>7. y.stop = x.stop
    BY <1>3 DEF Episode
  <1> HIDE DEF y
  <1>8. ~x.stop
    <2>1. x.status \notin {"stopping", "stopped"}
      BY DEF Unfenced
    <2> QED BY <2>1 DEF EpisodeOK
  <1>9. x.used <= x.ceiling
    BY DEF EpisodeOK
  <1>10. s \notin Unfenced \cup {"stopped"} /\ s \in Ended
    BY <1>2 DEF Unfenced, Ended
  <1>11. EpisodeOK(y)
    BY <1>1, <1>5, <1>6, <1>7, <1>8, <1>9, <1>10 DEF EpisodeOK, s, Unfenced
  <1> QED BY <1>4, <1>5, <1>6, <1>10, <1>11 DEF y, s

(* A report's worker runs while its episode is wrapping up. *)
LEMMA WorkerRecord ==
    ASSUME IInv, NEW e \in Episodes, report[e].step # "none"
    PROVE  /\ ep[e].status = "wrapping_up" /\ ep[e].wrap \in {"pending", "running"}
           /\ ep[e].status \notin Unfenced
           /\ report[e].row \in {"queued", "running"} /\ report[e].published = 0
           /\ report[e].calls <= ep[e].attempts /\ report[e].calls \in Nat /\ ep[e].attempts \in Nat
           /\ ep[e].attempts <= _REPORT_ATTEMPT_LIMIT /\ report[e].output \in Nat
           /\ report[e].attempt = "queued" => report[e].calls < ep[e].attempts
           /\ report[e].step \in {"launch", "call"} => report[e].output \in {0, ep[e].attempts}
           /\ report[e].step = "launch" => report[e].attempt = "queued"
  <1>1. ReportOK(ep[e], report[e]) /\ ep[e] \in Episode /\ report[e] \in ReportRow
    BY RecordsAre
  <1>2. ep[e].attempts \in Nat /\ ep[e].attempts <= _REPORT_ATTEMPT_LIMIT
    BY <1>1, ReportAssumption DEF Episode
  <1>3. report[e].calls \in Nat /\ report[e].output \in Nat
    BY <1>1 DEF ReportRow
  <1> QED BY <1>1, <1>2, <1>3 DEF ReportOK, Unfenced

(* The report moves on and its episode's record is as it was. *)
LEMMA ReportWritten ==
    ASSUME IInv, NEW e \in Episodes, NEW y \in ReportRow, ep[e].status # "none",
           UNCHANGED ep, report' = [report EXCEPT ![e] = y], ReportOK(ep[e], y)
    PROVE  Written(e) /\ report'[e] = y
  <1>1. /\ ep \in [Episodes -> Episode] /\ report \in [Episodes -> ReportRow] /\ EpisodeOK(ep[e])
    BY RecordsAre
  <1>2. /\ report' \in [Episodes -> ReportRow] /\ report'[e] = y
        /\ \A f \in Episodes \ {e} : report'[f] = report[f]
    BY <1>1
  <1>3. Moved(e)
    BY DEF Moved
  <1> QED BY <1>1, <1>2, <1>3 DEF Written

(* Both move on, the episode towards its settled ending if at all. *)
LEMMA BothWritten ==
    ASSUME IInv, NEW e \in Episodes, NEW x \in Episode, NEW y \in ReportRow, ep[e].status # "none",
           ep' = [ep EXCEPT ![e] = x], report' = [report EXCEPT ![e] = y],
           EpisodeOK(x), ReportOK(x, y), x.used = ep[e].used, x.ending = ep[e].ending,
           \/ x.status = ep[e].status
           \/ ep[e].status = "wrapping_up" /\ x.status = _status_for_ending[ep[e].ending]
    PROVE  Written(e) /\ ep'[e] = x /\ report'[e] = y
  <1>1. ep \in [Episodes -> Episode] /\ report \in [Episodes -> ReportRow]
    BY RecordsAre
  <1>2. /\ report' \in [Episodes -> ReportRow] /\ report'[e] = y
        /\ ep' \in [Episodes -> Episode] /\ ep'[e] = x
        /\ \A f \in Episodes \ {e} : ep'[f] = ep[f] /\ report'[f] = report[f]
    BY <1>1
  <1>3. Moved(e)
    BY <1>2 DEF Moved
  <1> QED BY <1>2, <1>3 DEF Written

LEMMA Writes_allocate ==
    ASSUME IInv, NEW e \in Episodes, allocate_episode_report_attempt(e)
    PROVE  Written(e) /\ ep'[e].status # "stopped"
  <1> DEFINE r == report[e]
             x == ep[e]
             y == [r EXCEPT !.step = "launch", !.attempt = "queued", !.output = 0]
  <1>1. r.step = "prepare" /\ x \in Episode /\ r \in ReportRow /\ EpisodeOK(x) /\ x.status # "none"
    BY RecordsAre, WorkerRecord DEF allocate_episode_report_attempt
  <1>2. y \in ReportRow /\ y.step = "launch" /\ y.attempt = "queued" /\ y.output = 0
    BY <1>1 DEF ReportRow
  <1>3. y.row = r.row /\ y.calls = r.calls /\ y.published = r.published
    BY <1>1 DEF ReportRow
  <1>4. report' = [report EXCEPT ![e] = y]
    BY <1>1, RecordsAre DEF allocate_episode_report_attempt, mailbox_remove
  <1> HIDE DEF y
  <1>5. CASE r.attempt = "queued"
    <2>1. ep' = ep
      BY <1>5 DEF allocate_episode_report_attempt
    <2>2. ReportOK(x, y)
      BY <1>1, <1>2, <1>3, <1>5, WorkerRecord DEF ReportOK
    <2> QED BY <1>1, <1>2, <1>4, <2>1, <2>2, ReportWritten, WorkerRecord
  <1>6. CASE r.attempt # "queued"
    <2> DEFINE n == x.attempts + 1
               z == [x EXCEPT !.wrap = "running", !.attempts = n]
    <2>1. n \in 0.._REPORT_ATTEMPT_LIMIT /\ n > x.attempts
      BY <1>1, <1>6, WorkerRecord, ReportAssumption DEF allocate_episode_report_attempt
    <2>2. ep' = [ep EXCEPT ![e] = z]
      BY <1>1, <1>6, RecordsAre DEF allocate_episode_report_attempt
    <2> HIDE DEF n
    <2>3. z \in Episode
      BY <1>1, <2>1 DEF Episode
    <2>4. z.wrap = "running" /\ z.attempts = n /\ z.status = x.status /\ z.ending = x.ending
      BY <1>1, <2>1 DEF Episode
    <2>5. z.used = x.used /\ z.ceiling = x.ceiling
      BY <1>1, <2>1 DEF Episode
    <2>6. z.stop = x.stop
      BY <1>1, <2>1 DEF Episode
    <2> HIDE DEF z
    <2>7. EpisodeOK(z)
      BY <1>1, <2>4, <2>5, <2>6, WorkerRecord DEF EpisodeOK, Unfenced
    <2>8. ReportOK(z, y)
      BY <1>1, <1>2, <1>3, <2>1, <2>4, WorkerRecord DEF ReportOK
    <2> QED BY <1>1, <1>2, <1>4, <2>2, <2>3, <2>4, <2>5, <2>7, <2>8, BothWritten, WorkerRecord
  <1> QED BY <1>5, <1>6

(* A wrap-up that is over, whatever it came to. *)
LEMMA Writes_Finished ==
    ASSUME IInv, NEW e \in Episodes, report[e].step # "none", NEW y \in ReportRow,
           NEW w \in {"ready", "failed"},
           ep' = [ep EXCEPT ![e] = Finished(@, w)], report' = [report EXCEPT ![e] = y],
           y.step = "none" /\ y.attempt = "none" /\ y.calls = report[e].calls,
           y.published # 0 => y.published = ep[e].attempts
    PROVE  Written(e) /\ ep'[e].status # "stopped"
  <1> DEFINE x == Finished(ep[e], w)
  <1>1. /\ x \in Episode /\ EpisodeOK(x) /\ x.status \in Ended /\ x.status # "stopped"
        /\ x.status = _status_for_ending[ep[e].ending] /\ x.ending = ep[e].ending
        /\ x.used = ep[e].used /\ x.attempts = ep[e].attempts /\ x.wrap = w
    BY RecordsAre, WorkerRecord, FinishedRecord
  <1>2. ep' = [ep EXCEPT ![e] = x]
    OBVIOUS
  <1> HIDE DEF x
  <1>3. ReportOK(x, y)
    BY <1>1, WorkerRecord DEF ReportOK
  <1> QED BY <1>1, <1>2, <1>3, BothWritten, WorkerRecord

LEMMA Writes_ReportWorker ==
    ASSUME IInv, NEW e \in Episodes, ReportWorker(e)
    PROVE  Written(e) /\ ep'[e].status # "stopped" /\ report[e].row # "none"
  <1> DEFINE r == report[e]
             x == ep[e]
  <1>0. /\ r.step # "none" /\ r \in ReportRow /\ report \in [Episodes -> ReportRow]
        /\ x \in Episode /\ ep \in [Episodes -> Episode] /\ EpisodeOK(x)
    BY RecordsAre
    DEF ReportWorker, allocate_episode_report_attempt, ReportUnlaunchable,
        mark_episode_report_attempt_running,
        ProviderWrites, record_episode_report_attempt_error, finish_episode_report_error,
        finish_episode_report_ready
  <1>1. CASE ReportUnlaunchable(e)
    <2> DEFINE y == [r EXCEPT !.row = "failed", !.step = "none", !.attempt = "none"]
    <2>1. /\ y \in ReportRow /\ y.step = "none" /\ y.attempt = "none" /\ y.calls = r.calls
          /\ y.published = r.published
      BY <1>0 DEF ReportRow
    <2>2. report' = [report EXCEPT ![e] = y] /\ ep' = [ep EXCEPT ![e] = Finished(@, "failed")]
      BY <1>0, <1>1 DEF ReportUnlaunchable
    <2> HIDE DEF y
    <2> QED BY <1>0, <2>1, <2>2, Writes_Finished, WorkerRecord
  <1>2. CASE mark_episode_report_attempt_running(e)
    <2> DEFINE n == r.calls + 1
               y == [r EXCEPT !.step = "call", !.row = "running", !.attempt = "running", !.calls = n]
    <2>1. r.step = "launch" /\ n \in Nat /\ n <= x.attempts
      BY <1>2, WorkerRecord DEF mark_episode_report_attempt_running
    <2>2. report' = [report EXCEPT ![e] = y] /\ ep' = ep
      BY <1>0, <1>2 DEF mark_episode_report_attempt_running
    <2> HIDE DEF n
    <2>3. y \in ReportRow
      BY <1>0, <2>1 DEF ReportRow
    <2>4. /\ y.step = "call" /\ y.attempt = "running" /\ y.calls = n
          /\ y.published = r.published /\ y.output = r.output /\ y.row = "running"
      BY <1>0 DEF ReportRow
    <2> HIDE DEF y
    <2>5. ReportOK(x, y)
      BY <1>0, <2>1, <2>4, WorkerRecord DEF ReportOK
    <2> QED BY <1>0, <2>2, <2>3, <2>5, ReportWritten, WorkerRecord
  <1>3. CASE ProviderWrites(e)
    <2> DEFINE y == [r EXCEPT !.output = x.attempts]
    <2>1. r.step = "call" /\ x.attempts \in Nat
      BY <1>3, WorkerRecord DEF ProviderWrites
    <2>2. report' = [report EXCEPT ![e] = y] /\ ep' = ep
      BY <1>0, <1>3 DEF ProviderWrites
    <2>3. y \in ReportRow
      BY <1>0, <2>1 DEF ReportRow
    <2>4. /\ y.step = r.step /\ y.attempt = r.attempt /\ y.calls = r.calls
          /\ y.published = r.published /\ y.output = x.attempts /\ y.row = r.row
      BY <1>0 DEF ReportRow
    <2> HIDE DEF y
    <2>5. ReportOK(x, y)
      BY <1>0, <2>1, <2>4, WorkerRecord DEF ReportOK
    <2> QED BY <1>0, <2>2, <2>3, <2>5, ReportWritten, WorkerRecord
  <1>4. ASSUME NEW final \in BOOLEAN, FailedAttempt(e, final)
        PROVE  Written(e) /\ ep'[e].status # "stopped"
    <2>1. CASE final \/ ep[e].attempts >= _REPORT_ATTEMPT_LIMIT
      <3> DEFINE y == [r EXCEPT !.row = "failed", !.step = "none", !.attempt = "none"]
      <3>1. /\ y \in ReportRow /\ y.step = "none" /\ y.attempt = "none" /\ y.calls = r.calls
            /\ y.published = r.published
        BY <1>0 DEF ReportRow
      <3>2. report' = [report EXCEPT ![e] = y] /\ ep' = [ep EXCEPT ![e] = Finished(@, "failed")]
        BY <1>0, <1>4, <2>1 DEF FailedAttempt
      <3> HIDE DEF y
      <3> QED BY <1>0, <3>1, <3>2, Writes_Finished, WorkerRecord
    <2>2. CASE ~(final \/ ep[e].attempts >= _REPORT_ATTEMPT_LIMIT)
      <3> DEFINE y == [r EXCEPT !.step = "prepare", !.attempt = "none"]
                 z == [x EXCEPT !.wrap = "pending"]
      <3>1. y \in ReportRow /\ y.step = "prepare" /\ y.attempt = "none"
        BY <1>0 DEF ReportRow
      <3>2. y.row = r.row /\ y.calls = r.calls /\ y.published = r.published
        BY <1>0 DEF ReportRow
      <3>3. z \in Episode
        BY <1>0 DEF Episode
      <3>4. z.wrap = "pending" /\ z.status = x.status /\ z.ending = x.ending /\ z.attempts = x.attempts
        BY <1>0 DEF Episode
      <3>5. z.used = x.used /\ z.ceiling = x.ceiling
        BY <1>0 DEF Episode
      <3>6. z.stop = x.stop
        BY <1>0 DEF Episode
      <3>7. report' = [report EXCEPT ![e] = y] /\ ep' = [ep EXCEPT ![e] = z]
        BY <1>0, <1>4, <2>2 DEF FailedAttempt
      <3> HIDE DEF y, z
      <3>8. EpisodeOK(z)
        BY <1>0, <3>4, <3>5, <3>6, WorkerRecord DEF EpisodeOK, Unfenced
      <3>9. ReportOK(z, y)
        BY <1>0, <3>1, <3>2, <3>4, WorkerRecord DEF ReportOK
      <3> QED BY <1>0, <3>1, <3>3, <3>4, <3>5, <3>7, <3>8, <3>9, BothWritten, WorkerRecord
    <2> QED BY <2>1, <2>2
  <1>5. CASE finish_episode_report_ready(e)
    <2> DEFINE y == [r EXCEPT !.row = "succeeded", !.step = "none", !.attempt = "none", !.published = r.output]
    <2>1. r.step = "call" /\ r.output # 0 /\ r.output \in Nat
      BY <1>5, WorkerRecord DEF finish_episode_report_ready
    <2>2. y \in ReportRow
      BY <1>0, <2>1 DEF ReportRow
    <2>3. y.step = "none" /\ y.attempt = "none" /\ y.calls = r.calls /\ y.published = r.output
      BY <1>0 DEF ReportRow
    <2>4. report' = [report EXCEPT ![e] = y] /\ ep' = [ep EXCEPT ![e] = Finished(@, "ready")]
      BY <1>0, <1>5 DEF finish_episode_report_ready
    <2> HIDE DEF y
    <2> QED BY <1>0, <2>1, <2>2, <2>3, <2>4, Writes_Finished, WorkerRecord
  <1>6. r.row # "none"
    BY <1>0, WorkerRecord
  <1> QED BY <1>1, <1>2, <1>3, <1>4, <1>5, <1>6, Writes_allocate
          DEF ReportWorker, record_episode_report_attempt_error, finish_episode_report_error

(* A report whose worker is gone is taken up again, or closed if its last attempt was lost. *)
LEMMA Writes_start ==
    ASSUME IInv, NEW e \in Episodes, Startable(e), start_episode_report(e)
    PROVE  Written(e) /\ ep'[e].status # "stopped" /\ report[e].row # "none"
  <1> DEFINE r == report[e]
             x == ep[e]
  <1>1. /\ x \in Episode /\ r \in ReportRow /\ EpisodeOK(x) /\ ReportOK(x, r)
        /\ ep \in [Episodes -> Episode] /\ report \in [Episodes -> ReportRow]
    BY RecordsAre
  <1>2. /\ x.status = "wrapping_up" /\ x.wrap \in {"pending", "running"} /\ r.step = "none"
        /\ r.row \in {"interrupted", "paused"}
    BY DEF Startable
  <1>3. r.published = 0 /\ r.calls <= x.attempts /\ (r.attempt = "queued" => r.calls < x.attempts)
    BY <1>1, <1>2 DEF ReportOK, Ended
  <1>4. requeue_interrupted_episode_report_allocation(e)
    BY DEF start_episode_report
  <1>5. CASE Exhausted(e)
    <2> DEFINE y == [r EXCEPT !.row = "failed", !.attempt = "none"]
               z == Finished(x, "failed")
    <2>1. /\ y \in ReportRow /\ y.step = "none" /\ y.attempt = "none" /\ y.calls = r.calls
          /\ y.published = r.published
      BY <1>1, <1>2 DEF ReportRow
    <2>2. report' = [report EXCEPT ![e] = y] /\ ep' = [ep EXCEPT ![e] = z]
      BY <1>1, <1>4, <1>5 DEF requeue_interrupted_episode_report_allocation
    <2>3. /\ z \in Episode /\ EpisodeOK(z) /\ z.status \in Ended /\ z.status # "stopped"
          /\ z.status = _status_for_ending[x.ending] /\ z.ending = x.ending
          /\ z.used = x.used /\ z.attempts = x.attempts /\ z.wrap = "failed"
      BY <1>1, <1>2, FinishedRecord DEF Unfenced
    <2> HIDE DEF y, z
    <2>4. ReportOK(z, y)
      BY <1>3, <2>1, <2>3 DEF ReportOK
    <2> QED BY <1>2, <2>1, <2>2, <2>3, <2>4, BothWritten
  <1>6. CASE ~Exhausted(e)
    <2> DEFINE a == IF r.attempt = "running" THEN "none" ELSE r.attempt
               y == [r EXCEPT !.row = "queued", !.step = "prepare", !.attempt = a]
               z == [x EXCEPT !.wrap = "pending"]
    <2>0. a \in {"none", "queued"} /\ (a = "queued" => r.attempt = "queued")
      BY <1>1 DEF ReportRow
    <2>1. report' = [report EXCEPT ![e] = y] /\ ep' = [ep EXCEPT ![e] = z]
      BY <1>1, <1>4, <1>6 DEF requeue_interrupted_episode_report_allocation
    <2> HIDE DEF a
    <2>2. y \in ReportRow /\ y.step = "prepare" /\ y.attempt = a /\ y.row = "queued"
      BY <1>1, <2>0 DEF ReportRow
    <2>3. y.calls = r.calls /\ y.published = r.published /\ y.output = r.output
      BY <1>1, <2>0 DEF ReportRow
    <2>4. z \in Episode
      BY <1>1 DEF Episode
    <2>5. z.wrap = "pending" /\ z.status = x.status /\ z.ending = x.ending /\ z.attempts = x.attempts
      BY <1>1 DEF Episode
    <2>6. z.used = x.used /\ z.ceiling = x.ceiling
      BY <1>1 DEF Episode
    <2>7. z.stop = x.stop
      BY <1>1 DEF Episode
    <2> HIDE DEF y, z
    <2>8. EpisodeOK(z)
      BY <1>1, <1>2, <2>5, <2>6, <2>7 DEF EpisodeOK, Unfenced
    <2>9. ReportOK(z, y)
      BY <1>2, <1>3, <2>0, <2>2, <2>3, <2>5 DEF ReportOK
    <2> QED BY <1>2, <2>1, <2>2, <2>4, <2>5, <2>6, <2>8, <2>9, BothWritten
  <1> QED BY <1>2, <1>5, <1>6

(* The wrap-up of an ending that is fenced. *)
LEMMA Writes_begin ==
    ASSUME IInv, NEW e \in Episodes, NEW turn \in Ops, NEW ending \in Endings \ {"stopped"}, NEW session,
           ep[e].ending = ending, ~Active(e),
           begin_episode_report_wrapup(e, turn, ending, session)
    PROVE  UNCHANGED reportVars \/ (Written(e) /\ ep'[e].status # "stopped")
  <1> DEFINE r == report[e]
             x == ep[e]
  <1>1. /\ x \in Episode /\ r \in ReportRow /\ EpisodeOK(x) /\ ReportOK(x, r)
        /\ ep \in [Episodes -> Episode] /\ report \in [Episodes -> ReportRow]
    BY RecordsAre
  <1>2. x.status \notin Unfenced /\ x.status # "stopped" /\ x.status # "none"
    BY <1>1 DEF EpisodeOK, Unfenced, Endings
  <1>3. x.status = "wrapping_up" \/ x.status = _status_for_ending[x.ending]
    BY <1>1, <1>2 DEF EpisodeOK, Unfenced, Episode, _LIVE_EPISODE_STATUSES
  <1>4. CASE ~HasWrapup(e) /\ end_episode_without_report(e)
    <2> DEFINE z == Finished(x, "not_started")
    <2>1. /\ z \in Episode /\ EpisodeOK(z) /\ z.status \in Ended /\ z.status # "stopped"
          /\ z.status = _status_for_ending[x.ending] /\ z.ending = x.ending
          /\ z.used = x.used /\ z.attempts = x.attempts /\ z.wrap = "not_started"
      BY <1>1, <1>2, FinishedRecord
    <2>2. ep' = [ep EXCEPT ![e] = z] /\ report' = [report EXCEPT ![e] = r]
      BY <1>1, <1>4 DEF end_episode_without_report
    <2> HIDE DEF z
    <2>3. r = NoReport
      BY <1>1, <1>4 DEF HasWrapup, ReportOK
    <2>4. ReportOK(z, r)
      BY <1>1, <2>1, <2>3 DEF ReportOK, NoReport
    <2> QED BY <1>1, <1>2, <1>3, <2>1, <2>2, <2>4, BothWritten
  <1>5. CASE start_episode_report(e)
    BY <1>5, Writes_start DEF start_episode_report
  <1>6. CASE ~HasWrapup(e) /\ x.status = "wrapping_up" /\ begin_episode_wrapup(e, turn)
    <2> DEFINE y == [NoReport EXCEPT !.row = "queued", !.step = "prepare"]
               z == [x EXCEPT !.wrap = "pending", !.concluding = turn]
    <2>1. y \in ReportRow /\ y.step = "prepare" /\ y.row = "queued" /\ y.attempt = "none"
      BY DEF ReportRow, NoReport
    <2>2. y.calls = 0 /\ y.published = 0
      BY DEF NoReport
    <2>3. ep' = [ep EXCEPT ![e] = z] /\ report' = [report EXCEPT ![e] = y]
      BY <1>1, <1>6 DEF begin_episode_wrapup
    <2>4. z \in Episode
      BY <1>1 DEF Episode
    <2>5. z.wrap = "pending" /\ z.status = x.status /\ z.ending = x.ending /\ z.attempts = x.attempts
      BY <1>1 DEF Episode
    <2>6. z.used = x.used /\ z.ceiling = x.ceiling
      BY <1>1 DEF Episode
    <2>7. z.stop = x.stop
      BY <1>1 DEF Episode
    <2> HIDE DEF y, z
    <2>8. EpisodeOK(z)
      BY <1>1, <1>6, <2>5, <2>6, <2>7 DEF EpisodeOK, Unfenced
    <2>9. z.attempts \in Nat
      BY <1>1, <2>5, ReportAssumption DEF Episode
    <2>10. ReportOK(z, y)
      BY <1>6, <2>1, <2>2, <2>5, <2>9 DEF ReportOK
    <2> QED BY <1>2, <1>6, <2>1, <2>3, <2>4, <2>5, <2>6, <2>8, <2>10, BothWritten
  <1>7. CASE ~HasWrapup(e) /\ x.status = "wrapping_up" /\ fail_episode_wrapup_unlaunchable(e, turn)
    <2> DEFINE f == Finished(x, "failed")
               z == [f EXCEPT !.concluding = turn]
    <2>1. /\ f \in Episode /\ EpisodeOK(f) /\ f.status \in Ended /\ f.status # "stopped"
          /\ f.status = _status_for_ending[x.ending] /\ f.ending = x.ending
          /\ f.used = x.used /\ f.attempts = x.attempts /\ f.wrap = "failed"
      BY <1>1, <1>2, FinishedRecord
    <2>2. ep' = [ep EXCEPT ![e] = z] /\ report' = [report EXCEPT ![e] = r]
      BY <1>1, <1>7 DEF fail_episode_wrapup_unlaunchable
    <2> HIDE DEF f
    <2>3. z \in Episode
      BY <2>1 DEF Episode
    <2>4. z.wrap = "failed" /\ z.status = f.status /\ z.ending = f.ending /\ z.attempts = f.attempts
      BY <2>1 DEF Episode
    <2>5. z.used = f.used /\ z.ceiling = f.ceiling
      BY <2>1 DEF Episode
    <2>6. z.stop = f.stop
      BY <2>1 DEF Episode
    <2> HIDE DEF z
    <2>7. EpisodeOK(z)
      BY <2>1, <2>4, <2>5, <2>6 DEF EpisodeOK, Unfenced, Ended
    <2>8. r = NoReport
      BY <1>1, <1>7 DEF HasWrapup, ReportOK
    <2>9. ReportOK(z, r)
      BY <1>1, <2>1, <2>4, <2>8 DEF ReportOK, NoReport
    <2> QED BY <1>1, <1>2, <1>7, <2>1, <2>2, <2>3, <2>4, <2>5, <2>7, <2>9, BothWritten
  <1> QED BY <1>4, <1>5, <1>6, <1>7 DEF begin_episode_report_wrapup

-----------------------------------------------------------------------------
(* One lemma per action: it preserves the invariant, and is a step of EpisodeLifecycle. *)

(* The lives of the episodes go no further. *)
SameLives ==
    \A f \in Episodes : ep'[f].status = ep[f].status /\ ep'[f].used = ep[f].used /\ ep'[f].ending = ep[f].ending

(* One goes a step further. *)
OneLife(e) == Moved(e) /\ \A f \in Episodes \ {e} : ep'[f] = ep[f]

Lived == SameLives \/ \E e \in Episodes : OneLife(e)

LEMMA ThreadsAre ==
    ASSUME IInv
    PROVE  /\ look \in [Lookers -> Look] /\ wake \in Wake /\ task \in [Ops -> TaskRow]
           /\ unit \in [Episodes -> {"none", "active", "ready", "claimed", "stopped"}]
           /\ boot \in {"serving", "stops", "settle", "reports"}
           /\ NoLook \in Look /\ NoWake \in Wake
  <1>1. /\ look \in [Lookers -> Look] /\ wake \in Wake /\ task \in [Ops -> TaskRow]
        /\ unit \in [Episodes -> {"none", "active", "ready", "claimed", "stopped"}]
        /\ boot \in {"serving", "stops", "settle", "reports"}
    BY TypesAre DEF IInv
  <1>2. NoLook \in Look
    BY DEF NoLook, Look
  <1>3. NoWake \in Wake
    BY LoopAssumption DEF NoWake, Wake
  <1> QED BY <1>1, <1>2, <1>3

LEMMA Step_Report ==
    ASSUME IInv, NEW e \in Episodes, Report(e), UNCHANGED boot
    PROVE  IInv' /\ Lived
  <1>1. Written(e) /\ ep'[e].status # "stopped" /\ report[e].row # "none"
    BY Writes_ReportWorker DEF Report
  <1>2. IInv'
    BY <1>1, ReportMoves, ThreadsAre DEF Report
  <1> QED BY <1>1, <1>2 DEF Lived, OneLife, Written

LEMMA Step_restart_interrupted_episode_reports ==
    ASSUME IInv, restart_interrupted_episode_reports
    PROVE  IInv' /\ Lived
  <1>1. ASSUME NEW e \in Episodes, Startable(e), start_episode_report(e) PROVE IInv' /\ Lived
    <2>1. Written(e) /\ ep'[e].status # "stopped" /\ report[e].row # "none"
      BY <1>1, Writes_start
    <2>2. IInv'
      BY <2>1, ReportMoves, ThreadsAre DEF restart_interrupted_episode_reports
    <2> QED BY <2>1, <2>2 DEF Lived, OneLife, Written
  <1>2. CASE UNCHANGED reportVars
    <2>1. Kept /\ RecordInv'
      BY <1>2 DEF IInv, RecordInv, Kept, reportVars
    <2>2. FlightInv'
      BY <2>1, FlightFramed DEF restart_interrupted_episode_reports
    <2>3. TypeOK'
      BY <1>2 DEF IInv, TypeOK, restart_interrupted_episode_reports, reportVars
    <2>4. IInv'
      BY <1>2, <2>1, <2>2, <2>3, SameRows, Moves DEF restart_interrupted_episode_reports, reportVars
    <2> QED BY <1>2, <2>4 DEF Lived, SameLives, reportVars
  <1> QED BY <1>1, <1>2 DEF restart_interrupted_episode_reports

LEMMA Step_WrapUp ==
    ASSUME IInv, NEW l \in Lookers, WrapUp(l), UNCHANGED boot
    PROVE  IInv' /\ Lived
  <1> DEFINE e == look[l].ep
             turn == look[l].turn
             ending == look[l].ending
  <1>1. /\ e \in Episodes /\ turn \in Ops /\ ending \in Endings \ {"stopped"} /\ ep[e].ending = ending
    BY DEF WrapUp, IInv, FlightInv
  <1>2. look' \in [Lookers -> Look] /\ \A r \in Lookers : look'[r] = look[r] \/ look'[r] = NoLook
    BY ThreadsAre DEF WrapUp
  <1>3. CASE UNCHANGED reportVars /\ (unit' = unit \/ unit' = [unit EXCEPT ![e] = IF @ = "claimed" THEN "stopped" ELSE @])
    <2>1. Kept /\ RecordInv'
      BY <1>3 DEF IInv, RecordInv, Kept, reportVars
    <2>2. FlightInv'
      BY <1>2, <2>1, FlightFramed DEF WrapUp
    <2>3. /\ unit' \in [Episodes -> {"none", "active", "ready", "claimed", "stopped"}]
          /\ \A f \in Episodes : unit'[f] = unit[f] \/ unit'[f] = "stopped"
      BY <1>1, <1>3, ThreadsAre
    <2>4. ep \in [Episodes -> Episode] /\ report \in [Episodes -> ReportRow]
      BY TypesAre DEF IInv
    <2>5. UNCHANGED <<task, wake, ep, report>>
      BY <1>3 DEF WrapUp, reportVars
    <2>6. TypeOK'
      BY <1>2, <2>3, <2>4, <2>5, TypesBecome, ThreadsAre
    <2>7. IInv'
      BY <2>1, <2>2, <2>3, <2>5, <2>6, SameRows, Moves
    <2> QED BY <2>5, <2>7 DEF Lived, SameLives
  <1>4. CASE /\ ~Active(e) /\ unit' = [unit EXCEPT ![e] = IF @ = "claimed" THEN "stopped" ELSE @]
             /\ begin_episode_report_wrapup(e, turn, ending, task[turn].session)
    <2>1. UNCHANGED reportVars \/ (Written(e) /\ ep'[e].status # "stopped")
      BY <1>1, <1>4, Writes_begin
    <2>2. CASE Written(e) /\ ep'[e].status # "stopped"
      <3>1. /\ unit' \in [Episodes -> {"none", "active", "ready", "claimed", "stopped"}]
            /\ \A f \in Episodes : unit'[f] = unit[f] \/ unit'[f] = "stopped"
        BY <1>1, <1>4, ThreadsAre
      <3>2. IInv'
        BY <1>1, <1>2, <1>4, <2>2, <3>1, ReportMoves, ThreadsAre DEF WrapUp
      <3> QED BY <1>1, <2>2, <3>2 DEF Lived, OneLife, Written
    <2> QED BY <1>3, <1>4, <2>1, <2>2
  <1> QED BY <1>3, <1>4 DEF WrapUp, settle_experiment_episode_wrapup

-----------------------------------------------------------------------------
(* Steps of the reconcilers. *)
LEMMA Step_FenceEnding ==
    ASSUME IInv, NEW l \in Lookers, FenceEnding(l), UNCHANGED boot
    PROVE  IInv' /\ Lived
  <1> DEFINE e == look[l].ep
             ending == look[l].ending
             x == ep[e]
  <1>1. e \in Episodes /\ look[l].turn \in Ops /\ ending \in Endings \ {"stopped"} /\ ending # "none"
    BY DEF FenceEnding, IInv, FlightInv, Endings
  <1>2. UNCHANGED <<report, task, unit, wake>>
    BY DEF FenceEnding
  <1>3. /\ ep \in [Episodes -> Episode] /\ report \in [Episodes -> ReportRow] /\ x \in Episode
        /\ EpisodeOK(x) /\ ReportOK(x, report[e]) /\ report[e] \in ReportRow
    BY <1>1, RecordsAre
  <1>4. ASSUME RecordInv', Kept, ep' \in [Episodes -> Episode], look' \in [Lookers -> Look], FlightInv',
               \A f \in Episodes : ep'[f].status = "stopped" => ep[f].status = "stopped"
        PROVE  IInv'
    <2>1. TypeOK'
      BY <1>2, <1>3, <1>4, TypesBecome, ThreadsAre
    <2> QED BY <1>2, <1>4, <2>1, SameRows, Moves
  <1>5. CASE ~FenceAccepted(e, ending)
    <2>1. UNCHANGED ep /\ look' = [look EXCEPT ![l] = NoLook]
      BY <1>5 DEF FenceEnding
    <2>2. RecordInv' /\ Kept
      BY <1>2, <2>1 DEF IInv, RecordInv, Kept
    <2>3. look' \in [Lookers -> Look] /\ \A r \in Lookers : look'[r] = look[r] \/ look'[r] = NoLook
      BY <2>1, ThreadsAre
    <2> QED BY <1>2, <1>3, <1>4, <2>1, <2>2, <2>3, FlightFramed DEF Lived, SameLives
  <1>6. CASE FenceAccepted(e, ending)
    <2> DEFINE d == [look[l] EXCEPT !.step = "wrap"]
    <2>1. look' = [look EXCEPT ![l] = d] /\ fence_episode_ending(e, ending)
      BY <1>6, ThreadsAre DEF FenceEnding
    <2>2. d \in Look /\ d.step = "wrap" /\ d.ep = e /\ d.turn = look[l].turn /\ d.ending = ending
      BY ThreadsAre DEF Look
    <2> HIDE DEF d
    <2>3. look' \in [Lookers -> Look] /\ look'[l] = d /\ \A r \in Lookers \ {l} : look'[r] = look[r]
      BY <2>1, <2>2, ThreadsAre
    <2>4. ASSUME Kept, ep'[e].ending = ending PROVE FlightInv'
      <3>1. wake'.step # "idle" => wake'.ep \in Episodes /\ ep'[wake'.ep].status # "none"
        BY <1>2, <2>4 DEF IInv, FlightInv, Kept
      <3> SUFFICES ASSUME NEW r \in Lookers, look'[r].step # "idle"
          PROVE  /\ look'[r].ep \in Episodes /\ look'[r].turn \in Ops /\ look'[r].ending \in Endings \ {"stopped"}
                 /\ look'[r].step = "wrap" => ep'[look'[r].ep].ending = look'[r].ending
        BY <3>1 DEF FlightInv
      <3>2. CASE r = l
        BY <1>1, <2>2, <2>3, <2>4, <3>2
      <3>3. CASE r # l
        <4>1. look'[r] = look[r]
          BY <2>3, <3>3
        <4>2. /\ look[r].ep \in Episodes /\ look[r].turn \in Ops /\ look[r].ending \in Endings \ {"stopped"}
              /\ look[r].step = "wrap" => ep[look[r].ep].ending = look[r].ending
          BY <4>1 DEF IInv, FlightInv
        <4>3. look[r].ending # "none"
          BY <4>2 DEF Endings
        <4> QED BY <2>4, <4>1, <4>2, <4>3 DEF Kept
      <3> QED BY <3>2, <3>3
    <2>5. CASE x.ending # "none"
      <3>1. UNCHANGED ep /\ x.ending = ending
        BY <1>6, <2>1, <2>5 DEF fence_episode_ending, FenceAccepted
      <3>2. RecordInv' /\ Kept
        BY <1>2, <3>1 DEF IInv, RecordInv, Kept
      <3> QED BY <1>3, <1>4, <2>3, <2>4, <3>1, <3>2 DEF Lived, SameLives
    <2>6. CASE x.ending = "none"
      <3> DEFINE z == [x EXCEPT !.status = "wrapping_up", !.ending = ending]
      <3>1. ep' = [ep EXCEPT ![e] = z]
        BY <1>1, <1>3, <2>1, <2>6 DEF fence_episode_ending
      <3>2. x.status = "running" /\ ~x.stop
        BY <1>6, <2>6 DEF FenceAccepted
      <3>3. z \in Episode
        BY <1>1, <1>3 DEF Episode, _LIVE_EPISODE_STATUSES
      <3>4. z.status = "wrapping_up" /\ z.ending = ending /\ z.wrap = x.wrap /\ z.attempts = x.attempts
        BY <1>1, <1>3 DEF Episode
      <3>5. z.used = x.used /\ z.ceiling = x.ceiling
        BY <1>3 DEF Episode
      <3>6. z.stop = x.stop
        BY <1>3 DEF Episode
      <3> HIDE DEF z
      <3>7. EpisodeOK(z)
        BY <1>1, <1>3, <3>2, <3>4, <3>5, <3>6 DEF EpisodeOK, Unfenced, Ended
      <3>8. report[e] = NoReport /\ x.wrap = "not_started" /\ x.attempts \in Nat
        BY <1>3, <3>2, ReportAssumption DEF EpisodeOK, ReportOK, Unfenced, Episode
      <3>9. ReportOK(z, report[e])
        BY <3>4, <3>8 DEF ReportOK, NoReport
      <3>10. /\ ep' \in [Episodes -> Episode] /\ ep'[e] = z
             /\ \A f \in Episodes \ {e} : ep'[f] = ep[f]
        BY <1>1, <1>3, <3>1, <3>3
      <3>11. Moved(e)
        BY <1>1, <3>2, <3>4, <3>5, <3>10 DEF Moved
      <3>12. Written(e)
        BY <1>2, <1>3, <3>2, <3>7, <3>9, <3>10, <3>11 DEF Written
      <3>13. RecordInv' /\ Kept
        BY <1>1, <3>12, WrittenKeeps
      <3>14. FlightInv'
        BY <2>4, <3>4, <3>10, <3>13
      <3>15. \A f \in Episodes : ep'[f].status = "stopped" => ep[f].status = "stopped"
        BY <3>4, <3>10
      <3>16. IInv'
        BY <1>4, <2>3, <3>10, <3>13, <3>14, <3>15
      <3>17. OneLife(e)
        BY <3>10, <3>11 DEF OneLife
      <3> QED BY <1>1, <3>16, <3>17 DEF Lived
    <2> QED BY <2>5, <2>6
  <1> QED BY <1>5, <1>6

(* What a reconciler goes away with. *)
LEMMA DueLook ==
    ASSUME IInv, NEW e \in Episodes, NEW o \in Ops, Owed(e, o)
    PROVE  /\ Due(e, o) \in Look /\ Due(e, o).step = "fence" /\ Due(e, o).ep = e
           /\ Due(e, o).turn \in Ops /\ Due(e, o).ending \in Endings \ {"stopped"}
  <1>1. ep[e] \in Episode /\ task \in [Ops -> TaskRow]
    BY RecordsAre, ThreadsAre
  <1>2. ep[e].last \in Ops \cup {NoOp}
    BY <1>1 DEF Episode
  <1>3. CASE Signalled(e)
    <2>1. ep[e].last \in Ops
      BY <1>2, <1>3 DEF Signalled
    <2>2. task[ep[e].last].exit \in Exits
      BY <1>1, <1>3, <2>1 DEF Signalled, TaskRow
    <2>3. task[ep[e].last].exit \in Endings \ {"stopped"}
      BY <2>2, LoopAssumption DEF Endings
    <2>4. Due(e, o) = [step |-> "fence", ep |-> e, turn |-> ep[e].last, ending |-> task[ep[e].last].exit]
      BY <1>3 DEF Due
    <2> QED BY <2>1, <2>3, <2>4 DEF Look
  <1>4. CASE ~Signalled(e)
    <2>1. Due(e, o) = [step |-> "fence", ep |-> e, turn |-> o, ending |-> OperationalEnding(e, o)]
      BY <1>4 DEF Due
    <2>2. OperationalEnding(e, o) \in {"exhausted", "failed"}
      BY <1>4, <2>1 DEF Owed
    <2>3. OperationalEnding(e, o) \in Endings \ {"stopped"}
      BY <2>2 DEF Endings
    <2> QED BY <2>1, <2>3 DEF Look
  <1> QED BY <1>3, <1>4

LEMMA FlightLooks ==
    ASSUME IInv, Kept, UNCHANGED wake, NEW l \in Lookers, NEW d \in Look, look' = [look EXCEPT ![l] = d],
           d.step = "fence", d.ep \in Episodes, d.turn \in Ops, d.ending \in Endings \ {"stopped"}
    PROVE  FlightInv' /\ look' \in [Lookers -> Look]
  <1>1. look' \in [Lookers -> Look] /\ look'[l] = d /\ \A r \in Lookers \ {l} : look'[r] = look[r]
    BY ThreadsAre
  <1>2. wake'.step # "idle" => wake'.ep \in Episodes /\ ep'[wake'.ep].status # "none"
    BY DEF IInv, FlightInv, Kept
  <1> SUFFICES ASSUME NEW r \in Lookers, look'[r].step # "idle"
      PROVE  /\ look'[r].ep \in Episodes /\ look'[r].turn \in Ops /\ look'[r].ending \in Endings \ {"stopped"}
             /\ look'[r].step = "wrap" => ep'[look'[r].ep].ending = look'[r].ending
    BY <1>1, <1>2 DEF FlightInv
  <1>3. CASE r = l
    BY <1>1, <1>3
  <1>4. CASE r # l
    <2>1. look'[r] = look[r]
      BY <1>1, <1>4
    <2>2. /\ look[r].ep \in Episodes /\ look[r].turn \in Ops /\ look[r].ending \in Endings \ {"stopped"}
          /\ look[r].step = "wrap" => ep[look[r].ep].ending = look[r].ending
      BY <2>1 DEF IInv, FlightInv
    <2>3. look[r].ending # "none"
      BY <2>2 DEF Endings
    <2> QED BY <2>1, <2>2, <2>3 DEF Kept
  <1> QED BY <1>3, <1>4

(* An episode that was authorized has a latest leaf. *)
LEMMA LatestLeafIs ==
    ASSUME IInv, NEW e \in Episodes, ep[e].status # "none"
    PROVE  LatestLeaf(e) \in Ops
  <1>1. PICK m \in TurnsOf(task, e) : \A p \in TurnsOf(task, e) : p <= m
    BY DEF IInv, OrderInv
  <1>2. m \in Leaves(task, e)
    <2> SUFFICES ASSUME NEW c \in Ops, task[c].parent = m PROVE FALSE
      BY <1>1 DEF Leaves
    <2>1. m \in Ops /\ task[m].ep = e
      BY DEF TurnsOf
    <2>2. m < c /\ task[m].ep = task[c].ep
      BY <2>1 DEF IInv, RowInv, RowOK, Ops, NoOp
    <2>3. c \in TurnsOf(task, e)
      BY <2>1, <2>2 DEF TurnsOf
    <2> QED BY <1>1, <2>1, <2>2, <2>3 DEF Ops
  <1>3. \A p \in Leaves(task, e) : p <= m
    BY <1>1 DEF Leaves
  <1>4. LatestLeaf(e) \in Leaves(task, e)
    BY <1>2, <1>3 DEF LatestLeaf
  <1> QED BY <1>4 DEF Leaves, TurnsOf

-----------------------------------------------------------------------------
(* Stop. *)

(* Nothing of an episode that waits for no turn is live. *)
LEMMA QuiescentIsIdle ==
    ASSUME IInv, NEW e \in Episodes, NEW eps, Quiescent(eps, e)
    PROVE  ~Active(e)
  <1> SUFFICES ASSUME NEW o \in Ops, task[o].ep = e, task[o].status \in LiveTurn PROVE FALSE
    BY DEF Active, TurnsOf
  <1>1. o \in Unresolved(e)
    BY LiveIsLast DEF Unresolved, Leaves, TurnsOf
  <1>2. task[o].status \in Recoverable
    BY <1>1 DEF Quiescent
  <1> QED BY <1>2 DEF LiveTurn, Recoverable

LEMMA SkippedRecord ==
    ASSUME NEW x \in Episode, EpisodeOK(x), x.status = "stopping"
    PROVE  LET y == Skipped(x)
           IN  /\ y \in Episode /\ EpisodeOK(y) /\ y.status = "stopped" /\ y.ending = "stopped"
               /\ y.used = x.used /\ y.attempts = x.attempts /\ y.wrap = "skipped"
  <1> DEFINE y == Skipped(x)
  <1>1. y \in Episode
    BY DEF Skipped, Episode, Ended, Endings
  <1>2. y.status = "stopped" /\ y.ending = "stopped" /\ y.wrap = "skipped"
    BY DEF Skipped, Episode
  <1>3. y.used = x.used /\ y.attempts = x.attempts /\ y.ceiling = x.ceiling
    BY DEF Skipped, Episode
  <1>4. y.stop = TRUE
    BY DEF Skipped, Episode
  <1> HIDE DEF y
  <1>5. x.used <= x.ceiling
    BY DEF EpisodeOK
  <1>6. _status_for_ending["stopped"] = "stopped" /\ "stopped" \in Endings
    BY DEF _status_for_ending, Endings
  <1>7. EpisodeOK(y)
    BY <1>2, <1>3, <1>4, <1>5, <1>6 DEF EpisodeOK, Unfenced, Ended
  <1> QED BY <1>1, <1>2, <1>3, <1>7 DEF y

(* The rows a settled Stop abandons. *)
LEMMA RowsAbandoned ==
    ASSUME IInv, NEW rows \in [Ops -> TaskRow], RowsKept(rows), NEW S,
           \A o \in Ops : o \in S => task[o].status # "none",
           task' = [o \in Ops |-> IF o \in S THEN [rows[o] EXCEPT !.abandoned = TRUE] ELSE rows[o]]
    PROVE  task' \in [Ops -> TaskRow] /\ RowsKept(task')
  <1>1. ASSUME NEW o \in Ops
        PROVE  /\ [rows[o] EXCEPT !.abandoned = TRUE] \in TaskRow
               /\ [rows[o] EXCEPT !.abandoned = TRUE].ep = rows[o].ep
               /\ [rows[o] EXCEPT !.abandoned = TRUE].parent = rows[o].parent
               /\ [rows[o] EXCEPT !.abandoned = TRUE].inv = rows[o].inv
               /\ [rows[o] EXCEPT !.abandoned = TRUE].status = rows[o].status
               /\ [rows[o] EXCEPT !.abandoned = TRUE].step = rows[o].step
               /\ [rows[o] EXCEPT !.abandoned = TRUE].exit = rows[o].exit
    <2>1. rows[o] \in TaskRow
      OBVIOUS
    <2> QED BY <2>1 DEF TaskRow
  <1>2. task' \in [Ops -> TaskRow]
    BY <1>1
  <1>3. \A o \in Ops : /\ task'[o].ep = rows[o].ep /\ task'[o].parent = rows[o].parent
                       /\ task'[o].inv = rows[o].inv /\ task'[o].status = rows[o].status
                       /\ task'[o].step = rows[o].step /\ task'[o].exit = rows[o].exit
    BY <1>1
  <1>4. \A o \in Ops : task[o].status = "none" => task'[o] = rows[o]
    OBVIOUS
  <1> QED BY <1>2, <1>3, <1>4 DEF RowsKept

(* settle_experiment_loop_stop, over a record that may just have been marked. *)
Settleable(eps, rows, e) ==
    /\ eps \in [Episodes -> Episode] /\ \A f \in Episodes \ {e} : eps[f] = ep[f]
    /\ EpisodeOK(eps[e]) /\ eps[e].status # "none" /\ eps[e].used = ep[e].used
    /\ eps[e].ending = ep[e].ending /\ eps[e].wrap = ep[e].wrap /\ eps[e].attempts = ep[e].attempts
    /\ eps[e].status = ep[e].status \/ (ep[e].status = "running" /\ eps[e].status = "stopping")
    /\ rows \in [Ops -> TaskRow] /\ RowsKept(rows)

LEMMA StopSettles ==
    ASSUME IInv, NEW e \in Episodes, NEW eps, NEW rows, Settleable(eps, rows, e), UNCHANGED report,
           settle_experiment_loop_stop(eps, rows, e)
    PROVE  /\ Written(e) /\ RowsKept(task') /\ task' \in [Ops -> TaskRow]
           /\ unit' \in [Episodes -> {"none", "active", "ready", "claimed", "stopped"}]
           /\ \A f \in Episodes : unit'[f] = unit[f] \/ unit'[f] \in {"none", "stopped"}
           /\ ep'[e].status = "stopped" =>
                 ep[e].status = "stopped" \/ (~Active(e) /\ unit'[e] \in {"none", "stopped"})
  <1> DEFINE x == eps[e]
             r == report[e]
  <1>1. /\ ep \in [Episodes -> Episode] /\ report \in [Episodes -> ReportRow] /\ ep[e] \in Episode
        /\ EpisodeOK(ep[e]) /\ ReportOK(ep[e], r) /\ r \in ReportRow
    BY RecordsAre
  <1>2. /\ eps \in [Episodes -> Episode] /\ \A f \in Episodes \ {e} : eps[f] = ep[f]
        /\ x \in Episode /\ EpisodeOK(x) /\ x.status # "none" /\ x.used = ep[e].used
        /\ x.ending = ep[e].ending /\ x.wrap = ep[e].wrap /\ x.attempts = ep[e].attempts
        /\ x.status = ep[e].status \/ (ep[e].status = "running" /\ x.status = "stopping")
        /\ rows \in [Ops -> TaskRow] /\ RowsKept(rows) /\ ep[e].status # "none"
    BY DEF Settleable
  <1>3. ep[e].status \in {"running", "stopping"} => r = NoReport /\ x.attempts \in Nat
    BY <1>1, <1>2, ReportAssumption DEF EpisodeOK, ReportOK, Unfenced, Episode
  <1>4. CASE x.status = "stopping" /\ Quiescent(eps, e)
    <2> DEFINE y == Skipped(x)
    <2>1. /\ y \in Episode /\ EpisodeOK(y) /\ y.status = "stopped" /\ y.ending = "stopped"
          /\ y.used = x.used /\ y.attempts = x.attempts /\ y.wrap = "skipped"
      BY <1>2, <1>4, SkippedRecord
    <2>2. ep' = [eps EXCEPT ![e] = y]
      BY <1>4 DEF settle_experiment_loop_stop
    <2> HIDE DEF y
    <2>3. ep' \in [Episodes -> Episode] /\ ep'[e] = y /\ \A f \in Episodes \ {e} : ep'[f] = ep[f]
      BY <1>2, <2>1, <2>2
    <2>4. ep[e].status \in {"running", "stopping"}
      BY <1>2, <1>4
    <2>5. ReportOK(y, r)
      BY <1>3, <2>1, <2>4 DEF ReportOK, NoReport
    <2>6. Moved(e)
      BY <1>2, <2>1, <2>3, <2>4 DEF Moved
    <2>7. Written(e)
      BY <1>1, <1>2, <2>1, <2>3, <2>5, <2>6 DEF Written
    <2>8. /\ unit' \in [Episodes -> {"none", "active", "ready", "claimed", "stopped"}]
          /\ \A f \in Episodes : unit'[f] = unit[f] \/ unit'[f] \in {"none", "stopped"}
          /\ unit'[e] \in {"none", "stopped"}
      BY <1>4, ThreadsAre DEF settle_experiment_loop_stop
    <2>9. ~Active(e)
      BY <1>4, QuiescentIsIdle
    <2>10. \A o \in Ops : o \in Unresolved(e) => task[o].status # "none"
      BY DEF Unresolved, LiveTurn, Recoverable
    <2>11. task' = [o \in Ops |-> IF o \in Unresolved(e) THEN [rows[o] EXCEPT !.abandoned = TRUE]
                                  ELSE rows[o]]
      BY <1>4 DEF settle_experiment_loop_stop
    <2>12. task' \in [Ops -> TaskRow] /\ RowsKept(task')
      BY <1>2, <2>10, <2>11, RowsAbandoned
    <2> QED BY <2>7, <2>8, <2>9, <2>12
  <1>5. CASE ~(x.status = "stopping" /\ Quiescent(eps, e))
    <2>1. task' = rows /\ unit' = unit
      BY <1>5 DEF settle_experiment_loop_stop
    <2>2. ASSUME NEW y \in Episode, EpisodeOK(y), y.status = x.status, y.ending = x.ending, y.used = x.used,
                 y.wrap = x.wrap, y.attempts = x.attempts, ep' = [eps EXCEPT ![e] = y]
          PROVE  Written(e) /\ ep'[e].status = x.status
      <3>1. ep' \in [Episodes -> Episode] /\ ep'[e] = y /\ \A f \in Episodes \ {e} : ep'[f] = ep[f]
        BY <1>2, <2>2
      <3>2. ReportOK(y, r)
        <4>1. CASE x.status = ep[e].status
          BY <1>1, <1>2, <2>2, <4>1 DEF ReportOK
        <4>2. CASE ep[e].status = "running"
          BY <1>1, <1>2, <1>3, <2>2, <4>2 DEF ReportOK, NoReport
        <4> QED BY <1>2, <4>1, <4>2
      <3>3. Moved(e)
        BY <1>2, <2>2, <3>1 DEF Moved
      <3> QED BY <1>1, <1>2, <2>2, <3>1, <3>2, <3>3 DEF Written
    <2>3. Written(e) /\ ep'[e].status = x.status
      <3>1. CASE x.status = "stopping"
        <4>1. PICK b \in BOOLEAN : b = Problem(eps, e)
          BY DEF Problem
        <4>2. ep' = [eps EXCEPT ![e] = [x EXCEPT !.problem = b]]
          BY <1>2, <1>5, <3>1, <4>1 DEF settle_experiment_loop_stop
        <4> DEFINE y == [x EXCEPT !.problem = b]
        <4>3. /\ y \in Episode /\ y.status = x.status /\ y.ending = x.ending /\ y.stop = x.stop
              /\ y.wrap = x.wrap /\ y.used = x.used /\ y.ceiling = x.ceiling /\ y.attempts = x.attempts
          BY <1>2, ProblemWritten
        <4> HIDE DEF y
        <4>4. EpisodeOK(y)
          BY <1>2, <3>1, <4>3 DEF EpisodeOK
        <4> QED BY <2>2, <4>2, <4>3, <4>4 DEF y
      <3>2. CASE x.status # "stopping"
        <4>1. ep' = eps
          BY <3>2 DEF settle_experiment_loop_stop
        <4>2. ep' = [eps EXCEPT ![e] = x]
          BY <1>2, <4>1
        <4> QED BY <1>2, <2>2, <4>2
      <3> QED BY <3>1, <3>2
    <2>4. ep'[e].status = "stopped" => ep[e].status = "stopped"
      BY <1>2, <2>3
    <2> QED BY <1>2, <2>1, <2>3, <2>4, ThreadsAre
  <1> QED BY <1>4, <1>5

LEMMA SettleStep ==
    ASSUME IInv, NEW e \in Episodes, NEW eps, NEW rows, Settleable(eps, rows, e),
           UNCHANGED <<report, wake, look>>, boot' \in {"serving", "stops", "settle", "reports"},
           settle_experiment_loop_stop(eps, rows, e)
    PROVE  IInv' /\ Lived
  <1>1. /\ Written(e) /\ RowsKept(task') /\ task' \in [Ops -> TaskRow]
        /\ unit' \in [Episodes -> {"none", "active", "ready", "claimed", "stopped"}]
        /\ \A f \in Episodes : unit'[f] = unit[f] \/ unit'[f] \in {"none", "stopped"}
        /\ ep'[e].status = "stopped" =>
              ep[e].status = "stopped" \/ (~Active(e) /\ unit'[e] \in {"none", "stopped"})
    BY StopSettles
  <1>2. RecordInv' /\ Kept
    BY <1>1, WrittenKeeps
  <1>3. FlightInv'
    BY <1>2, FlightFramed
  <1>4. TypeOK'
    BY <1>1, TypesBecome, ThreadsAre DEF Written
  <1>5. \A f \in Episodes : ep'[f].status = "stopped" =>
            ep[f].status = "stopped" \/ (~Active(f) /\ unit'[f] \in {"none", "stopped"})
    BY <1>1 DEF Written
  <1>6. IInv'
    BY <1>1, <1>2, <1>3, <1>4, <1>5, Moves
  <1> QED BY <1>1, <1>6 DEF Lived, OneLife, Written

(* What is settled as it stands. *)
LEMMA SettleableAsIs ==
    ASSUME IInv, NEW e \in Episodes, ep[e].status # "none", NEW rows \in [Ops -> TaskRow], RowsKept(rows)
    PROVE  Settleable(ep, rows, e)
  BY RecordsAre DEF Settleable

LEMMA RowsKeptNow == ASSUME IInv PROVE RowsKept(task) /\ task \in [Ops -> TaskRow]
  <1>1. \A o \in Ops : RowOK(task, o)
    BY DEF IInv, RowInv
  <1> QED BY <1>1, ThreadsAre DEF RowsKept, RowOK

LEMMA Step_request_experiment_loop_stop ==
    ASSUME IInv, NEW e \in Episodes, request_experiment_loop_stop(e), UNCHANGED boot
    PROVE  IInv' /\ Lived
  <1> DEFINE x == ep[e]
             y == [x EXCEPT !.status = "stopping", !.stop = TRUE]
             eps == request_episode_stop(e)
  <1>1. ep \in [Episodes -> Episode] /\ x \in Episode /\ EpisodeOK(x)
    BY RecordsAre
  <1>2. x.status = "running"
    <2>1. x.status \in {"running", "stopping"} /\ ~x.stop
      BY DEF request_experiment_loop_stop, StopAccepted
    <2> QED BY <1>1, <2>1 DEF EpisodeOK
  <1>3. eps = [ep EXCEPT ![e] = y]
    BY <1>1 DEF request_episode_stop
  <1>4. y \in Episode
    BY <1>1 DEF Episode, _LIVE_EPISODE_STATUSES
  <1>5. y.status = "stopping" /\ y.ending = x.ending /\ y.wrap = x.wrap /\ y.attempts = x.attempts
    BY <1>1 DEF Episode
  <1>6. y.used = x.used /\ y.ceiling = x.ceiling
    BY <1>1 DEF Episode
  <1>7. y.stop = TRUE
    BY <1>1 DEF Episode
  <1> HIDE DEF y
  <1>8. EpisodeOK(y)
    BY <1>1, <1>2, <1>5, <1>6, <1>7 DEF EpisodeOK, Unfenced, Ended
  <1>9. /\ eps \in [Episodes -> Episode] /\ eps[e] = y /\ \A f \in Episodes \ {e} : eps[f] = ep[f]
    BY <1>1, <1>3, <1>4
  <1> HIDE DEF eps
  <1>10. Settleable(eps, task, e)
    BY <1>2, <1>5, <1>6, <1>8, <1>9, RowsKeptNow DEF Settleable
  <1> QED BY <1>10, SettleStep, ThreadsAre DEF request_experiment_loop_stop, eps

LEMMA Step_RecoveryImpossible ==
    ASSUME IInv, NEW o \in Ops, RecoveryImpossible(o), UNCHANGED boot
    PROVE  IInv' /\ Lived
  <1> DEFINE e == task[o].ep
             x == ep[e]
             y == [x EXCEPT !.problem = TRUE]
             eps == [ep EXCEPT ![e].problem = TRUE]
  <1>1. e \in Episodes /\ ep[e].status # "none"
    BY DEF RecoveryImpossible, Recoverable, IInv, RowInv, RowOK
  <1>2. ep \in [Episodes -> Episode] /\ x \in Episode /\ EpisodeOK(x)
    BY <1>1, RecordsAre
  <1>3. /\ y \in Episode /\ y.status = x.status /\ y.ending = x.ending /\ y.stop = x.stop
        /\ y.wrap = x.wrap /\ y.used = x.used /\ y.ceiling = x.ceiling /\ y.attempts = x.attempts
    BY <1>2, ProblemWritten
  <1>4. eps = [ep EXCEPT ![e] = y]
    BY <1>1, <1>2
  <1>5. settle_experiment_loop_stop(eps, task, e)
    BY DEF RecoveryImpossible
  <1> HIDE DEF y, eps
  <1>6. EpisodeOK(y)
    BY <1>1, <1>2, <1>3 DEF EpisodeOK
  <1>7. Settleable(eps, task, e)
    BY <1>1, <1>2, <1>3, <1>4, <1>6, RowsKeptNow DEF Settleable
  <1> QED BY <1>1, <1>5, <1>7, SettleStep, ThreadsAre DEF RecoveryImpossible

-----------------------------------------------------------------------------
(* A step that writes no record and no report. *)
LEMMA StillKept == ASSUME UNCHANGED ep PROVE Kept /\ SameLives
  BY DEF Kept, SameLives

LEMMA StillMoves ==
    ASSUME IInv, UNCHANGED <<ep, report>>, task' \in [Ops -> TaskRow], RowsKept(task'), FlightInv',
           unit' \in [Episodes -> {"none", "active", "ready", "claimed", "stopped"}],
           \A f \in Episodes : unit'[f] = unit[f] \/ unit[f] \in {"active", "ready"},
           wake' \in Wake, look' \in [Lookers -> Look], boot' \in {"serving", "stops", "settle",
           "reports"}
    PROVE  IInv' /\ Lived
  <1>1. Kept /\ SameLives
    BY StillKept
  <1>2. RecordInv'
    BY DEF IInv, RecordInv
  <1>3. ep \in [Episodes -> Episode] /\ report \in [Episodes -> ReportRow]
    BY TypesAre DEF IInv
  <1>4. TypeOK'
    BY <1>3, TypesBecome
  <1>5. IInv'
    BY <1>1, <1>2, <1>4, Moves
  <1> QED BY <1>1, <1>5 DEF Lived

LEMMA Step_RecoverStops ==
    ASSUME IInv, RecoverStops
    PROVE  IInv' /\ Lived
  <1>1. UNCHANGED <<report, wake, look>> /\ boot' = "reports"
    BY DEF RecoverStops
  <1>2. CASE Stopping = {}
    <2>1. UNCHANGED <<ep, task, unit>>
      BY <1>2 DEF RecoverStops, settle_ready_experiment_loop_stops
    <2>2. FlightInv'
      BY <1>1, <2>1, StillKept, FlightFramed
    <2> QED BY <1>1, <2>1, <2>2, SameRows, ThreadsAre, StillMoves
  <1>3. CASE Stopping # {}
    <2>1. PICK e \in Stopping : settle_experiment_loop_stop(ep, task, e)
      BY <1>3 DEF RecoverStops, settle_ready_experiment_loop_stops
    <2>2. e \in Episodes /\ ep[e].status # "none"
      BY DEF Stopping
    <2>3. Settleable(ep, task, e)
      BY <2>2, SettleableAsIs, RowsKeptNow
    <2> QED BY <1>1, <2>1, <2>2, <2>3, SettleStep
  <1> QED BY <1>2, <1>3

LEMMA Step_PollerLooks ==
    ASSUME IInv, NEW e \in Episodes, PollerLooks(e), UNCHANGED boot
    PROVE  IInv' /\ Lived
  <1>1. UNCHANGED <<report, wake>> /\ boot' \in {"serving", "stops", "settle", "reports"}
    BY ThreadsAre DEF PollerLooks
  <1>2. CASE e \in Stopping /\ settle_experiment_loop_stop(ep, task, e) /\ UNCHANGED look
    <2>1. Settleable(ep, task, e)
      BY <1>2, SettleableAsIs, RowsKeptNow DEF Stopping
    <2> QED BY <1>1, <1>2, <2>1, SettleStep
  <1>3. CASE /\ ep[e].status \in _LIVE_EPISODE_STATUSES /\ Owed(e, LatestLeaf(e))
             /\ look' = [look EXCEPT ![Poller] = Due(e, LatestLeaf(e))]
             /\ UNCHANGED <<ep, task, unit>>
    <2>1. LatestLeaf(e) \in Ops
      BY <1>3, LatestLeafIs DEF _LIVE_EPISODE_STATUSES
    <2> DEFINE d == Due(e, LatestLeaf(e))
    <2>2. d \in Look /\ d.step = "fence" /\ d.ep = e /\ d.turn \in Ops /\ d.ending \in Endings \ {"stopped"}
      BY <1>3, <2>1, DueLook
    <2>3. look' = [look EXCEPT ![Poller] = d]
      BY <1>3
    <2> HIDE DEF d
    <2>4. Poller \in Lookers
      BY DEF Lookers
    <2>5. FlightInv' /\ look' \in [Lookers -> Look]
      BY <1>1, <1>3, <2>2, <2>3, <2>4, StillKept, FlightLooks
    <2> QED BY <1>1, <1>3, <2>5, SameRows, ThreadsAre, StillMoves
  <1> QED BY <1>2, <1>3 DEF PollerLooks

(* One row is written: it stays the turn it was. *)
LEMMA RowWritten ==
    ASSUME IInv, NEW o \in Ops, NEW y \in TaskRow, task[o].status # "none", y.status # "none",
           y.ep = task[o].ep, y.parent = task[o].parent, y.inv = task[o].inv,
           task[o].status \in LiveTurn \/ y.status = task[o].status,
           y.step \in Working <=> y.status \in LiveTurn,
           y.exit # "none" => task[o].exit # "none" \/ task[o].status \in LiveTurn
    PROVE  RowsKept([task EXCEPT ![o] = y]) /\ [task EXCEPT ![o] = y] \in [Ops -> TaskRow]
  <1> DEFINE rows == [task EXCEPT ![o] = y]
  <1>1. rows \in [Ops -> TaskRow] /\ rows[o] = y /\ \A p \in Ops \ {o} : rows[p] = task[p]
    BY ThreadsAre
  <1> HIDE DEF rows
  <1>2. RowsKept(task)
    BY RowsKeptNow
  <1>3. ASSUME NEW p \in Ops
        PROVE  /\ rows[p].ep = task[p].ep /\ rows[p].parent = task[p].parent /\ rows[p].inv = task[p].inv
               /\ task[p].status = "none" => rows[p] = NoTask
               /\ rows[p].status = "none" => task[p].status = "none"
               /\ task[p].status \in {"succeeded"} \cup Recoverable => rows[p].status = task[p].status
               /\ rows[p].step \in Working <=> rows[p].status \in LiveTurn
               /\ rows[p].exit # "none" => task[p].exit # "none" \/ task[p].status \in LiveTurn
    <2>1. CASE p = o
      BY <1>1, <2>1 DEF LiveTurn, Recoverable
    <2>2. CASE p # o
      BY <1>1, <1>2, <2>2 DEF RowsKept
    <2> QED BY <2>1, <2>2
  <1> QED BY <1>1, <1>3 DEF RowsKept, rows

(* The row of a worker. *)
LEMMA WorkerRow ==
    ASSUME IInv, NEW o \in Ops
    PROVE  /\ task \in [Ops -> TaskRow] /\ task[o] \in TaskRow
           /\ task[o].step \in Working \cup {"settling"} =>
                 task[o].status # "none" /\ task[o].ep \in Episodes /\ ep[task[o].ep].status # "none"
           /\ task[o].step \in Working => task[o].status \in LiveTurn
           /\ task[o].step = "settling" => task[o].status \notin LiveTurn
  <1>1. task \in [Ops -> TaskRow]
    BY ThreadsAre
  <1>2. RowOK(task, o) /\ (task[o].status # "none" => ep[task[o].ep].status # "none")
    BY DEF IInv, RowInv
  <1>3. task[o].status = "none" => task[o].step = "none"
    BY <1>2 DEF RowOK, NoTask
  <1>4. task[o].step \in Working \cup {"settling"} => task[o].status # "none" /\ task[o].ep \in Episodes
    BY <1>2, <1>3 DEF RowOK, Working
  <1> QED BY <1>1, <1>2, <1>4 DEF RowOK, Working

LEMMA Step_WorkerSettles ==
    ASSUME IInv, NEW o \in Ops, WorkerSettles(o), UNCHANGED boot
    PROVE  IInv' /\ Lived
  <1> DEFINE e == task[o].ep
             y == [task[o] EXCEPT !.step = "none"]
             rows == [task EXCEPT ![o] = y]
  <1>1. /\ task \in [Ops -> TaskRow] /\ task[o] \in TaskRow /\ e \in Episodes
        /\ task[o].status # "none" /\ task[o].status \notin LiveTurn /\ ep[e].status # "none"
    BY WorkerRow DEF WorkerSettles
  <1>2. /\ y \in TaskRow /\ y.step = "none" /\ y.status = task[o].status /\ y.ep = e /\ y.exit = task[o].exit
        /\ y.parent = task[o].parent /\ y.inv = task[o].inv
    BY <1>1 DEF TaskRow
  <1>3. [task EXCEPT ![o].step = "none"] = rows
    BY <1>1
  <1>4. /\ UNCHANGED <<report, wake>> /\ boot' \in {"serving", "stops", "settle", "reports"}
        /\ IF ep[e].stop
             THEN settle_experiment_loop_stop(ep, rows, e) /\ UNCHANGED look
             ELSE /\ task' = rows
                  /\ look' = IF Owed(e, o) THEN [look EXCEPT ![o] = Due(e, o)] ELSE look
                  /\ UNCHANGED <<ep, unit>>
    BY <1>3, ThreadsAre DEF WorkerSettles
  <1> HIDE DEF y
  <1>5. RowsKept(rows) /\ rows \in [Ops -> TaskRow]
    BY <1>1, <1>2, RowWritten DEF Working
  <1> HIDE DEF rows
  <1>6. CASE ep[e].stop
    <2>1. Settleable(ep, rows, e)
      BY <1>1, <1>5, SettleableAsIs
    <2> QED BY <1>1, <1>4, <1>6, <2>1, SettleStep
  <1>7. CASE ~ep[e].stop
    <2>1. task' = rows /\ UNCHANGED <<ep, unit>>
      BY <1>4, <1>7
    <2>2. Kept
      BY <2>1, StillKept
    <2>3. FlightInv' /\ look' \in [Lookers -> Look]
      <3>1. CASE Owed(e, o)
        <4> DEFINE d == Due(e, o)
        <4>1. d \in Look /\ d.step = "fence" /\ d.ep = e /\ d.turn \in Ops /\ d.ending \in Endings \ {"stopped"}
          BY <1>1, <3>1, DueLook
        <4>2. look' = [look EXCEPT ![o] = d]
          BY <1>4, <1>7, <3>1
        <4> HIDE DEF d
        <4>3. o \in Lookers
          BY DEF Lookers
        <4> QED BY <1>1, <1>4, <2>2, <4>1, <4>2, <4>3, FlightLooks
      <3>2. CASE ~Owed(e, o)
        <4>1. UNCHANGED look
          BY <1>4, <1>7, <3>2
        <4> QED BY <1>4, <2>2, <4>1, FlightFramed, ThreadsAre
      <3> QED BY <3>1, <3>2
    <2> QED BY <1>4, <1>5, <2>1, <2>3, ThreadsAre, StillMoves
  <1> QED BY <1>6, <1>7

-----------------------------------------------------------------------------
(* A turn. *)

(* A step of a worker that writes its row alone. *)
LEMMA RowStep ==
    ASSUME IInv, NEW o \in Ops, NEW y \in TaskRow, task[o].status # "none", y.status # "none",
           y.ep = task[o].ep, y.parent = task[o].parent, y.inv = task[o].inv,
           task[o].status \in LiveTurn \/ y.status = task[o].status,
           y.step \in Working <=> y.status \in LiveTurn,
           y.exit # "none" => task[o].exit # "none" \/ task[o].status \in LiveTurn,
           task' = [task EXCEPT ![o] = y], UNCHANGED <<ep, report, unit, wake, look, boot>>
    PROVE  IInv' /\ Lived
  <1>1. RowsKept(task') /\ task' \in [Ops -> TaskRow]
    BY RowWritten
  <1>2. FlightInv'
    BY StillKept, FlightFramed
  <1> QED BY <1>1, <1>2, ThreadsAre, StillMoves

LEMMA Step_Launch ==
    ASSUME IInv, NEW o \in Ops, Launch(o), UNCHANGED boot
    PROVE  IInv' /\ Lived
  <1> DEFINE y == [task[o] EXCEPT !.status = "running", !.step = "run", !.ctx = TRUE]
  <1>1. task \in [Ops -> TaskRow] /\ task[o] \in TaskRow /\ task[o].status # "none" /\ task[o].status \in LiveTurn
    BY WorkerRow DEF Launch, Working
  <1>2. y \in TaskRow
    BY <1>1 DEF TaskRow, LiveTurn
  <1>3. /\ y.status = "running" /\ y.step = "run" /\ y.ep = task[o].ep /\ y.exit = task[o].exit
        /\ y.parent = task[o].parent /\ y.inv = task[o].inv
    BY <1>1 DEF TaskRow
  <1>4. task' = [task EXCEPT ![o] = y] /\ UNCHANGED <<ep, report, unit, wake, look>>
    BY <1>1 DEF Launch, reportVars
  <1> HIDE DEF y
  <1>5. y.step \in Working /\ y.status \in LiveTurn
    BY <1>3 DEF Working, LiveTurn
  <1> QED BY <1>1, <1>2, <1>3, <1>4, <1>5, RowStep

LEMMA Step_BindSession ==
    ASSUME IInv, NEW o \in Ops, BindSession(o), UNCHANGED boot
    PROVE  IInv' /\ Lived
  <1> DEFINE y == [task[o] EXCEPT !.session = TRUE]
  <1>1. task \in [Ops -> TaskRow] /\ task[o] \in TaskRow /\ task[o].status # "none" /\ task[o].status \in LiveTurn
    BY WorkerRow DEF BindSession, Working
  <1>2. y \in TaskRow
    BY <1>1 DEF TaskRow
  <1>3. /\ y.status = task[o].status /\ y.step = task[o].step /\ y.ep = task[o].ep /\ y.exit = task[o].exit
        /\ y.parent = task[o].parent /\ y.inv = task[o].inv
    BY <1>1 DEF TaskRow
  <1>4. task' = [task EXCEPT ![o] = y] /\ UNCHANGED <<ep, report, unit, wake, look>>
    BY <1>1 DEF BindSession, reportVars
  <1> HIDE DEF y
  <1>5. y.step \in Working /\ y.status \in LiveTurn
    BY <1>1, <1>3 DEF Working, BindSession
  <1> QED BY <1>1, <1>2, <1>3, <1>4, <1>5, RowStep

LEMMA Step_ApplyPatch ==
    ASSUME IInv, NEW o \in Ops, ApplyPatch(o), UNCHANGED boot
    PROVE  IInv' /\ Lived
  <1>1. task \in [Ops -> TaskRow] /\ task[o] \in TaskRow /\ task[o].status # "none" /\ task[o].status \in LiveTurn
    BY WorkerRow DEF ApplyPatch, Working
  <1>2. PICK result \in {"applied", "rejected"} :
            task' = [task EXCEPT ![o].graph = result, ![o].step = "patched"]
    BY DEF ApplyPatch
  <1> DEFINE y == [task[o] EXCEPT !.graph = result, !.step = "patched"]
  <1>3. y \in TaskRow
    BY <1>1 DEF TaskRow
  <1>4. /\ y.status = task[o].status /\ y.step = "patched" /\ y.ep = task[o].ep /\ y.exit = task[o].exit
        /\ y.parent = task[o].parent /\ y.inv = task[o].inv
    BY <1>1 DEF TaskRow
  <1>5. task' = [task EXCEPT ![o] = y] /\ UNCHANGED <<ep, report, unit, wake, look>>
    BY <1>1, <1>2 DEF ApplyPatch, reportVars
  <1> HIDE DEF y
  <1>6. y.step \in Working /\ y.status \in LiveTurn
    BY <1>1, <1>4 DEF Working
  <1> QED BY <1>1, <1>3, <1>4, <1>5, <1>6, RowStep

LEMMA Step_complete_agent_task ==
    ASSUME IInv, NEW o \in Ops, complete_agent_task(o), UNCHANGED boot
    PROVE  IInv' /\ Lived
  <1> DEFINE y == [task[o] EXCEPT !.status = "succeeded", !.step = "settling"]
  <1>1. task \in [Ops -> TaskRow] /\ task[o] \in TaskRow /\ task[o].status # "none" /\ task[o].status \in LiveTurn
    BY WorkerRow DEF complete_agent_task, Working
  <1>2. y \in TaskRow
    BY <1>1 DEF TaskRow
  <1>3. /\ y.status = "succeeded" /\ y.step = "settling" /\ y.ep = task[o].ep /\ y.exit = task[o].exit
        /\ y.parent = task[o].parent /\ y.inv = task[o].inv
    BY <1>1 DEF TaskRow
  <1>4. task' = [task EXCEPT ![o] = y] /\ UNCHANGED <<ep, report, unit, wake, look>>
    BY <1>1 DEF complete_agent_task, reportVars
  <1> HIDE DEF y
  <1>5. y.step \notin Working /\ y.status \notin LiveTurn
    BY <1>3 DEF Working, LiveTurn
  <1> QED BY <1>1, <1>2, <1>3, <1>4, <1>5, RowStep

(* A record is marked, and its episode is where it was. *)
LEMMA RecordMarked ==
    ASSUME IInv, NEW e \in Episodes, ep[e].status # "none", NEW y \in Episode,
           y.status = ep[e].status, y.ending = ep[e].ending, y.stop = ep[e].stop, y.wrap = ep[e].wrap,
           y.used = ep[e].used, y.ceiling = ep[e].ceiling, y.attempts = ep[e].attempts,
           ep' = [ep EXCEPT ![e] = y], UNCHANGED report
    PROVE  Written(e) /\ SameLives /\ RecordInv' /\ Kept
  <1>1. /\ ep \in [Episodes -> Episode] /\ report \in [Episodes -> ReportRow]
        /\ EpisodeOK(ep[e]) /\ ReportOK(ep[e], report[e])
    BY RecordsAre
  <1>2. ep' \in [Episodes -> Episode] /\ ep'[e] = y /\ \A f \in Episodes \ {e} : ep'[f] = ep[f]
    BY <1>1
  <1>3. EpisodeOK(y)
    BY <1>1 DEF EpisodeOK
  <1>4. ReportOK(y, report[e])
    BY <1>1 DEF ReportOK
  <1>5. Moved(e)
    BY <1>2 DEF Moved
  <1>6. Written(e)
    BY <1>1, <1>2, <1>3, <1>4, <1>5 DEF Written
  <1>7. SameLives
    BY <1>2 DEF SameLives
  <1> QED BY <1>6, <1>7, WrittenKeeps

LEMMA Step_commit_experiment_episode_handoff ==
    ASSUME IInv, NEW o \in Ops, commit_experiment_episode_handoff(o), UNCHANGED boot
    PROVE  IInv' /\ Lived
  <1> DEFINE e == task[o].ep
             x == ep[e]
  <1>1. /\ task \in [Ops -> TaskRow] /\ task[o] \in TaskRow /\ task[o].status # "none"
        /\ task[o].status \in LiveTurn /\ e \in Episodes /\ x.status # "none"
    BY WorkerRow DEF commit_experiment_episode_handoff, Working
  <1>2. PICK exit \in {"none"} \cup Exits, arms \in BOOLEAN :
            /\ task' = [task EXCEPT ![o].exit = exit, ![o].step = "committed"]
            /\ ep' = [ep EXCEPT ![e].bound = TRUE, ![e].last = o, ![e].problem = FALSE]
            /\ unit' = [unit EXCEPT ![e] = IF arms THEN "active" ELSE @]
    BY DEF commit_experiment_episode_handoff
  <1>3. UNCHANGED <<report, wake, look>>
    BY DEF commit_experiment_episode_handoff
  <1> DEFINE y == [task[o] EXCEPT !.exit = exit, !.step = "committed"]
             z == [x EXCEPT !.bound = TRUE, !.last = o, !.problem = FALSE]
  <1>4. y \in TaskRow
    BY <1>1 DEF TaskRow
  <1>5. /\ y.status = task[o].status /\ y.step = "committed" /\ y.ep = e
        /\ y.parent = task[o].parent /\ y.inv = task[o].inv
    BY <1>1 DEF TaskRow
  <1>6. task' = [task EXCEPT ![o] = y]
    BY <1>1, <1>2
  <1>7. ep \in [Episodes -> Episode] /\ x \in Episode /\ report \in [Episodes -> ReportRow]
    BY <1>1, RecordsAre
  <1>8. /\ z \in Episode /\ z.status = x.status /\ z.ending = x.ending /\ z.stop = x.stop
        /\ z.wrap = x.wrap /\ z.used = x.used /\ z.ceiling = x.ceiling /\ z.attempts = x.attempts
    BY <1>7, BindingWritten
  <1>9. ep' = [ep EXCEPT ![e] = z]
    BY <1>1, <1>2, <1>7
  <1> HIDE DEF y, z
  <1>10. y.step \in Working /\ y.status \in LiveTurn
    BY <1>1, <1>5 DEF Working
  <1>11. RowsKept(task') /\ task' \in [Ops -> TaskRow]
    BY <1>1, <1>4, <1>5, <1>6, <1>10, RowWritten DEF LiveTurn
  <1>12. Written(e) /\ SameLives /\ RecordInv' /\ Kept
    BY <1>1, <1>3, <1>8, <1>9, RecordMarked
  <1>13. FlightInv'
    BY <1>3, <1>12, FlightFramed
  <1>14. /\ unit' \in [Episodes -> {"none", "active", "ready", "claimed", "stopped"}]
         /\ \A f \in Episodes : unit'[f] = unit[f] \/ f = e
    BY <1>1, <1>2, ThreadsAre
  <1>15. Active(e)
    BY <1>1, LiveIsLast
  <1>16. TypeOK'
    BY <1>3, <1>11, <1>12, <1>14, TypesBecome, ThreadsAre DEF Written
  <1>17. /\ \A f \in Episodes : report'[f].row # "none" => report[f].row # "none"
         /\ \A f \in Episodes : ep'[f].status = "stopped" => ep[f].status = "stopped"
         /\ \A f \in Episodes : unit'[f] = unit[f] \/ Active(f)
    BY <1>3, <1>12, <1>14, <1>15 DEF SameLives
  <1>18. IInv'
    BY <1>11, <1>12, <1>13, <1>16, <1>17, Moves
  <1> QED BY <1>12, <1>18 DEF Lived

LEMMA Step_TurnEnds ==
    ASSUME IInv, NEW o \in Ops, TurnEnds(o), UNCHANGED boot
    PROVE  IInv' /\ Lived
  <1> DEFINE e == task[o].ep
             x == ep[e]
  <1>1. /\ task \in [Ops -> TaskRow] /\ task[o] \in TaskRow /\ task[o].status # "none"
        /\ task[o].status \in LiveTurn /\ e \in Episodes /\ x.status # "none"
    BY WorkerRow DEF TurnEnds, Working
  <1>2. PICK status \in {"failed", "paused"}, limit \in BOOLEAN :
            /\ task' = [task EXCEPT ![o].status = status, ![o].step = "settling"]
            /\ ep' = IF limit THEN [ep EXCEPT ![e].problem = TRUE] ELSE ep
    BY DEF TurnEnds
  <1>3. UNCHANGED <<report, unit, wake, look>>
    BY DEF TurnEnds
  <1> DEFINE y == [task[o] EXCEPT !.status = status, !.step = "settling"]
             z == [x EXCEPT !.problem = TRUE]
  <1>4. y \in TaskRow
    BY <1>1 DEF TaskRow, Recoverable
  <1>5. /\ y.status = status /\ y.step = "settling" /\ y.ep = e /\ y.exit = task[o].exit
        /\ y.parent = task[o].parent /\ y.inv = task[o].inv
    BY <1>1 DEF TaskRow
  <1>6. task' = [task EXCEPT ![o] = y]
    BY <1>1, <1>2
  <1>7. ep \in [Episodes -> Episode] /\ x \in Episode /\ report \in [Episodes -> ReportRow]
    BY <1>1, RecordsAre
  <1>8. /\ z \in Episode /\ z.status = x.status /\ z.ending = x.ending /\ z.stop = x.stop
        /\ z.wrap = x.wrap /\ z.used = x.used /\ z.ceiling = x.ceiling /\ z.attempts = x.attempts
    BY <1>7, ProblemWritten
  <1>9. ep' = [ep EXCEPT ![e] = IF limit THEN z ELSE x]
    BY <1>1, <1>2, <1>7
  <1> HIDE DEF y, z
  <1>10. y.step \notin Working /\ y.status \notin LiveTurn /\ y.status # "none"
    BY <1>2, <1>5 DEF Working, LiveTurn
  <1>11. RowsKept(task') /\ task' \in [Ops -> TaskRow]
    BY <1>1, <1>4, <1>5, <1>6, <1>10, RowWritten
  <1>12. Written(e) /\ SameLives /\ RecordInv' /\ Kept
    <2>1. CASE limit
      BY <1>1, <1>3, <1>8, <1>9, <2>1, RecordMarked
    <2>2. CASE ~limit
      BY <1>1, <1>3, <1>7, <1>9, <2>2, RecordMarked
    <2> QED BY <2>1, <2>2
  <1>13. FlightInv'
    BY <1>3, <1>12, FlightFramed
  <1>14. TypeOK'
    BY <1>3, <1>11, <1>12, TypesBecome, ThreadsAre DEF Written
  <1>15. /\ \A f \in Episodes : report'[f].row # "none" => report[f].row # "none"
         /\ \A f \in Episodes : ep'[f].status = "stopped" => ep[f].status = "stopped"
    BY <1>3, <1>12 DEF SameLives
  <1>16. IInv'
    BY <1>3, <1>11, <1>12, <1>13, <1>14, <1>15, Moves
  <1> QED BY <1>12, <1>16 DEF Lived

-----------------------------------------------------------------------------
(* Watchers and their deliveries. *)
LEMMA FlightWakes ==
    ASSUME IInv, Kept, UNCHANGED look,
           wake'.step # "idle" => wake'.ep \in Episodes /\ ep[wake'.ep].status # "none"
    PROVE  FlightInv'
  <1>1. wake'.step # "idle" => wake'.ep \in Episodes /\ ep'[wake'.ep].status # "none"
    BY DEF Kept
  <1> SUFFICES ASSUME NEW r \in Lookers, look'[r].step # "idle"
      PROVE  /\ look'[r].ep \in Episodes /\ look'[r].turn \in Ops /\ look'[r].ending \in Endings \ {"stopped"}
             /\ look'[r].step = "wrap" => ep'[look'[r].ep].ending = look'[r].ending
    BY <1>1 DEF FlightInv
  <1>2. /\ look[r].ep \in Episodes /\ look[r].turn \in Ops /\ look[r].ending \in Endings \ {"stopped"}
        /\ look[r].step = "wrap" => ep[look[r].ep].ending = look[r].ending
    BY DEF IInv, FlightInv
  <1>3. look[r].ending # "none"
    BY <1>2 DEF Endings
  <1> QED BY <1>2, <1>3 DEF Kept

LEMMA Step_WatcherCompletes ==
    ASSUME IInv, NEW e \in Episodes, WatcherCompletes(e), UNCHANGED boot
    PROVE  IInv' /\ Lived
  <1>1. UNCHANGED <<ep, report, task, wake, look>>
    BY DEF WatcherCompletes, reportVars
  <1>2. FlightInv'
    BY <1>1, StillKept, FlightFramed
  <1>3. /\ unit' \in [Episodes -> {"none", "active", "ready", "claimed", "stopped"}]
        /\ \A f \in Episodes : unit'[f] = unit[f] \/ unit[f] \in {"active", "ready"}
    BY ThreadsAre DEF WatcherCompletes
  <1> QED BY <1>1, <1>2, <1>3, SameRows, ThreadsAre, StillMoves

LEMMA Step_WakeRead ==
    ASSUME IInv, NEW e \in Episodes, WakeRead(e), UNCHANGED boot
    PROVE  IInv' /\ Lived
  <1>1. UNCHANGED <<ep, report, task, unit, look>>
    BY DEF WakeRead, reportVars
  <1>2. PICK b \in BOOLEAN : b = (/\ ~task_active(e) /\ ~ep[e].stop /\ ep[e].used < ep[e].ceiling
                                  /\ ep[e].ending = "none" /\ ~Exited(e))
    OBVIOUS
  <1>3. wake' = [step |-> "preflight", ep |-> e, inv |-> ep[e].used + 1, admits |-> b]
    BY <1>2 DEF WakeRead
  <1>4. ep[e].used \in 0..Ceiling
    BY RecordsAre DEF Episode
  <1>5. ep[e].used + 1 \in 0..(Ceiling + 1)
    BY <1>4, LoopAssumption
  <1>6. wake' \in Wake /\ wake'.ep = e
    BY <1>3, <1>5 DEF Wake
  <1>7. ep[e].status # "none"
    BY DEF WakeRead, Newest
  <1>8. FlightInv'
    BY <1>1, <1>6, <1>7, StillKept, FlightWakes
  <1> QED BY <1>1, <1>6, <1>8, SameRows, ThreadsAre, StillMoves

LEMMA Step_preflight_episode_wake ==
    ASSUME IInv, preflight_episode_wake, UNCHANGED boot
    PROVE  IInv' /\ Lived
  <1> DEFINE e == wake.ep
             x == ep[e]
  <1>1. UNCHANGED <<report, task, unit, look>> /\ wake.step = "preflight"
    BY DEF preflight_episode_wake
  <1>2. e \in Episodes /\ x.status # "none" /\ wake \in Wake
    BY <1>1, ThreadsAre DEF IInv, FlightInv
  <1>3. wake' \in Wake /\ (wake'.step # "idle" => wake'.ep = e)
    <2>1. wake' = NoWake \/ wake' = [wake EXCEPT !.step = "claim"]
      BY DEF preflight_episode_wake
    <2>2. [wake EXCEPT !.step = "claim"] \in Wake /\ [wake EXCEPT !.step = "claim"].ep = e
      BY <1>2 DEF Wake
    <2>3. NoWake \in Wake /\ NoWake.step = "idle"
      BY ThreadsAre DEF NoWake
    <2> QED BY Zenon, <2>1, <2>2, <2>3
  <1>4. PICK b \in BOOLEAN : ep' = [ep EXCEPT ![e].problem = b] \/ UNCHANGED ep
    BY DEF preflight_episode_wake
  <1> DEFINE z == [x EXCEPT !.problem = b]
  <1>5. ep \in [Episodes -> Episode] /\ x \in Episode /\ report \in [Episodes -> ReportRow]
    BY <1>2, RecordsAre
  <1>6. /\ z \in Episode /\ z.status = x.status /\ z.ending = x.ending /\ z.stop = x.stop
        /\ z.wrap = x.wrap /\ z.used = x.used /\ z.ceiling = x.ceiling /\ z.attempts = x.attempts
    BY <1>5, ProblemWritten
  <1>7. ep' = [ep EXCEPT ![e] = z] \/ ep' = [ep EXCEPT ![e] = x]
    BY <1>2, <1>4, <1>5
  <1> HIDE DEF z
  <1>8. Written(e) /\ SameLives /\ RecordInv' /\ Kept
    <2>1. CASE ep' = [ep EXCEPT ![e] = z]
      BY <1>1, <1>2, <1>6, <2>1, RecordMarked
    <2>2. CASE ep' = [ep EXCEPT ![e] = x]
      BY <1>1, <1>2, <1>5, <2>2, RecordMarked
    <2> QED BY <1>7, <2>1, <2>2
  <1>9. FlightInv'
    BY <1>1, <1>2, <1>3, <1>8, FlightWakes
  <1>10. TypeOK'
    BY <1>1, <1>3, <1>8, TypesBecome, ThreadsAre DEF Written
  <1>11. /\ \A f \in Episodes : report'[f].row # "none" => report[f].row # "none"
         /\ \A f \in Episodes : ep'[f].status = "stopped" => ep[f].status = "stopped"
    BY <1>1, <1>8 DEF SameLives
  <1>12. IInv'
    BY <1>1, <1>8, <1>9, <1>10, <1>11, SameRows, Moves
  <1> QED BY <1>8, <1>12 DEF Lived

-----------------------------------------------------------------------------
(* The end of the process. *)
LEMMA RecordLeft ==
    ASSUME IInv, NEW e \in Episodes, NEW graceful \in BOOLEAN
    PROVE  LET x == EpisodeLeft(e, graceful)
               y == ReportLeft(e, graceful)
           IN  /\ x \in Episode /\ y \in ReportRow /\ EpisodeOK(x) /\ ReportOK(x, y)
               /\ x.status = ep[e].status /\ x.ending = ep[e].ending /\ x.used = ep[e].used
               /\ y.row # "none" => report[e].row # "none"
  <1> DEFINE x == EpisodeLeft(e, graceful)
             y == ReportLeft(e, graceful)
             r == report[e]
  <1>1. ep[e] \in Episode /\ r \in ReportRow /\ EpisodeOK(ep[e]) /\ ReportOK(ep[e], r)
    BY RecordsAre
  <1>2. CASE graceful /\ Shuts(e)
    <2>1. r.step = "call"
      BY <1>2 DEF Shuts
    <2>2. /\ ep[e].status = "wrapping_up" /\ ep[e].wrap \in {"pending", "running"}
          /\ r.row \in {"queued", "running"} /\ r.published = 0 /\ r.calls <= ep[e].attempts
      BY <1>1, <2>1 DEF ReportOK
    <2>3. x = [ep[e] EXCEPT !.wrap = "pending"]
      BY <1>2 DEF EpisodeLeft
    <2>4. y = [r EXCEPT !.row = "paused", !.step = "none", !.attempt = "none"]
      BY <1>2 DEF ReportLeft
    <2> HIDE DEF x, y
    <2>5. x \in Episode
      BY <1>1, <2>3 DEF Episode
    <2>6. x.wrap = "pending" /\ x.status = ep[e].status /\ x.ending = ep[e].ending /\ x.attempts = ep[e].attempts
      BY <1>1, <2>3 DEF Episode
    <2>7. x.used = ep[e].used /\ x.ceiling = ep[e].ceiling
      BY <1>1, <2>3 DEF Episode
    <2>8. x.stop = ep[e].stop
      BY <1>1, <2>3 DEF Episode
    <2>9. y \in ReportRow /\ y.row = "paused" /\ y.step = "none" /\ y.attempt = "none"
      BY <1>1, <2>4 DEF ReportRow
    <2>10. y.calls = r.calls /\ y.published = r.published
      BY <1>1, <2>4 DEF ReportRow
    <2>11. EpisodeOK(x)
      BY <1>1, <2>2, <2>6, <2>7, <2>8 DEF EpisodeOK, Unfenced
    <2>12. ReportOK(x, y)
      BY <2>2, <2>6, <2>9, <2>10 DEF ReportOK
    <2> QED BY <2>2, <2>5, <2>6, <2>7, <2>9, <2>11, <2>12 DEF x, y
  <1>3. CASE ~(graceful /\ Shuts(e)) /\ r.row \in {"queued", "running"}
    <2>1. x = ep[e]
      BY <1>3 DEF EpisodeLeft
    <2>2. y = [r EXCEPT !.row = "interrupted", !.step = "none"]
      BY <1>3 DEF ReportLeft
    <2> HIDE DEF x, y
    <2>3. y \in ReportRow /\ y.row = "interrupted" /\ y.step = "none" /\ y.attempt = r.attempt
      BY <1>1, <2>2 DEF ReportRow
    <2>4. y.calls = r.calls /\ y.published = r.published /\ y.output = r.output
      BY <1>1, <2>2 DEF ReportRow
    <2>5. r # NoReport
      BY <1>3 DEF NoReport
    <2>6. ReportOK(x, y)
      BY <1>1, <2>1, <2>3, <2>4, <2>5 DEF ReportOK
    <2> QED BY <1>1, <1>3, <2>1, <2>3, <2>6 DEF x, y
  <1>4. CASE ~(graceful /\ Shuts(e)) /\ r.row \notin {"queued", "running"}
    <2>1. x = ep[e] /\ y = r
      BY <1>4 DEF EpisodeLeft, ReportLeft
    <2> HIDE DEF x, y
    <2> QED BY <1>1, <2>1 DEF x, y
  <1> QED BY <1>2, <1>3, <1>4

LEMMA RowsInterrupted ==
    ASSUME IInv,
           task' = [o \in Ops |-> [task[o] EXCEPT !.status = IF @ \in LiveTurn THEN "interrupted" ELSE @,
                                                  !.step = "none"]]
    PROVE  task' \in [Ops -> TaskRow] /\ RowsKept(task')
  <1>1. task \in [Ops -> TaskRow]
    BY ThreadsAre
  <1>2. ASSUME NEW o \in Ops
        PROVE  /\ task'[o] \in TaskRow /\ task'[o].step = "none"
               /\ task'[o].status = IF task[o].status \in LiveTurn THEN "interrupted" ELSE task[o].status
               /\ task'[o].ep = task[o].ep /\ task'[o].parent = task[o].parent
               /\ task'[o].inv = task[o].inv /\ task'[o].exit = task[o].exit
    <2> DEFINE s == IF task[o].status \in LiveTurn THEN "interrupted" ELSE task[o].status
               y == [task[o] EXCEPT !.status = s, !.step = "none"]
    <2>1. task[o] \in TaskRow
      BY <1>1
    <2>2. s \in {"none", "succeeded"} \cup LiveTurn \cup Recoverable
      BY <2>1 DEF TaskRow, Recoverable
    <2>3. task'[o] = y
      BY <2>1 DEF TaskRow
    <2> HIDE DEF s
    <2>4. y \in TaskRow
      BY <2>1, <2>2 DEF TaskRow
    <2>5. /\ y.step = "none" /\ y.status = s /\ y.ep = task[o].ep /\ y.parent = task[o].parent
          /\ y.inv = task[o].inv /\ y.exit = task[o].exit
      BY <2>1 DEF TaskRow
    <2> QED BY <2>3, <2>4, <2>5 DEF s
  <1>3. task' \in [Ops -> TaskRow]
    BY <1>2
  <1>4. ASSUME NEW o \in Ops, task[o].status = "none" PROVE task'[o] = NoTask
    <2>1. task[o] = NoTask
      BY <1>4 DEF IInv, RowInv, RowOK
    <2>2. NoTask.status = "none" /\ NoTask.step = "none"
      BY DEF NoTask
    <2>3. task'[o] = [NoTask EXCEPT !.status = "none", !.step = "none"]
      BY <2>1, <2>2 DEF LiveTurn
    <2>4. ASSUME NEW y \in TaskRow, y.status = "none", y.step = "none"
          PROVE  [y EXCEPT !.status = "none", !.step = "none"] = y
      BY <2>4 DEF TaskRow
    <2>5. NoTask \in TaskRow
      BY <1>1, <2>1
    <2> QED BY <2>2, <2>3, <2>4, <2>5
  <1>5. ASSUME NEW o \in Ops
        PROVE  /\ task'[o].status = "none" => task[o].status = "none"
               /\ task[o].status \in {"succeeded"} \cup Recoverable => task'[o].status = task[o].status
               /\ task'[o].step \notin Working /\ task'[o].status \notin LiveTurn
    <2>1. task'[o].step = "none"
      BY <1>2
    <2>2. task'[o].status = IF task[o].status \in LiveTurn THEN "interrupted" ELSE task[o].status
      BY <1>2
    <2>3. CASE task[o].status \in LiveTurn
      <3>1. task'[o].status = "interrupted" /\ task[o].status \notin {"succeeded"} \cup Recoverable
        BY <2>2, <2>3 DEF LiveTurn, Recoverable
      <3> QED BY <2>1, <3>1 DEF LiveTurn, Working
    <2>4. CASE task[o].status \notin LiveTurn
      <3>1. task'[o].status = task[o].status
        BY <2>2, <2>4
      <3> QED BY <2>1, <2>4, <3>1 DEF Working
    <2> QED BY <2>3, <2>4
  <1> QED BY <1>2, <1>3, <1>4, <1>5 DEF RowsKept

LEMMA Step_Restart ==
    ASSUME IInv, Restart
    PROVE  IInv' /\ Lived
  <1>1. PICK graceful \in BOOLEAN :
            /\ ep' = [e \in Episodes |-> EpisodeLeft(e, graceful)]
            /\ report' = [e \in Episodes |-> ReportLeft(e, graceful)]
    BY DEF Restart
  <1>2. ASSUME NEW e \in Episodes
        PROVE  /\ ep'[e] \in Episode /\ report'[e] \in ReportRow /\ EpisodeOK(ep'[e])
               /\ ReportOK(ep'[e], report'[e])
               /\ ep'[e].status = ep[e].status /\ ep'[e].ending = ep[e].ending /\ ep'[e].used = ep[e].used
               /\ report'[e].row # "none" => report[e].row # "none"
    <2>1. ep'[e] = EpisodeLeft(e, graceful) /\ report'[e] = ReportLeft(e, graceful)
      BY <1>1
    <2> QED BY <2>1, RecordLeft
  <1>3. ep' \in [Episodes -> Episode] /\ report' \in [Episodes -> ReportRow]
    BY <1>1, <1>2
  <1>4. RecordInv' /\ Kept /\ SameLives
    BY <1>2 DEF RecordInv, Kept, SameLives
  <1>5. RowsKept(task') /\ task' \in [Ops -> TaskRow]
    BY RowsInterrupted DEF Restart
  <1>6. wake' = NoWake /\ boot' = "stops" /\ UNCHANGED unit
    BY DEF Restart
  <1>7. look' \in [Lookers -> Look] /\ \A r \in Lookers : look'[r] = NoLook
    BY ThreadsAre DEF Restart
  <1>8. FlightInv'
    BY <1>4, <1>6, <1>7, FlightFramed
  <1>9. TypeOK'
    BY <1>3, <1>5, <1>6, <1>7, TypesBecome, ThreadsAre
  <1>10. /\ \A f \in Episodes : report'[f].row # "none" => report[f].row # "none"
         /\ \A f \in Episodes : ep'[f].status = "stopped" => ep[f].status = "stopped"
    BY <1>2
  <1>11. IInv'
    BY <1>4, <1>5, <1>6, <1>8, <1>9, <1>10, Moves
  <1> QED BY <1>4, <1>11 DEF Lived

-----------------------------------------------------------------------------
(* A row is inserted. *)

(* It comes after all the others. *)
LEMMA FreshIsLast ==
    ASSUME IInv, NEW o \in Ops, Fresh(o)
    PROVE  task[o] = NoTask /\ \A p \in Ops : task[p].status # "none" <=> p < o
  <1>1. PICK n \in 0..MaxOps : \A p \in Ops : task[p].status # "none" <=> p <= n
    BY DEF IInv, OrderInv
  <1>2. Used(task) = 1..n
    BY <1>1, ReportAssumption DEF Used, Ops
  <1>3. Cardinality(1..n) = n
    BY <1>1, FS_Interval, ReportAssumption
  <1>4. o = n + 1
    BY <1>2, <1>3 DEF Fresh
  <1>5. \A p \in Ops : p <= n <=> p < o
    BY <1>4, ReportAssumption DEF Ops
  <1>6. task[o].status = "none"
    BY <1>1, <1>5 DEF Ops
  <1>7. task[o] = NoTask
    BY <1>6 DEF IInv, RowInv, RowOK
  <1> QED BY <1>1, <1>5, <1>7

(* The rows a step inserts. *)
LEMMA TurnRow ==
    ASSUME NEW e \in Episodes, NEW inv \in 0..Ceiling, NEW session \in BOOLEAN
    PROVE  LET y == Turn(e, inv, session)
           IN  /\ y \in TaskRow /\ y.status = "queued" /\ y.step = "queued" /\ y.exit = "none" /\ y.ep = e
               /\ y.parent = NoOp /\ y.inv = inv
  <1>1. NoTask \in TaskRow
    BY LoopAssumption DEF NoTask, TaskRow
  <1>2. NoTask.exit = "none" /\ NoTask.parent = NoOp
    BY DEF NoTask
  <1>3. ASSUME NEW n \in TaskRow
        PROVE  LET y == [n EXCEPT !.status = "queued", !.ep = e, !.inv = inv, !.session = session,
                                  !.step = "queued"]
               IN  /\ y \in TaskRow /\ y.status = "queued" /\ y.step = "queued" /\ y.exit = n.exit
                   /\ y.ep = e /\ y.parent = n.parent /\ y.inv = inv
    <2> DEFINE y == [n EXCEPT !.status = "queued", !.ep = e, !.inv = inv, !.session = session,
                              !.step = "queued"]
    <2>1. y \in TaskRow
      BY DEF TaskRow, LiveTurn
    <2>2. y.status = "queued" /\ y.step = "queued" /\ y.exit = n.exit
      BY DEF TaskRow
    <2>3. y.ep = e /\ y.parent = n.parent /\ y.inv = inv
      BY DEF TaskRow
    <2> QED BY <2>1, <2>2, <2>3
  <1>4. PICK n \in TaskRow : n = NoTask
    BY <1>1
  <1> QED BY <1>2, <1>3, <1>4 DEF Turn

LEMMA ChildRow ==
    ASSUME IInv, NEW o \in Ops, task[o].ep \in Episodes, NEW kind \in {"turn", "repair"}, NEW session \in BOOLEAN
    PROVE  LET y == Child(o, kind, session)
           IN  /\ y \in TaskRow /\ y.status = "queued" /\ y.step = "queued" /\ y.exit = "none"
               /\ y.ep = task[o].ep /\ y.parent = o /\ y.inv = task[o].inv
  <1> DEFINE t == Turn(task[o].ep, task[o].inv, session)
             y == [t EXCEPT !.parent = o, !.kind = kind]
  <1>1. task[o].inv \in 0..Ceiling
    BY ThreadsAre DEF TaskRow
  <1>2. /\ t \in TaskRow /\ t.status = "queued" /\ t.step = "queued" /\ t.exit = "none" /\ t.ep = task[o].ep
        /\ t.parent = NoOp /\ t.inv = task[o].inv
    BY <1>1, TurnRow
  <1>3. y = Child(o, kind, session)
    BY DEF Child
  <1> HIDE DEF t
  <1>4. y \in TaskRow
    BY <1>2 DEF TaskRow
  <1>5. /\ y.status = "queued" /\ y.step = "queued" /\ y.exit = "none"
        /\ y.ep = task[o].ep /\ y.parent = o /\ y.inv = task[o].inv
    BY <1>2 DEF TaskRow
  <1> QED BY <1>3, <1>4, <1>5

(* What an insertion needs: nobody runs, the episode is open, no turn handed over its
   ending, and a turn that is continued is over. *)
Insertable(o, y) ==
    /\ Fresh(o) /\ ~_has_active_chat_overlap
    /\ y \in TaskRow /\ y.status = "queued" /\ y.step = "queued" /\ y.exit = "none" /\ y.ep \in Episodes
    /\ ~Exited(y.ep)
    /\ y.parent # NoOp => /\ y.parent \in Ops /\ task[y.parent].ep = y.ep
                          /\ task[y.parent].status \in {"succeeded"} \cup Recoverable

(* What it leaves of the episodes. *)
Reopened(e) ==
    /\ ep'[e].status \in {"running", "stopping"}
    /\ \A f \in Episodes \ {e} : ep'[f] = ep[f]
    /\ \A f \in Episodes : unit'[f] = unit[f] \/ unit[f] = "ready"

LEMMA InsertedRow ==
    ASSUME IInv, NEW o \in Ops, NEW y, Insertable(o, y), task' = [task EXCEPT ![o] = y]
    PROVE  /\ task' \in [Ops -> TaskRow] /\ task'[o] = y /\ task[o] = NoTask
           /\ \A p \in Ops \ {o} : task'[p] = task[p]
           /\ \A p \in Ops : task'[p].status # "none" <=> p <= o
           /\ \A p \in Ops : task'[p].status \in LiveTurn <=> p = o
           /\ \A p \in Ops : task[p].status # "none" => p < o
  <1>1. task \in [Ops -> TaskRow] /\ y \in TaskRow /\ y.status = "queued"
    BY ThreadsAre DEF Insertable
  <1>2. task' \in [Ops -> TaskRow] /\ task'[o] = y /\ \A p \in Ops \ {o} : task'[p] = task[p]
    BY <1>1
  <1>3. task[o] = NoTask /\ \A p \in Ops : task[p].status # "none" <=> p < o
    BY FreshIsLast DEF Insertable
  <1>4. \A p \in Ops : task[p].status \notin LiveTurn
    BY DEF Insertable, _has_active_chat_overlap
  <1>5. \A p \in Ops : p <= o <=> (p < o \/ p = o)
    BY DEF Ops
  <1>6. \A p \in Ops : task'[p].status # "none" <=> p <= o
    BY <1>1, <1>2, <1>3, <1>5
  <1>7. \A p \in Ops : task'[p].status \in LiveTurn <=> p = o
    BY <1>1, <1>2, <1>4 DEF LiveTurn
  <1> QED BY <1>2, <1>3, <1>6, <1>7

(* The turns of the episodes then. *)
LEMMA InsertedTurns ==
    ASSUME IInv, NEW o \in Ops, NEW y, Insertable(o, y), task' = [task EXCEPT ![o] = y]
    PROVE  /\ TurnsOf(task', y.ep) = TurnsOf(task, y.ep) \cup {o}
           /\ \A f \in Episodes \ {y.ep} : TurnsOf(task', f) = TurnsOf(task, f)
           /\ \A f \in Episodes : o \notin TurnsOf(task, f)
  <1>1. task'[o] = y /\ task[o] = NoTask /\ \A p \in Ops \ {o} : task'[p] = task[p]
    BY InsertedRow
  <1>2. task[o].ep \notin Episodes
    BY <1>1 DEF NoTask, Episodes
  <1>3. y.ep \in Episodes
    BY DEF Insertable
  <1> QED BY <1>1, <1>2, <1>3 DEF TurnsOf

LEMMA InsertedOrder ==
    ASSUME IInv, NEW o \in Ops, NEW y, Insertable(o, y), task' = [task EXCEPT ![o] = y], Reopened(y.ep)
    PROVE  RowInv' /\ OrderInv' /\ ExitIsFinal'
  <1>1. /\ task' \in [Ops -> TaskRow] /\ task'[o] = y /\ task[o] = NoTask
        /\ \A p \in Ops \ {o} : task'[p] = task[p]
        /\ \A p \in Ops : task'[p].status # "none" <=> p <= o
        /\ \A p \in Ops : task'[p].status \in LiveTurn <=> p = o
        /\ \A p \in Ops : task[p].status # "none" => p < o
    BY InsertedRow
  <1>2. /\ y \in TaskRow /\ y.status = "queued" /\ y.step = "queued" /\ y.exit = "none" /\ y.ep \in Episodes
        /\ ~Exited(y.ep)
        /\ y.parent # NoOp => /\ y.parent \in Ops /\ task[y.parent].ep = y.ep
                              /\ task[y.parent].status \in {"succeeded"} \cup Recoverable
    BY DEF Insertable
  <1>3. /\ TurnsOf(task', y.ep) = TurnsOf(task, y.ep) \cup {o}
        /\ \A f \in Episodes \ {y.ep} : TurnsOf(task', f) = TurnsOf(task, f)
        /\ \A f \in Episodes : o \notin TurnsOf(task, f)
    BY InsertedTurns
  <1>4. /\ ep'[y.ep].status # "none" /\ \A f \in Episodes \ {y.ep} : ep'[f] = ep[f]
    BY DEF Reopened
  <1>5. RowInv'
    <2>1. ASSUME NEW p \in Ops PROVE RowOK(task', p)
      <3>1. CASE p = o
        <4>1. y.parent # NoOp => y.parent < o /\ task'[y.parent] = task[y.parent]
          <5> SUFFICES ASSUME y.parent # NoOp PROVE y.parent < o /\ task'[y.parent] = task[y.parent]
            OBVIOUS
          <5>1. y.parent \in Ops /\ task[y.parent].status # "none"
            BY <1>2 DEF Recoverable
          <5>2. y.parent < o
            BY <1>1, <5>1
          <5> QED BY <1>1, <5>1, <5>2 DEF Ops
        <4>2. y.step \in Working /\ y.status \in LiveTurn
          BY <1>2 DEF Working, LiveTurn
        <4> QED BY <1>1, <1>2, <3>1, <4>1, <4>2 DEF RowOK
      <3>2. CASE p # o
        <4>1. RowOK(task, p) /\ task'[p] = task[p]
          BY <1>1, <3>2 DEF IInv, RowInv
        <4>2. task[p].parent # NoOp => task[p].parent \in Ops
          BY ThreadsAre DEF TaskRow
        <4>3. task[p].parent # NoOp => task[p].parent # o
          BY <1>1, <4>1 DEF RowOK, NoTask, Recoverable
        <4> QED BY <1>1, <4>1, <4>2, <4>3 DEF RowOK
      <3> QED BY <3>1, <3>2
    <2>2. ASSUME NEW p \in Ops, task'[p].status # "none" PROVE ep'[task'[p].ep].status # "none"
      <3>1. CASE p = o
        BY <1>1, <1>4, <3>1
      <3>2. CASE p # o
        <4>1. task'[p] = task[p] /\ task[p].ep \in Episodes /\ ep[task[p].ep].status # "none"
          BY <1>1, <2>2, <3>2 DEF IInv, RowInv, RowOK
        <4> QED BY <1>4, <4>1
      <3> QED BY <3>1, <3>2
    <2> QED BY <2>1, <2>2 DEF RowInv
  <1>6. OrderInv'
    <2>1. \E n \in 0..MaxOps : \A p \in Ops : task'[p].status # "none" <=> p <= n
      <3>1. o \in 0..MaxOps
        BY ReportAssumption DEF Ops
      <3> QED BY <1>1, <3>1
    <2>2. \A p, q \in Ops : task'[p].status \in LiveTurn /\ task'[q].status # "none" => q <= p
      BY <1>1
    <2>3. ASSUME NEW e \in Episodes, ep'[e].status # "none"
          PROVE  \E m \in TurnsOf(task', e) : \A p \in TurnsOf(task', e) : p <= m
      <3>1. CASE e = y.ep
        <4>1. \A p \in TurnsOf(task, e) : p < o
          <5> SUFFICES ASSUME NEW p \in TurnsOf(task, e) PROVE p < o
            OBVIOUS
          <5>1. p \in Ops /\ task[p].ep = e
            BY DEF TurnsOf
          <5>2. task[p].status # "none"
            BY <5>1 DEF IInv, RowInv, RowOK, NoTask, Episodes
          <5> QED BY <1>1, <5>1, <5>2
        <4>2. \A p \in TurnsOf(task, e) \cup {o} : p <= o
          BY <4>1 DEF TurnsOf, Ops
        <4> QED BY <1>3, <3>1, <4>2
      <3>2. CASE e # y.ep
        <4>1. ep[e].status # "none"
          BY <1>4, <2>3, <3>2
        <4>2. \E m \in TurnsOf(task, e) : \A p \in TurnsOf(task, e) : p <= m
          BY <4>1 DEF IInv, OrderInv
        <4> QED BY <1>3, <3>2, <4>2
      <3> QED BY <3>1, <3>2
    <2> QED BY <2>1, <2>2, <2>3 DEF OrderInv
  <1>7. ExitIsFinal'
    <2> SUFFICES ASSUME NEW p \in Ops, task'[p].exit # "none", NEW q \in Ops, task'[q].ep = task'[p].ep
        PROVE  q <= p
      BY DEF ExitIsFinal, TurnsOf
    <2>1. p # o /\ task'[p] = task[p]
      BY <1>1, <1>2
    <2>2. q # o
      <3> SUFFICES ASSUME q = o PROVE FALSE
        OBVIOUS
      <3>1. task[p].ep = y.ep /\ task[p].exit # "none"
        BY <1>1, <2>1
      <3> QED BY <1>2, <3>1 DEF Exited, TurnsOf
    <2>3. task'[q] = task[q]
      BY <1>1, <2>2
    <2> QED BY <2>1, <2>3 DEF IInv, ExitIsFinal, TurnsOf
  <1> QED BY <1>5, <1>6, <1>7

LEMMA InsertedQuiet ==
    ASSUME IInv, NEW o \in Ops, NEW y, Insertable(o, y), task' = [task EXCEPT ![o] = y], Reopened(y.ep),
           RecordInv', UNCHANGED report
    PROVE  QuietInv'
  <1>1. y.ep \in Episodes
    BY DEF Insertable
  <1>2. /\ ep'[y.ep].status \in {"running", "stopping"} /\ \A f \in Episodes \ {y.ep} : ep'[f] = ep[f]
        /\ \A f \in Episodes : unit'[f] = unit[f] \/ unit[f] = "ready"
    BY DEF Reopened
  <1>3. \A p \in Ops : task'[p].status \in LiveTurn => p = o
    BY InsertedRow
  <1>4. task'[o] = y
    BY InsertedRow
  <1> SUFFICES ASSUME NEW f \in Episodes
      PROVE  /\ report'[f].row # "none" => ~\E p \in TurnsOf(task', f) : task'[p].status \in LiveTurn
             /\ ep'[f].status = "stopped" =>
                   /\ ~\E p \in TurnsOf(task', f) : task'[p].status \in LiveTurn
                   /\ unit'[f] \in {"none", "stopped"}
    BY DEF QuietInv, Active
  <1>5. CASE f = y.ep
    <2>1. EpisodeOK(ep'[f]) /\ ReportOK(ep'[f], report'[f])
      BY DEF RecordInv
    <2>2. report'[f] = NoReport
      BY <1>2, <1>5, <2>1 DEF EpisodeOK, ReportOK, Unfenced
    <2>3. report'[f].row = "none"
      BY <2>2 DEF NoReport
    <2> QED BY <1>2, <1>5, <2>3
  <1>6. CASE f # y.ep
    <2>1. ~\E p \in TurnsOf(task', f) : task'[p].status \in LiveTurn
      BY <1>3, <1>4, <1>6 DEF TurnsOf
    <2>2. ep[f].status = "stopped" => unit[f] \in {"none", "stopped"}
      BY DEF IInv, QuietInv
    <2> QED BY <1>2, <1>6, <2>1, <2>2
  <1> QED BY <1>5, <1>6

LEMMA InsertedFlight ==
    ASSUME IInv, UNCHANGED look, wake' = wake \/ wake' = NoWake,
           \A f \in Episodes : ep'[f].ending = ep[f].ending,
           \A f \in Episodes : ep[f].status # "none" => ep'[f].status # "none"
    PROVE  FlightInv'
  <1>1. wake'.step # "idle" => wake'.ep \in Episodes /\ ep'[wake'.ep].status # "none"
    BY DEF IInv, FlightInv, NoWake
  <1> QED BY <1>1 DEF IInv, FlightInv

(* A recovery or a repair pays nothing: its invocation was paid by the turn it continues. *)
LEMMA ChildPaid ==
    ASSUME IInv, NEW o \in Ops, NEW y, Insertable(o, y), task' = [task EXCEPT ![o] = y],
           y.parent # NoOp, y.inv = task[y.parent].inv, \A f \in Episodes : ep'[f].used = ep[f].used
    PROVE  InvocationsArePaid'
  <1>1. task'[o] = y /\ \A p \in Ops \ {o} : task'[p] = task[p]
    BY InsertedRow
  <1>2. /\ TurnsOf(task', y.ep) = TurnsOf(task, y.ep) \cup {o}
        /\ \A f \in Episodes \ {y.ep} : TurnsOf(task', f) = TurnsOf(task, f)
        /\ \A f \in Episodes : o \notin TurnsOf(task, f)
    BY InsertedTurns
  <1>3. /\ y.ep \in Episodes /\ y.parent \in Ops /\ task[y.parent].ep = y.ep
        /\ task[y.parent].status # "none"
    BY DEF Insertable, Recoverable
  <1>4. y.parent < o
    BY <1>3, InsertedRow
  <1> SUFFICES ASSUME NEW e \in Episodes
      PROVE  LET roots == {p \in TurnsOf(task', e) : task'[p].parent = NoOp}
             IN  /\ {task'[p].inv : p \in roots} = 1..ep'[e].used /\ Cardinality(roots) = ep'[e].used
                 /\ \A p \in TurnsOf(task', e) : \E q \in roots : task'[q].inv = task'[p].inv /\ q <= p
    BY DEF InvocationsArePaid
  <1> DEFINE roots == {p \in TurnsOf(task, e) : task[p].parent = NoOp}
             newRoots == {p \in TurnsOf(task', e) : task'[p].parent = NoOp}
  <1>5. \A p \in TurnsOf(task, e) : p \in Ops /\ p # o /\ task'[p] = task[p]
    BY <1>1, <1>2 DEF TurnsOf
  <1>6. newRoots = roots
    BY <1>1, <1>2, <1>5
  <1>7. /\ {task[p].inv : p \in roots} = 1..ep[e].used /\ Cardinality(roots) = ep[e].used
        /\ \A p \in TurnsOf(task, e) : \E q \in roots : task[q].inv = task[p].inv /\ q <= p
    BY DEF IInv, InvocationsArePaid
  <1>8. \A p \in roots : task'[p] = task[p]
    BY <1>5
  <1>9. {task'[p].inv : p \in roots} = {task[p].inv : p \in roots}
    BY <1>8
  <1>10. ASSUME NEW p \in TurnsOf(task', e) PROVE \E q \in roots : task'[q].inv = task'[p].inv /\ q <= p
    <2>1. CASE p \in TurnsOf(task, e)
      BY <1>5, <1>7, <1>8, <2>1
    <2>2. CASE p \notin TurnsOf(task, e)
      <3>1. p = o /\ e = y.ep
        BY <1>2, <2>2
      <3>2. y.parent \in TurnsOf(task, e)
        BY <1>3, <3>1 DEF TurnsOf
      <3>3. PICK q \in roots : task[q].inv = task[y.parent].inv /\ q <= y.parent
        BY <1>7, <3>2
      <3>4. q \in Ops
        BY DEF TurnsOf
      <3>5. q <= o
        BY <1>3, <1>4, <3>3, <3>4 DEF Ops
      <3> QED BY <1>1, <1>8, <3>1, <3>3, <3>5
    <2> QED BY <2>1, <2>2
  <1> QED BY <1>6, <1>7, <1>9, <1>10

(* An invocation pays the next number. *)
LEMMA RootPaid ==
    ASSUME IInv, NEW o \in Ops, NEW y, Insertable(o, y), task' = [task EXCEPT ![o] = y],
           y.parent = NoOp, y.inv = ep[y.ep].used + 1, ep'[y.ep].used = ep[y.ep].used + 1,
           \A f \in Episodes \ {y.ep} : ep'[f].used = ep[f].used
    PROVE  InvocationsArePaid'
  <1>1. task'[o] = y /\ \A p \in Ops \ {o} : task'[p] = task[p]
    BY InsertedRow
  <1>2. /\ TurnsOf(task', y.ep) = TurnsOf(task, y.ep) \cup {o}
        /\ \A f \in Episodes \ {y.ep} : TurnsOf(task', f) = TurnsOf(task, f)
        /\ \A f \in Episodes : o \notin TurnsOf(task, f)
    BY InsertedTurns
  <1>3. y.ep \in Episodes
    BY DEF Insertable
  <1> SUFFICES ASSUME NEW e \in Episodes
      PROVE  LET roots == {p \in TurnsOf(task', e) : task'[p].parent = NoOp}
             IN  /\ {task'[p].inv : p \in roots} = 1..ep'[e].used /\ Cardinality(roots) = ep'[e].used
                 /\ \A p \in TurnsOf(task', e) : \E q \in roots : task'[q].inv = task'[p].inv /\ q <= p
    BY DEF InvocationsArePaid
  <1> DEFINE roots == {p \in TurnsOf(task, e) : task[p].parent = NoOp}
             newRoots == {p \in TurnsOf(task', e) : task'[p].parent = NoOp}
             n == ep[e].used
  <1>4. \A p \in TurnsOf(task, e) : p \in Ops /\ p # o /\ task'[p] = task[p]
    BY <1>1, <1>2 DEF TurnsOf
  <1>5. /\ {task[p].inv : p \in roots} = 1..n /\ Cardinality(roots) = n
        /\ \A p \in TurnsOf(task, e) : \E q \in roots : task[q].inv = task[p].inv /\ q <= p
    BY DEF IInv, InvocationsArePaid
  <1>6. \A p \in roots : task'[p] = task[p]
    BY <1>4
  <1>7. {task'[p].inv : p \in roots} = {task[p].inv : p \in roots}
    BY <1>6
  <1>8. CASE e # y.ep
    <2>1. newRoots = roots /\ TurnsOf(task', e) = TurnsOf(task, e) /\ ep'[e].used = n
      BY <1>2, <1>4, <1>8
    <2>2. \A p \in TurnsOf(task, e) : \E q \in roots : task'[q].inv = task'[p].inv /\ q <= p
      BY <1>4, <1>5, <1>6
    <2> QED BY <1>5, <1>7, <2>1, <2>2
  <1>9. CASE e = y.ep
    <2>1. newRoots = roots \cup {o}
      BY <1>1, <1>2, <1>4, <1>9
    <2>2. n \in Nat
      BY RecordsAre, LoopAssumption DEF Episode
    <2>3. task'[o].inv = n + 1 /\ ep'[e].used = n + 1
      BY <1>1, <1>9
    <2>4. {task'[p].inv : p \in newRoots} = 1..(n + 1)
      <3>1. {task'[p].inv : p \in roots \cup {o}} = {task'[p].inv : p \in roots} \cup {task'[o].inv}
        OBVIOUS
      <3>2. (1..n) \cup {n + 1} = 1..(n + 1)
        BY <2>2
      <3> QED BY <1>5, <1>7, <2>1, <2>3, <3>1, <3>2
    <2>5. IsFiniteSet(roots) /\ o \notin roots
      <3>1. IsFiniteSet(Ops)
        BY FS_Interval, ReportAssumption DEF Ops
      <3>2. roots \in SUBSET Ops
        BY DEF TurnsOf
      <3> QED BY <1>4, <3>1, <3>2, FS_Subset
    <2> HIDE DEF roots
    <2>6. Cardinality(roots \cup {o}) = n + 1
      BY <1>5, <2>5, FS_AddElement
    <2> USE DEF roots
    <2>7. ASSUME NEW p \in TurnsOf(task', e) PROVE \E q \in newRoots : task'[q].inv = task'[p].inv /\ q <= p
      <3>1. CASE p \in TurnsOf(task, e)
        <4>1. PICK q \in roots : task[q].inv = task[p].inv /\ q <= p
          BY <1>5, <3>1
        <4>2. task'[q] = task[q] /\ task'[p] = task[p] /\ q \in newRoots
          BY <1>4, <1>6, <2>1, <3>1
        <4> QED BY <4>1, <4>2
      <3>2. CASE p \notin TurnsOf(task, e)
        <4>1. p = o /\ o \in newRoots
          BY <1>2, <1>9, <2>1, <3>2
        <4>2. o <= o
          BY DEF Ops
        <4> QED BY <4>1, <4>2
      <3> QED BY <3>1, <3>2
    <2> QED BY <2>1, <2>3, <2>4, <2>6, <2>7
  <1> QED BY <1>8, <1>9

(* A turn continues another. *)
LEMMA ChildInserted ==
    ASSUME IInv, NEW o \in Ops, NEW c \in Ops, NEW kind \in {"turn", "repair"}, NEW session \in BOOLEAN,
           Fresh(c), ~_has_active_chat_overlap, EpisodeAdmitsRecovery(task[o].ep),
           task[o].status \in {"succeeded"} \cup Recoverable,
           Insert(c, Child(o, kind, session)), UNCHANGED <<ep, report, unit, wake, look>>,
           boot' \in {"serving", "stops", "settle", "reports"}
    PROVE  IInv' /\ Lived
  <1> DEFINE y == Child(o, kind, session)
  <1>1. task[o].ep \in Episodes
    BY DEF IInv, RowInv, RowOK, Recoverable
  <1>2. /\ y \in TaskRow /\ y.status = "queued" /\ y.step = "queued" /\ y.exit = "none"
        /\ y.ep = task[o].ep /\ y.parent = o /\ y.inv = task[o].inv
    BY <1>1, ChildRow
  <1>3. task' = [task EXCEPT ![c] = y]
    BY DEF Insert
  <1> HIDE DEF y
  <1>4. /\ ep[y.ep].status \in {"running", "stopping"} /\ ~Exited(y.ep) /\ o # NoOp
    BY <1>2 DEF EpisodeAdmitsRecovery, Ops, NoOp
  <1>5. Insertable(c, y)
    BY <1>1, <1>2, <1>4 DEF Insertable
  <1>6. Reopened(y.ep)
    BY <1>4 DEF Reopened
  <1>7. RecordInv' /\ SameLives
    BY StillKept DEF IInv, RecordInv
  <1>8. RowInv' /\ OrderInv' /\ ExitIsFinal'
    BY <1>3, <1>5, <1>6, InsertedOrder
  <1>9. QuietInv'
    BY <1>3, <1>5, <1>6, <1>7, InsertedQuiet
  <1>10. InvocationsArePaid'
    BY <1>2, <1>3, <1>4, <1>5, ChildPaid
  <1>11. FlightInv'
    BY InsertedFlight
  <1>12. task' \in [Ops -> TaskRow]
    BY <1>3, <1>5, InsertedRow
  <1>13. ep \in [Episodes -> Episode] /\ report \in [Episodes -> ReportRow]
    BY TypesAre DEF IInv
  <1>14. TypeOK'
    BY <1>12, <1>13, TypesBecome, ThreadsAre
  <1> QED BY <1>7, <1>8, <1>9, <1>10, <1>11, <1>14 DEF IInv, Lived

LEMMA Step_Recover ==
    ASSUME IInv, NEW o \in Ops, NEW c \in Ops, Recover(o, c), UNCHANGED boot
    PROVE  IInv' /\ Lived
  <1>1. task[o] \in TaskRow
    BY ThreadsAre
  <1>2. task[o].session \in BOOLEAN /\ task[o].kind \in {"turn", "repair"}
    BY <1>1 DEF TaskRow
  <1>3. PICK session \in {task[o].session, FALSE} : Insert(c, Child(o, task[o].kind, session))
    BY DEF Recover
  <1>4. session \in BOOLEAN
    BY <1>2, <1>3
  <1>5. /\ Fresh(c) /\ ~_has_active_chat_overlap /\ EpisodeAdmitsRecovery(task[o].ep)
        /\ task[o].status \in Recoverable /\ UNCHANGED <<ep, report, unit, wake, look>>
    BY DEF Recover, RecoveryAccepted, reportVars
  <1> QED BY <1>2, <1>3, <1>4, <1>5, ChildInserted, ThreadsAre

LEMMA Step_create_experiment_graph_repair_task ==
    ASSUME IInv, NEW o \in Ops, NEW c \in Ops, create_experiment_graph_repair_task(o, c), UNCHANGED boot
    PROVE  IInv' /\ Lived
  <1>1. /\ Fresh(c) /\ ~_has_active_chat_overlap /\ EpisodeAdmitsRecovery(task[o].ep)
        /\ task[o].status = "succeeded" /\ UNCHANGED <<ep, report, unit, wake, look>>
        /\ Insert(c, Child(o, "repair", TRUE))
    BY DEF create_experiment_graph_repair_task, reportVars
  <1> QED BY <1>1, ChildInserted, ThreadsAre

LEMMA Step_restart_stopping_experiment_recoveries ==
    ASSUME IInv, restart_stopping_experiment_recoveries
    PROVE  IInv' /\ Lived
  <1>1. UNCHANGED <<report, unit, wake, look>> /\ boot' = "settle"
    BY DEF restart_stopping_experiment_recoveries
  <1>2. CASE UNCHANGED <<ep, task>>
    <2>1. FlightInv'
      BY <1>1, <1>2, StillKept, FlightFramed
    <2> QED BY <1>1, <1>2, <2>1, SameRows, ThreadsAre, StillMoves
  <1>3. ASSUME NEW o \in Ops, StopCandidate(o), ep' = [ep EXCEPT ![task[o].ep].problem = TRUE], UNCHANGED task
        PROVE  IInv' /\ Lived
    <2> DEFINE e == task[o].ep
               x == ep[e]
               z == [x EXCEPT !.problem = TRUE]
    <2>1. e \in Episodes /\ x.status # "none"
      BY <1>3 DEF StopCandidate, Stopping
    <2>2. ep \in [Episodes -> Episode] /\ x \in Episode
      BY <2>1, RecordsAre
    <2>3. /\ z \in Episode /\ z.status = x.status /\ z.ending = x.ending /\ z.stop = x.stop
          /\ z.wrap = x.wrap /\ z.used = x.used /\ z.ceiling = x.ceiling /\ z.attempts = x.attempts
      BY <2>2, ProblemWritten
    <2>4. ep' = [ep EXCEPT ![e] = z]
      BY <1>3, <2>1, <2>2
    <2> HIDE DEF z
    <2>5. Written(e) /\ SameLives /\ RecordInv' /\ Kept
      BY <1>1, <2>1, <2>3, <2>4, RecordMarked
    <2>6. FlightInv'
      BY <1>1, <2>5, FlightFramed
    <2>7. TypeOK'
      BY <1>1, <1>3, <2>5, TypesBecome, ThreadsAre DEF Written
    <2>8. /\ \A f \in Episodes : report'[f].row # "none" => report[f].row # "none"
          /\ \A f \in Episodes : ep'[f].status = "stopped" => ep[f].status = "stopped"
      BY <1>1, <2>5 DEF SameLives
    <2>9. IInv'
      BY <1>1, <1>3, <2>5, <2>6, <2>7, <2>8, SameRows, Moves
    <2> QED BY <2>5, <2>9 DEF Lived
  <1>4. ASSUME NEW o \in Ops, RecoveryAccepted(o), NEW c \in Ops, Fresh(c),
               Insert(c, Child(o, task[o].kind, TRUE)), UNCHANGED ep
        PROVE  IInv' /\ Lived
    <2>1. task[o] \in TaskRow
      BY ThreadsAre
    <2>2. task[o].kind \in {"turn", "repair"}
      BY <2>1 DEF TaskRow
    <2>3. /\ ~_has_active_chat_overlap /\ EpisodeAdmitsRecovery(task[o].ep) /\ task[o].status \in Recoverable
      BY <1>4 DEF RecoveryAccepted
    <2> QED BY <1>1, <1>4, <2>2, <2>3, ChildInserted
  <1> QED BY <1>2, <1>3, <1>4 DEF restart_stopping_experiment_recoveries

-----------------------------------------------------------------------------
(* The two steps that pay. *)
Authorized(e) ==
    /\ ep[e].status = "none" /\ \A f \in Episodes : ep[f].status \notin _LIVE_EPISODE_STATUSES
    /\ ep'[e].status = "running" /\ ep'[e].used = 1 /\ ep'[e].ending = ep[e].ending
    /\ \A f \in Episodes \ {e} : ep'[f] = ep[f]
Spent(e) ==
    /\ ep[e].status = "running" /\ ep[e].used < Ceiling
    /\ ep'[e].status = ep[e].status /\ ep'[e].used = ep[e].used + 1 /\ ep'[e].ending = ep[e].ending
    /\ \A f \in Episodes \ {e} : ep'[f] = ep[f]

LEMMA RootInserted ==
    ASSUME IInv, NEW o \in Ops, NEW e \in Episodes, NEW z \in Episode, NEW session \in BOOLEAN,
           Fresh(o), ~_has_active_chat_overlap, ~Exited(e), ep[e].used + 1 \in 0..Ceiling,
           EpisodeOK(z), ReportOK(z, report[e]), z.status \in {"running", "stopping"},
           z.used = ep[e].used + 1,
           z.ending = ep[e].ending,
           ep' = [ep EXCEPT ![e] = z], Insert(o, Turn(e, ep[e].used + 1, session)),
           unit' \in [Episodes -> {"none", "active", "ready", "claimed", "stopped"}],
           \A f \in Episodes : unit'[f] = unit[f] \/ unit[f] = "ready",
           wake' = wake \/ wake' = NoWake, UNCHANGED <<report, look, boot>>
    PROVE  IInv'
  <1> DEFINE y == Turn(e, ep[e].used + 1, session)
  <1>1. /\ y \in TaskRow /\ y.status = "queued" /\ y.step = "queued" /\ y.exit = "none" /\ y.ep = e
        /\ y.parent = NoOp /\ y.inv = ep[e].used + 1
    BY TurnRow
  <1>2. task' = [task EXCEPT ![o] = y]
    BY DEF Insert
  <1> HIDE DEF y
  <1>3. ep \in [Episodes -> Episode] /\ report \in [Episodes -> ReportRow]
    BY TypesAre DEF IInv
  <1>4. ep' \in [Episodes -> Episode] /\ ep'[e] = z /\ \A f \in Episodes \ {e} : ep'[f] = ep[f]
    BY <1>3
  <1>5. Insertable(o, y)
    BY <1>1 DEF Insertable
  <1>6. Reopened(y.ep)
    BY <1>1, <1>4 DEF Reopened
  <1>7. RecordInv'
    <2> SUFFICES ASSUME NEW f \in Episodes PROVE EpisodeOK(ep'[f]) /\ ReportOK(ep'[f], report'[f])
      BY DEF RecordInv
    <2>1. CASE f = e
      BY <1>4, <2>1
    <2>2. CASE f # e
      BY <1>4, <2>2 DEF IInv, RecordInv
    <2> QED BY <2>1, <2>2
  <1>8. RowInv' /\ OrderInv' /\ ExitIsFinal'
    BY <1>2, <1>5, <1>6, InsertedOrder
  <1>9. QuietInv'
    BY <1>2, <1>5, <1>6, <1>7, InsertedQuiet
  <1>10. InvocationsArePaid'
    BY <1>1, <1>2, <1>4, <1>5, RootPaid
  <1>11. FlightInv'
    BY <1>4, InsertedFlight
  <1>12. task' \in [Ops -> TaskRow]
    BY <1>2, <1>5, InsertedRow
  <1>13. TypeOK'
    BY <1>3, <1>4, <1>12, TypesBecome, ThreadsAre
  <1> QED BY <1>7, <1>8, <1>9, <1>10, <1>11, <1>13 DEF IInv

LEMMA Step_create_experiment_episode_with_invocation ==
    ASSUME IInv, NEW e \in Episodes, NEW o \in Ops, create_experiment_episode_with_invocation(e, o),
           UNCHANGED boot
    PROVE  IInv' /\ Authorized(e)
  <1> DEFINE x == ep[e]
  <1>1. /\ ep \in [Episodes -> Episode] /\ x \in Episode /\ EpisodeOK(x) /\ ReportOK(x, report[e])
    BY RecordsAre
  <1>2. /\ Fresh(o) /\ x.status = "none" /\ ~_has_active_chat_overlap
        /\ \A f \in Episodes : ep[f].status \notin _LIVE_EPISODE_STATUSES
        /\ Insert(o, Turn(e, 1, FALSE)) /\ UNCHANGED <<report, wake, look>>
    BY DEF create_experiment_episode_with_invocation
  <1>3. PICK ceiling \in 1..Ceiling :
            ep' = [ep EXCEPT ![e].status = "running", ![e].used = 1, ![e].ceiling = ceiling]
    BY DEF create_experiment_episode_with_invocation
  <1>4. /\ x.used = 0 /\ x.ending = "none" /\ x.stop = FALSE /\ x.wrap = "not_started" /\ x.attempts = 0
    BY <1>1, <1>2 DEF EpisodeOK, NoEpisode
  <1> DEFINE z == [x EXCEPT !.status = "running", !.used = 1, !.ceiling = ceiling]
  <1>5. 1 \in 0..Ceiling /\ ceiling \in 0..Ceiling /\ 1 <= ceiling
    BY <1>3, LoopAssumption
  <1>6. z \in Episode
    BY <1>1, <1>5 DEF Episode, _LIVE_EPISODE_STATUSES
  <1>7. z.status = "running" /\ z.ending = x.ending /\ z.wrap = x.wrap /\ z.attempts = x.attempts
    BY <1>1, <1>5 DEF Episode
  <1>8. z.used = 1 /\ z.ceiling = ceiling
    BY <1>1, <1>5 DEF Episode
  <1>9. z.stop = x.stop
    BY <1>1, <1>5 DEF Episode
  <1>10. ep' = [ep EXCEPT ![e] = z]
    BY <1>1, <1>3
  <1> HIDE DEF z
  <1>11. EpisodeOK(z)
    BY <1>4, <1>5, <1>7, <1>8, <1>9 DEF EpisodeOK, Unfenced, Ended
  <1>12. report[e] = NoReport
    BY <1>1, <1>4 DEF ReportOK
  <1>13. ReportOK(z, report[e])
    BY <1>4, <1>7, <1>12 DEF ReportOK, NoReport
  <1>14. ~Exited(e)
    <2> SUFFICES ASSUME NEW p \in Ops, task[p].ep = e PROVE FALSE
      BY DEF Exited, TurnsOf
    <2>1. task[p].status # "none"
      BY DEF IInv, RowInv, RowOK, NoTask, Episodes
    <2> QED BY <1>2, <2>1 DEF IInv, RowInv
  <1>15. /\ unit' \in [Episodes -> {"none", "active", "ready", "claimed", "stopped"}]
         /\ \A f \in Episodes : unit'[f] = unit[f] \/ unit[f] = "ready"
    BY ThreadsAre DEF create_experiment_episode_with_invocation
  <1>16. x.used + 1 = 1
    BY <1>4
  <1>17. IInv'
    BY <1>2, <1>5, <1>6, <1>7, <1>8, <1>10, <1>11, <1>13, <1>14, <1>15, <1>16, RootInserted
  <1>18. ep'[e] = z /\ \A f \in Episodes \ {e} : ep'[f] = ep[f]
    BY <1>1, <1>10
  <1>19. Authorized(e)
    BY <1>2, <1>7, <1>8, <1>18 DEF Authorized
  <1> QED BY <1>17, <1>19

LEMMA Step_create_experiment_watcher_invocation ==
    ASSUME IInv, create_experiment_watcher_invocation, UNCHANGED boot
    PROVE  IInv' /\ (Lived \/ \E e \in Episodes : Spent(e))
  <1> DEFINE e == wake.ep
             x == ep[e]
  <1>1. e \in Episodes /\ wake' = NoWake /\ UNCHANGED <<report, look>>
    BY DEF create_experiment_watcher_invocation, IInv, FlightInv
  <1>2. /\ ep \in [Episodes -> Episode] /\ x \in Episode /\ EpisodeOK(x) /\ ReportOK(x, report[e])
    BY <1>1, RecordsAre
  <1>3. CASE ~ClaimAccepted(e)
    <2>1. UNCHANGED <<ep, task, unit>>
      BY <1>3 DEF create_experiment_watcher_invocation
    <2>2. FlightInv'
      BY <1>1, <2>1, StillKept, FlightFramed
    <2> QED BY <1>1, <2>1, <2>2, SameRows, ThreadsAre, StillMoves
  <1>4. CASE ClaimAccepted(e)
    <2>1. PICK o \in Ops : /\ Fresh(o) /\ Insert(o, Turn(e, wake.inv, TRUE))
                           /\ ep' = [ep EXCEPT ![e].used = @ + 1]
                           /\ unit' = [unit EXCEPT ![e] = "claimed"]
      BY <1>4 DEF create_experiment_watcher_invocation
    <2>2. /\ unit[e] = "ready" /\ x.status = "running" /\ x.ending = "none" /\ ~x.stop /\ ~Exited(e)
          /\ x.used < x.ceiling /\ wake.inv = x.used + 1 /\ ~_has_active_chat_overlap
      BY <1>4 DEF ClaimAccepted
    <2>3. x.used \in 0..Ceiling /\ x.ceiling \in 0..Ceiling
      BY <1>2 DEF Episode
    <2>4. x.used + 1 \in 0..Ceiling /\ x.used < Ceiling /\ x.used + 1 <= x.ceiling
      BY <2>2, <2>3, LoopAssumption
    <2> DEFINE z == [x EXCEPT !.used = x.used + 1]
    <2>5. /\ z \in Episode /\ z.status = x.status /\ z.ending = x.ending /\ z.stop = x.stop
          /\ z.wrap = x.wrap /\ z.used = x.used + 1 /\ z.ceiling = x.ceiling /\ z.attempts = x.attempts
      BY <1>2, <2>4, UsedWritten
    <2>6. ep' = [ep EXCEPT ![e] = z]
      BY <1>1, <1>2, <2>1
    <2> HIDE DEF z
    <2>7. EpisodeOK(z)
      BY <1>2, <2>2, <2>4, <2>5 DEF EpisodeOK, Unfenced, Ended
    <2>8. ReportOK(z, report[e])
      BY <1>2, <2>5 DEF ReportOK
    <2>9. /\ unit' \in [Episodes -> {"none", "active", "ready", "claimed", "stopped"}]
          /\ \A f \in Episodes : unit'[f] = unit[f] \/ unit[f] = "ready"
      BY <2>1, <2>2, ThreadsAre
    <2>10. Insert(o, Turn(e, x.used + 1, TRUE))
      BY <2>1, <2>2
    <2>11. IInv'
      BY <1>1, <2>1, <2>2, <2>4, <2>5, <2>6, <2>7, <2>8, <2>9, <2>10, RootInserted
    <2>12. ep'[e] = z /\ \A f \in Episodes \ {e} : ep'[f] = ep[f]
      BY <1>1, <1>2, <2>6
    <2>13. Spent(e)
      BY <2>2, <2>4, <2>5, <2>12 DEF Spent
    <2> QED BY <1>1, <2>11, <2>13
  <1> QED BY <1>3, <1>4

-----------------------------------------------------------------------------
(* The specification. *)
LEMMA InvInit == ASSUME Init PROVE IInv
  <1>1. /\ ep = [e \in Episodes |-> NoEpisode] /\ report = [e \in Episodes |-> NoReport]
        /\ task = [o \in Ops |-> NoTask] /\ unit = [e \in Episodes |-> "none"] /\ wake = NoWake
        /\ look = [r \in Lookers |-> NoLook] /\ boot = "serving"
    BY DEF Init, ReportsInit
  <1>2. NoEpisode \in Episode
    BY LoopAssumption, ReportAssumption DEF NoEpisode, Episode
  <1>3. NoReport \in ReportRow
    BY DEF NoReport, ReportRow
  <1>4. NoTask \in TaskRow
    BY LoopAssumption DEF NoTask, TaskRow
  <1>5. NoLook \in Look
    BY DEF NoLook, Look
  <1>6. NoWake \in Wake
    BY LoopAssumption DEF NoWake, Wake
  <1>7. TypeOK
    BY <1>1, <1>2, <1>3, <1>4, <1>5, <1>6, TypesAre
  <1>8. NoTask.status = "none" /\ NoTask.ep = 0 /\ NoTask.exit = "none" /\ NoTask.step = "none" /\ NoTask.parent = NoOp
    BY DEF NoTask
  <1>9. RecordInv
    <2>1. EpisodeOK(NoEpisode)
      BY DEF EpisodeOK, NoEpisode, Unfenced, Ended
    <2>2. ReportOK(NoEpisode, NoReport)
      BY DEF ReportOK, NoEpisode, NoReport
    <2> QED BY <1>1, <2>1, <2>2 DEF RecordInv
  <1>10. \A o \in Ops : task[o] = NoTask
    BY <1>1
  <1>11. RowInv
    BY <1>8, <1>10 DEF RowInv, RowOK, Working, LiveTurn
  <1>12. \A e \in Episodes : TurnsOf(task, e) = {}
    BY <1>8, <1>10 DEF TurnsOf, Episodes
  <1>13. \A e \in Episodes : ep[e].status = "none" /\ ep[e].used = 0
    BY <1>1 DEF NoEpisode
  <1>14. OrderInv
    <2>1. 0 \in 0..MaxOps /\ \A o \in Ops : task[o].status # "none" <=> o <= 0
      BY <1>8, <1>10, ReportAssumption DEF Ops
    <2> QED BY <1>8, <1>10, <1>13, <2>1 DEF OrderInv
  <1>15. QuietInv
    BY <1>1, <1>12, <1>13 DEF QuietInv, Active
  <1>16. FlightInv
    BY <1>1 DEF FlightInv, NoWake, NoLook
  <1>17. ExitIsFinal
    BY <1>8, <1>10 DEF ExitIsFinal
  <1>18. InvocationsArePaid
    <2> SUFFICES ASSUME NEW e \in Episodes
        PROVE  LET roots == {o \in TurnsOf(task, e) : task[o].parent = NoOp}
               IN  /\ {task[o].inv : o \in roots} = 1..ep[e].used /\ Cardinality(roots) = ep[e].used
                   /\ \A o \in TurnsOf(task, e) : \E p \in roots : task[p].inv = task[o].inv /\ p <= o
      BY DEF InvocationsArePaid
    <2> DEFINE roots == {o \in TurnsOf(task, e) : task[o].parent = NoOp}
    <2>1. TurnsOf(task, e) = {} /\ ep[e].used = 0
      BY <1>12, <1>13
    <2>2. roots = {} /\ {task[o].inv : o \in roots} = {}
      BY <2>1
    <2>3. Cardinality({}) = 0 /\ 1..0 = {}
      BY FS_EmptySet
    <2> QED BY <2>1, <2>2, <2>3
  <1> QED BY <1>7, <1>9, <1>11, <1>14, <1>15, <1>16, <1>17, <1>18 DEF IInv

(* What a step makes of the episodes. *)
Advanced == Lived \/ \E e \in Episodes : Authorized(e) \/ Spent(e)

LEMMA InvStep == ASSUME IInv, [Next]_vars PROVE IInv' /\ Advanced
  <1> SUFFICES IInv' /\ (Lived \/ \E e \in Episodes : Authorized(e) \/ Spent(e))
    BY DEF Advanced
  <1>1. CASE UNCHANGED vars
    <2>1. UNCHANGED <<ep, report, task, unit, wake, look, boot>>
      BY <1>1 DEF vars, reportVars
    <2>2. FlightInv'
      BY <2>1, StillKept, FlightFramed
    <2> QED BY <2>1, <2>2, SameRows, ThreadsAre, StillMoves
  <1>2. CASE Workers /\ UNCHANGED boot
    <2>1. ASSUME NEW o \in Ops, Worker(o) \/ TurnEnds(o) \/ WorkerSettles(o) PROVE IInv' /\ Lived
      BY <1>2, <2>1, Step_Launch, Step_BindSession, Step_ApplyPatch,
         Step_commit_experiment_episode_handoff,
         Step_complete_agent_task, Step_TurnEnds, Step_WorkerSettles
         DEF Worker
    <2>2. ASSUME NEW r \in Lookers, Reconcile(r) PROVE IInv' /\ Lived
      BY <1>2, <2>2, Step_FenceEnding, Step_WrapUp DEF Reconcile
    <2>3. ASSUME NEW e \in Episodes, Report(e) PROVE IInv' /\ Lived
      BY <1>2, <2>3, Step_Report
    <2> QED BY <1>2, <2>1, <2>2, <2>3 DEF Workers
  <1>3. CASE Served /\ UNCHANGED boot
    <2>1. ASSUME NEW e \in Episodes, NEW o \in Ops, create_experiment_episode_with_invocation(e, o)
          PROVE  IInv' /\ Authorized(e)
      BY <1>3, <2>1, Step_create_experiment_episode_with_invocation
    <2>2. ASSUME NEW e \in Episodes,
                 WatcherCompletes(e) \/ WakeRead(e) \/ PollerLooks(e) \/ request_experiment_loop_stop(e)
          PROVE  IInv' /\ Lived
      BY <1>3, <2>2, Step_WatcherCompletes, Step_WakeRead, Step_PollerLooks,
         Step_request_experiment_loop_stop
    <2>3. CASE preflight_episode_wake
      BY <1>3, <2>3, Step_preflight_episode_wake
    <2>4. CASE create_experiment_watcher_invocation
      BY <1>3, <2>4, Step_create_experiment_watcher_invocation
    <2>5. ASSUME NEW o \in Ops, NEW c \in Ops, Recover(o, c) \/ create_experiment_graph_repair_task(o, c)
          PROVE  IInv' /\ Lived
      BY <1>3, <2>5, Step_Recover, Step_create_experiment_graph_repair_task
    <2>6. ASSUME NEW o \in Ops, RecoveryImpossible(o) PROVE IInv' /\ Lived
      BY <1>3, <2>6, Step_RecoveryImpossible
    <2> QED BY <1>3, <2>1, <2>2, <2>3, <2>4, <2>5, <2>6 DEF Served
  <1>4. CASE Restart
    BY <1>4, Step_Restart
  <1>5. CASE Boot
    BY <1>5, Step_restart_stopping_experiment_recoveries, Step_RecoverStops,
       Step_restart_interrupted_episode_reports
       DEF Boot
  <1> QED BY <1>1, <1>2, <1>3, <1>4, <1>5 DEF Next

LEMMA InvAlways == Spec => []IInv
  <1>1. IInv /\ [Next]_vars => IInv'
    BY InvStep
  <1> QED BY <1>1, InvInit, PTL DEF Spec

(***************************************************************************)
(* However people, watchers, workers, reconcilers and restarts come        *)
(* between, no turn of an episode is live once its report is allocated,    *)
(* the report costs at most its numbered provider calls, and what is       *)
(* published was written by the attempt that publishes it.                 *)
(***************************************************************************)
THEOREM ReportComesAfterTheWork == Spec => []ReportsAreSound
  <1>1. IInv => ReportsAreSound
    <2> SUFFICES ASSUME IInv PROVE ReportsAreSound
      OBVIOUS
    <2>1. TypeOK
      BY DEF IInv
    <2>2. ReportAfterWork
      BY DEF IInv, QuietInv, ReportAfterWork
    <2>3. ASSUME NEW e \in Episodes
          PROVE  /\ report[e].calls <= _REPORT_ATTEMPT_LIMIT
                 /\ report[e].published # 0 => report[e].published = ep[e].attempts
      <3>1. ep[e] \in Episode /\ report[e] \in ReportRow /\ ReportOK(ep[e], report[e])
        BY RecordsAre
      <3>2. ep[e].attempts \in 0.._REPORT_ATTEMPT_LIMIT /\ report[e].calls \in Nat
        BY <3>1 DEF Episode, ReportRow
      <3>3. report[e].calls <= ep[e].attempts
        BY <3>1 DEF ReportOK
      <3>4. report[e].calls <= _REPORT_ATTEMPT_LIMIT
        BY <3>2, <3>3, ReportAssumption
      <3> QED BY <3>1, <3>4 DEF ReportOK
    <2> QED BY <2>1, <2>2, <2>3 DEF ReportsAreSound, ReportCallsBounded, ReportIsItsOwn
  <1> QED BY <1>1, InvAlways, PTL

(***************************************************************************)
(* Every invocation an episode spent is one paid root turn, numbered in    *)
(* order; a recovery or a repair never pays; and neither a settled Stop    *)
(* nor an ending that was handed over is followed by a turn.               *)
(***************************************************************************)
THEOREM LoopWorksAsAuthorized == Spec => []WorkIsAuthorized
  <1>1. IInv => WorkIsAuthorized
    <2> SUFFICES ASSUME IInv PROVE WorkIsAuthorized
      OBVIOUS
    <2>1. ASSUME NEW e \in Episodes, ep[e].status = "stopped"
          PROVE  ~Active(e) /\ unit[e] \in {"none", "stopped"} /\ report[e] = NoReport
      <3>1. ~Active(e) /\ unit[e] \in {"none", "stopped"}
        BY <2>1 DEF IInv, QuietInv
      <3>2. EpisodeOK(ep[e]) /\ ReportOK(ep[e], report[e])
        BY RecordsAre
      <3>3. report[e] = NoReport
        BY <2>1, <3>2 DEF EpisodeOK, ReportOK
      <3> QED BY <3>1, <3>3
    <2> QED BY <2>1 DEF WorkIsAuthorized, StoppedIsQuiet, IInv
  <1> QED BY <1>1, InvAlways, PTL

-----------------------------------------------------------------------------
(* The records of the loop as EpisodeLifecycle sees them. *)
LEMMA LifeStep ==
    ASSUME IInv, Advanced
    PROVE  [Lifecycle!Next]_(Lifecycle!lifecycleVars)
  <1> DEFINE status == [e \in Episodes |-> ep[e].status]
             spent == [e \in Episodes |-> ep[e].used]
             ending == [e \in Episodes |-> ep[e].ending]
             newStatus == [e \in Episodes |-> ep'[e].status]
             newSpent == [e \in Episodes |-> ep'[e].used]
             newEnding == [e \in Episodes |-> ep'[e].ending]
  <1>1. ASSUME NEW e \in Episodes, \A f \in Episodes \ {e} : ep'[f] = ep[f]
        PROVE  /\ newStatus = [status EXCEPT ![e] = ep'[e].status]
               /\ newSpent = [spent EXCEPT ![e] = ep'[e].used]
               /\ newEnding = [ending EXCEPT ![e] = ep'[e].ending]
    BY <1>1
  <1>2. CASE SameLives
    <2>1. newStatus = status /\ newSpent = spent /\ newEnding = ending
      BY <1>2 DEF SameLives
    <2> QED BY <2>1 DEF Lifecycle!lifecycleVars
  <1>3. ASSUME NEW e \in Episodes, OneLife(e) PROVE [Lifecycle!Next]_(Lifecycle!lifecycleVars)
    <2>1. /\ newStatus = [status EXCEPT ![e] = ep'[e].status]
          /\ newSpent = [spent EXCEPT ![e] = ep'[e].used]
          /\ newEnding = [ending EXCEPT ![e] = ep'[e].ending]
          /\ ep'[e].used = ep[e].used
      BY <1>1, <1>3 DEF OneLife, Moved
    <2>2. newSpent = spent /\ (ep'[e].ending = ep[e].ending => newEnding = ending)
      BY <2>1
    <2>3. EpisodeOK(ep[e])
      BY RecordsAre
    <2>4. CASE ep'[e].status = ep[e].status /\ ep'[e].ending = ep[e].ending
      <3>1. newStatus = status /\ newSpent = spent /\ newEnding = ending
        BY <2>1, <2>4
      <3> QED BY <3>1 DEF Lifecycle!lifecycleVars
    <2>5. CASE ep[e].status = "running" /\ ep'[e].status = "stopping" /\ ep'[e].ending = ep[e].ending
      <3>1. Lifecycle!Stop(e)
        BY <2>1, <2>2, <2>5 DEF Lifecycle!Stop
      <3> QED BY <3>1 DEF Lifecycle!Next
    <2>6. CASE /\ ep[e].status \in {"running", "stopping"}
               /\ ep'[e].status = "stopped" /\ ep'[e].ending = "stopped"
      <3>1. CASE ep[e].status = "running"
        <4>1. Lifecycle!StopNow(e)
          BY <2>1, <2>2, <2>6, <3>1 DEF Lifecycle!StopNow
        <4> QED BY <4>1 DEF Lifecycle!Next
      <3>2. CASE ep[e].status = "stopping"
        <4>1. newEnding[e] = "stopped" /\ _status_for_ending["stopped"] = "stopped"
          BY <2>6 DEF _status_for_ending, Endings
        <4>2. Lifecycle!Settle(e)
          BY <2>1, <2>2, <2>6, <3>2, <4>1 DEF Lifecycle!Settle
        <4> QED BY <4>2 DEF Lifecycle!Next
      <3> QED BY <2>6, <3>1, <3>2
    <2>7. CASE /\ ep[e].status = "running" /\ ep'[e].status = "wrapping_up"
               /\ ep'[e].ending \in Endings \ {"stopped"}
      <3>1. Lifecycle!Fence(e)
        BY <2>1, <2>2, <2>7 DEF Lifecycle!Fence
      <3> QED BY <3>1 DEF Lifecycle!Next
    <2>8. CASE /\ ep[e].status = "wrapping_up" /\ ep'[e].ending = ep[e].ending
               /\ ep'[e].status = _status_for_ending[ep[e].ending]
      <3>1. newEnding[e] = ep[e].ending
        BY <2>8
      <3>2. Lifecycle!Settle(e)
        BY <2>1, <2>2, <2>8, <3>1 DEF Lifecycle!Settle
      <3> QED BY <3>2 DEF Lifecycle!Next
    <2> QED BY <1>3, <2>4, <2>5, <2>6, <2>7, <2>8 DEF OneLife, Moved
  <1>4. ASSUME NEW e \in Episodes, Authorized(e) PROVE Lifecycle!Next
    <2>1. /\ newStatus = [status EXCEPT ![e] = "running"] /\ newSpent = [spent EXCEPT ![e] = 1]
          /\ newEnding = [ending EXCEPT ![e] = ep[e].ending]
      BY <1>1, <1>4 DEF Authorized
    <2>2. newEnding = ending
      BY <2>1
    <2>3. Lifecycle!Authorize(e)
      BY <1>4, <2>1, <2>2 DEF Authorized, Lifecycle!Authorize, Lifecycle!Live, _LIVE_EPISODE_STATUSES
    <2> QED BY <2>3 DEF Lifecycle!Next
  <1>5. ASSUME NEW e \in Episodes, Spent(e) PROVE Lifecycle!Next
    <2>1. /\ newStatus = [status EXCEPT ![e] = ep[e].status] /\ newSpent = [spent EXCEPT ![e] = ep[e].used + 1]
          /\ newEnding = [ending EXCEPT ![e] = ep[e].ending]
      BY <1>1, <1>5 DEF Spent
    <2>2. newStatus = status /\ newEnding = ending /\ newSpent = [spent EXCEPT ![e] = @ + 1]
      BY <2>1
    <2>3. Lifecycle!Spend(e)
      BY <1>5, <2>2 DEF Spent, Lifecycle!Spend
    <2> QED BY <2>3 DEF Lifecycle!Next
  <1> QED BY <1>2, <1>3, <1>4, <1>5 DEF Advanced, Lived

(***************************************************************************)
(* The loop is an episode as every mode promises one: it spends at most    *)
(* what it was given, only while it is running; it is fenced once, by Stop *)
(* or by one ending; it ends as that fence says and stays ended.           *)
(***************************************************************************)
THEOREM LoopIsAnEpisode == Spec => LifecycleSpec
  <1>1. Init => Lifecycle!Init
    BY DEF Init, ReportsInit, NoEpisode, Lifecycle!Init
  <1>2. IInv /\ [Next]_vars => [Lifecycle!Next]_(Lifecycle!lifecycleVars)
    BY InvStep, LifeStep
  <1> QED BY <1>1, <1>2, InvAlways, PTL DEF Spec, LifecycleSpec, Lifecycle!Spec
=============================================================================
