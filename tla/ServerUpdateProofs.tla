------------------------- MODULE ServerUpdateProofs -------------------------
(***************************************************************************)
(* For any roots and any number of releases, changes, faults and deaths:   *)
(* no release runs over data it does not fit, no acknowledged change is    *)
(* dropped, and the update is a choice between two releases.               *)
(***************************************************************************)
EXTENDS ServerUpdate, TLAPS

-----------------------------------------------------------------------------
(* The invariant. *)

OpRows == [state : States, base : 0..MaxRelease, cand : Releases, ckpt : BOOLEAN, bad : BOOLEAN]
SrvRows == [rel : 0..MaxRelease, fence : {"none", "active", "open"}, adm : BOOLEAN, bg : BOOLEAN, own : BOOLEAN,
            begun : BOOLEAN, base : BOOLEAN, busy : BOOLEAN, launch : {"none", "passed", "running"}]
AskRows == [call : {"none", "enter", "verify", "release", "abort"}, digest : OpRows \cup {NoOp},
            at : {"none", "begin", "closing", "draining", "pausing", "capturing", "opening", "waiting", "ok", "refused"}]
DataRows == [fmt : 0..MaxRelease, w : Nat, used : BOOLEAN]

UpdateType ==
    /\ current \in Releases /\ op \in OpRows /\ held \in OpRows /\ srv \in SrvRows /\ ask \in AskRows
    /\ wanted \in BOOLEAN /\ astray \in BOOLEAN
    /\ live \in [Roots -> DataRows] /\ saved \in [Roots -> DataRows] /\ aside \subseteq Roots
    /\ journal \in {"none", "prepared", "quarantined", "restored", "verified", "complete"}
    /\ accepted \in 0..MaxWrites /\ faults \in 0..MaxFaults /\ crashes \in 0..MaxCrashes

Chose == Reopening \cup {"committed", "rolled_back"}
Restoring == {"rollback_restoring", "repair_required"}
Captured == {"maintenance_closed", "checkpoint_ready", "candidate_starting", "candidate_verified",
             "old_release_starting", "old_release_verified"} \cup Restoring

OnTrialStates == {"candidate_starting", "candidate_verified", "rollback_restoring",
                  "old_release_starting", "old_release_verified"}

(* Which of its two releases the installed pointer names in each state of the receipt. *)
PointerInv ==
    /\ op.base < op.cand /\ current \in {op.base, op.cand}
    /\ op.ckpt => op.state # "maintenance_closing"
    /\ op.state \in {"maintenance_closing", "maintenance_closed", "aborted_before_switch", "old_release_starting",
                     "old_release_verified", "old_release_reopening", "rolled_back"} => current = op.base
    /\ op.state \in {"candidate_starting", "candidate_verified", "candidate_reopening", "committed"} => current = op.cand

(* A process runs the named release, over roots that are all in place, and a fence that
   is still closed has kept its runtime from starting. *)
ServerInv ==
    /\ srv.rel = 0 => srv = NoServer
    /\ srv.rel # 0 => srv.rel = current /\ journal \in {"none", "complete"}
    /\ srv = NoServer => ask = NoAsk
    /\ srv.fence = "active" => ~srv.adm /\ ~srv.begun
    /\ srv.base => srv.begun
    /\ op.state = "checkpoint_ready" /\ current = op.cand => srv = NoServer

(* Nothing can reach the data: no change is under way, and nothing can begin one. *)
Quiet ==
    /\ ~srv.adm /\ ~srv.bg /\ ~srv.own /\ ~srv.busy /\ srv.launch = "none"
    /\ srv.rel # 0 => srv.begun \/ srv.fence = "active"

Draining == {"draining", "pausing", "capturing"}

(* What a call has closed or opened so far. *)
AskInv ==
    /\ ask.call = "enter" /\ ask.at = "ok" => op.state # "maintenance_closing"
    /\ ask.call = "enter" /\ ask.at \in Draining \cup {"closing"} =>
          ~srv.adm /\ srv.begun /\ ask.digest.state = "maintenance_closing"
    /\ ask.call = "enter" /\ ask.at \in Draining => ~srv.bg /\ ~srv.busy
    /\ ask.call = "enter" /\ ask.at = "capturing" => ~srv.own /\ srv.launch # "passed"
    /\ ask.call = "release" /\ ask.at \in {"opening", "waiting"} => op.state \in Chose
    /\ ask.call = "abort" /\ ask.at = "waiting" =>
          astray /\ op.state \in BeforeSwitch \cup {"repair_required", "aborted_before_switch"}

Early == {"idle", "enter", "reopen", "abort", "abort_failed", "re_stop", "re_start", "re_abort", "halt"}
Off == {"switch", "mark", "rb_restore", "rb_switch", "rb_advance"}
Repairing == {"rp_check", "rp_stop", "rp_mark", "rp_start", "rp_probe", "rp_failed"}

(* What the command knows at each step. *)
RootInv ==
    /\ root \notin Early => op.state # "maintenance_closing"
    /\ root \in {"rehearse", "checkpoint"} => ask = NoAsk /\ held = op
    /\ root = "checkpoint" => op.state = "maintenance_closed"
    /\ root \in {"stop", "switch", "mark"} => ask = NoAsk /\ held = op /\ op.state = "checkpoint_ready"
    /\ root = "mark" => current = op.cand
    /\ root = "re_mark" => current = held.cand
    /\ root \in Off => ~wanted /\ srv = NoServer
    /\ root \in {"rb_restore", "rb_switch", "rb_advance"} => op.state \in Restoring
    /\ root \in {"rb_switch", "rb_advance"} => journal = "complete" /\ Matches /\ held = op
    /\ root = "rb_advance" => current = op.base
    /\ root \in Repairing => op.state \in Chose

(* Formats, roots that are set aside, and the changes each copy holds. *)
DataInv ==
    /\ \A r \in Roots : live[r].fmt = 0 => live[r] = Gone /\ journal \in {"prepared", "quarantined"}
    /\ \A r \in Roots : op.state \in Captured => saved[r].fmt # 0
    /\ live[DataRoot].fmt <= current /\ saved[DataRoot].fmt <= op.base
    /\ journal \notin {"none", "complete"} => op.state \in Restoring
    /\ journal \in {"restored", "verified"} => Matches

WriteInv ==
    /\ \A r \in Roots : saved[r].w = saved[DataRoot].w
    /\ journal \in {"none", "complete"} => \A r \in Roots : live[r].w = live[DataRoot].w
    /\ ~astray => \A r \in Roots : /\ live[r].fmt # 0 => live[r].w = accepted
                                   /\ op.state \in Captured => saved[r].w = accepted

QuietInv == OnTrial \/ (op.state \in Captured /\ ~astray) => Quiet

IInv ==
    /\ UpdateType /\ PointerInv /\ ServerInv /\ AskInv /\ RootInv /\ DataInv /\ WriteInv /\ QuietInv
-----------------------------------------------------------------------------
(* The tables. *)

(* Which states a receipt may leave for a repair, for an abort and by name. *)
LEMMA Transitions ==
    /\ States = {"maintenance_closing", "maintenance_closed", "checkpoint_ready", "candidate_starting",
                 "candidate_verified", "candidate_reopening", "rollback_restoring", "old_release_starting",
                 "old_release_verified", "old_release_reopening", "repair_required", "committed", "rolled_back",
                 "aborted_before_switch"}
    /\ \A s \in States : "aborted_before_switch" \in _ALLOWED_TRANSITIONS[s] => s \in BeforeSwitch
    /\ \A s \in States : "repair_required" \in _ALLOWED_TRANSITIONS[s] =>
          s \in BeforeSwitch \cup OnTrialStates
  BY DEF States, _ALLOWED_TRANSITIONS, BeforeSwitch, OnTrialStates

(* The steps that call the process, and where their answers lead. *)
LEMMA CallTable ==
    /\ DOMAIN Calls = {"enter", "verify", "release", "abort", "re_abort", "rb_verify", "rb_release"}
    /\ \A s \in DOMAIN Calls : /\ Calls[s] \in {"enter", "verify", "release", "abort"}
                               /\ Calls[s] = "enter" <=> s = "enter"
                               /\ Answered[s] = "rehearse" <=> s = "enter"
                               /\ Answered[s] \in {"rehearse", "release", "idle", "rb_release"}
  BY DEF Calls, Answered


-----------------------------------------------------------------------------
(* Steps that leave most of the state alone. *)

(* The receipt may record or clear a runtime failure, and says nothing else new. *)
SameReceipt == op' \in OpRows /\ op'.state = op.state /\ op'.base = op.base /\ op'.cand = op.cand /\ op'.ckpt = op.ckpt
SameData == UNCHANGED <<live, saved, aside, journal, accepted, astray>>
Counted == faults' \in 0..MaxFaults /\ crashes' \in 0..MaxCrashes

(* What each part of the invariant depends on. *)
LEMMA Frames ==
    /\ PointerInv /\ SameReceipt /\ UNCHANGED current => PointerInv'
    /\ ServerInv /\ SameReceipt /\ UNCHANGED <<srv, ask, current, journal>> => ServerInv'
    /\ AskInv /\ SameReceipt /\ UNCHANGED <<srv, ask, astray>> => AskInv'
    /\ DataInv /\ SameReceipt /\ UNCHANGED <<live, saved, journal, current>> => DataInv'
    /\ WriteInv /\ SameReceipt /\ SameData => WriteInv'
    /\ QuietInv /\ SameReceipt /\ UNCHANGED <<srv, astray>> => QuietInv'
  <1>1. PointerInv /\ SameReceipt /\ UNCHANGED current => PointerInv'
    BY DEF PointerInv, SameReceipt
  <1>2. ServerInv /\ SameReceipt /\ UNCHANGED <<srv, ask, current, journal>> => ServerInv'
    BY DEF ServerInv, SameReceipt
  <1>3. AskInv /\ SameReceipt /\ UNCHANGED <<srv, ask, astray>> => AskInv'
    BY DEF AskInv, SameReceipt
  <1>4. DataInv /\ SameReceipt /\ UNCHANGED <<live, saved, journal, current>> => DataInv'
    BY DEF DataInv, SameReceipt, Matches
  <1>5. WriteInv /\ SameReceipt /\ SameData => WriteInv'
    BY DEF WriteInv, SameReceipt, SameData
  <1>6. QuietInv /\ SameReceipt /\ UNCHANGED <<srv, astray>> => QuietInv'
    BY DEF QuietInv, Quiet, OnTrial, SameReceipt
  <1> QED BY <1>1, <1>2, <1>3, <1>4, <1>5, <1>6

(* A step of the command that touches neither the process nor the data. *)
LEMMA CommandMoves ==
    ASSUME IInv, SameReceipt, UNCHANGED <<current, srv, ask>>, SameData, Counted,
           held' \in OpRows, wanted' \in BOOLEAN, RootInv'
    PROVE  IInv'
  <1>1. UpdateType'
    BY DEF IInv, UpdateType, SameReceipt, SameData, Counted
  <1> QED BY <1>1, Frames DEF IInv, SameData

(* A call comes in, moves on without touching the process, or is answered. *)
LEMMA CallMoves ==
    ASSUME IInv, UNCHANGED <<current, op, srv, wanted>>, SameData, Counted,
           held' \in OpRows, ask' \in AskRows, srv = NoServer => ask' = NoAsk, AskInv', RootInv'
    PROVE  IInv'
  <1>1. UpdateType' /\ SameReceipt
    BY DEF IInv, UpdateType, SameReceipt, SameData, Counted
  <1>2. ServerInv'
    BY DEF IInv, ServerInv, SameData
  <1> QED BY <1>1, <1>2, Frames DEF IInv, SameData

(* The process is gone: stopped by the command, or dead. *)
LEMMA ProcessGone ==
    ASSUME IInv, SameReceipt, UNCHANGED current, SameData, Counted, srv' = NoServer, ask' = NoAsk,
           held' \in OpRows, wanted' \in BOOLEAN, RootInv'
    PROVE  IInv'
  <1>1. NoServer \in SrvRows /\ NoAsk \in AskRows
    BY UpdateAssumption DEF NoServer, NoAsk, SrvRows, AskRows
  <1>2. UpdateType'
    BY <1>1 DEF IInv, UpdateType, SameReceipt, SameData, Counted
  <1>3. ServerInv'
    BY DEF ServerInv, NoServer
  <1>4. AskInv'
    BY DEF AskInv, NoAsk
  <1>5. QuietInv'
    BY DEF QuietInv, Quiet, NoServer
  <1> QED BY <1>2, <1>3, <1>4, <1>5, Frames DEF IInv, SameData

(* The first release, installed and not yet started. *)
LEMMA InitIInv == Init => IInv
  <1> SUFFICES ASSUME Init PROVE IInv
    OBVIOUS
  <1>0. /\ 1 \in Releases /\ 0 \in 0..MaxRelease /\ 1 \in 0..MaxRelease /\ DataRoot \in Roots
        /\ 0 \in 0..MaxWrites /\ 0 \in 0..MaxFaults /\ 0 \in 0..MaxCrashes
    BY UpdateAssumption DEF Releases
  <1>1. UpdateType
    <2>1. op \in OpRows /\ held \in OpRows
      BY <1>0, Transitions DEF Init, OpRows
    <2>2. srv \in SrvRows
      BY <1>0 DEF Init, SrvRows, NoServer
    <2>3. ask \in AskRows
      BY DEF Init, AskRows, NoAsk
    <2>4. live \in [Roots -> DataRows] /\ saved \in [Roots -> DataRows]
      BY <1>0 DEF Init, DataRows, Gone
    <2> QED BY <1>0, <2>1, <2>2, <2>3, <2>4 DEF Init, UpdateType
  <1>2. PointerInv
    BY DEF Init, PointerInv
  <1>3. ServerInv
    BY DEF Init, ServerInv, NoServer, NoAsk
  <1>4. AskInv
    BY DEF Init, AskInv, NoAsk
  <1>5. RootInv
    BY DEF Init, RootInv, Off, Repairing, Early
  <1>6. DataInv
    BY <1>0 DEF Init, DataInv, Captured, Restoring, Gone
  <1>7. WriteInv
    BY <1>0 DEF Init, WriteInv, Captured, Restoring, Gone
  <1>8. QuietInv
    BY DEF Init, QuietInv, OnTrial, Captured, Restoring
  <1> QED BY <1>1, <1>2, <1>3, <1>4, <1>5, <1>6, <1>7, <1>8 DEF IInv

-----------------------------------------------------------------------------
(* The process. *)

(* Whoever is there runs over roots that are all in place, and outside the command's
   steps that need it stopped. *)
LEMMA Running ==
    ASSUME IInv, srv # NoServer
    PROVE  /\ srv.rel = current /\ srv.rel # 0 /\ journal \in {"none", "complete"}
           /\ root \notin Off /\ \A r \in Roots : live[r].fmt # 0
           /\ ~(op.state = "checkpoint_ready" /\ current = op.cand)
  BY DEF IInv, ServerInv, RootInv, DataInv

(* A process that changes in itself keeps everything outside it. *)
LEMMA ProcessMoves ==
    ASSUME IInv, srv # NoServer, SameReceipt, UNCHANGED <<current, ask, root, held, wanted>>, SameData, Counted,
           srv' \in SrvRows, srv'.rel = srv.rel, srv'.fence = "active" => ~srv'.adm /\ ~srv'.begun,
           srv'.base => srv'.begun, AskInv', QuietInv', op' = op \/ ask # NoAsk
    PROVE  IInv'
  <1>1. UpdateType'
    BY DEF IInv, UpdateType, SameReceipt, SameData, Counted
  <1>2. ServerInv'
    <2>1. srv' # NoServer /\ srv'.rel = current' /\ srv'.rel # 0 /\ journal' \in {"none", "complete"}
      BY Running DEF SameData, NoServer
    <2> QED BY <2>1, Running DEF ServerInv, SameReceipt
  <1>3. RootInv'
    <2>1. root' \notin Off
      BY Running
    <2> QED BY <2>1 DEF IInv, RootInv, Off, SameReceipt
  <1> QED BY <1>1, <1>2, <1>3, Frames DEF IInv, SameData

(* A start migrates the store to the release the pointer names, which is never older. *)
LEMMA StartStep == IInv /\ StartProcess => IInv'
  <1> SUFFICES ASSUME IInv, StartProcess PROVE IInv'
    OBVIOUS
  <1>1. /\ current \in Releases /\ current \in Nat /\ current # 0 /\ current \in 0..MaxRelease /\ DataRoot \in Roots
        /\ journal \in {"none", "complete"} /\ op.state \notin Restoring /\ ask = NoAsk /\ srv = NoServer
        /\ Terminal \/ expected_running_commit(op) = current
    BY UpdateAssumption DEF IInv, UpdateType, ServerInv, StartProcess, MayStart, Restoring, Releases
  <1>2. SameReceipt
    BY DEF IInv, UpdateType, StartProcess, SameReceipt
  <1>3. /\ srv' \in SrvRows /\ srv'.rel = current /\ ~srv'.begun /\ ~srv'.base /\ ~srv'.own /\ ~srv'.busy
        /\ srv'.launch = "none"
    <2>1. Terminal \in BOOLEAN
      BY DEF Terminal
    <2>2. CASE Terminal
      <3>1. srv' = [NoServer EXCEPT !.rel = current, !.fence = "none", !.adm = TRUE, !.bg = TRUE]
        BY <2>1, <2>2, Zenon DEF StartProcess
      <3> QED BY <1>1, <3>1 DEF SrvRows, NoServer
    <2>3. CASE ~Terminal
      <3>1. srv' = [NoServer EXCEPT !.rel = current, !.fence = "active", !.adm = FALSE, !.bg = FALSE]
        BY <2>1, <2>3, Zenon DEF StartProcess
      <3> QED BY <1>1, <3>1 DEF SrvRows, NoServer
    <2> QED BY <2>2, <2>3
  <1>4. /\ Terminal => srv'.fence = "none"
        /\ ~Terminal => srv'.fence = "active" /\ ~srv'.adm /\ ~srv'.bg
    BY DEF StartProcess, NoServer
  <1>5. \E f \in 1..MaxRelease : /\ live' = [live EXCEPT ![DataRoot].used = TRUE, ![DataRoot].fmt = f]
                                 /\ f = IF live[DataRoot].fmt < current THEN current ELSE live[DataRoot].fmt
    <2>1. live[DataRoot].fmt \in 1..MaxRelease /\ current \in 1..MaxRelease
      BY <1>1, UpdateAssumption DEF IInv, UpdateType, DataRows, Releases, DataInv
    <2>2. PICK f : f = IF live[DataRoot].fmt < current THEN current ELSE live[DataRoot].fmt
      OBVIOUS
    <2>3. live' = [live EXCEPT ![DataRoot].used = TRUE, ![DataRoot].fmt = f]
      BY <2>2, <1>1 DEF StartProcess, IInv, UpdateType, DataRows
    <2> QED BY <2>1, <2>2, <2>3
  <1>6. PICK f \in 1..MaxRelease : /\ live' = [live EXCEPT ![DataRoot].used = TRUE, ![DataRoot].fmt = f]
                                   /\ f = IF live[DataRoot].fmt < current THEN current ELSE live[DataRoot].fmt
    BY <1>5
  <1>7. /\ live' \in [Roots -> DataRows] /\ live'[DataRoot].fmt = f
        /\ \A r \in Roots : live'[r].w = live[r].w
        /\ \A r \in Roots : r # DataRoot => live'[r] = live[r]
    BY <1>1, <1>6 DEF IInv, UpdateType, DataRows
  <1>8. \A r \in Roots : live[r].fmt # 0 /\ live'[r].fmt # 0
    BY <1>1, <1>6, <1>7 DEF IInv, DataInv
  <1>9. UpdateType'
    BY <1>3, <1>7 DEF IInv, UpdateType, StartProcess, cmdVars, countVars
  <1>10. PointerInv'
    BY <1>2, Frames DEF IInv, StartProcess
  <1>11. ServerInv'
    <2>1. srv' # NoServer /\ srv'.rel # 0
      BY <1>1, <1>3 DEF NoServer
    <2>2. ~(op.state = "checkpoint_ready" /\ current = op.cand)
      BY <1>1 DEF IInv, UpdateType, PointerInv, expected_running_commit, Terminal, TERMINAL_UPDATE_STATES, BeforeSwitch,
                  OpRows, Releases
    <2> QED BY <1>1, <1>3, <1>4, <2>1, <2>2 DEF ServerInv, StartProcess
  <1>12. AskInv'
    BY <1>1 DEF AskInv, NoAsk, StartProcess
  <1>13. RootInv'
    BY DEF IInv, RootInv, StartProcess, cmdVars, Off
  <1>14. DataInv'
    <2>1. live'[DataRoot].fmt <= current' /\ saved'[DataRoot].fmt <= op'.base
      BY <1>1, <1>6, <1>7 DEF IInv, DataInv, StartProcess
    <2> QED BY <1>1, <1>8, <2>1 DEF IInv, DataInv, StartProcess
  <1>15. WriteInv'
    BY <1>1, <1>7, <1>8 DEF IInv, WriteInv, StartProcess
  <1>16. QuietInv'
    <2>1. op.state \in Captured => ~Terminal
      BY DEF Captured, Restoring, Terminal, TERMINAL_UPDATE_STATES
    <2>2. OnTrial => op.state \in Captured
      BY DEF OnTrial, Captured, Restoring
    <2> QED BY <1>3, <1>4, <2>1, <2>2 DEF QuietInv, Quiet, OnTrial, StartProcess
  <1> QED BY <1>9, <1>10, <1>11, <1>12, <1>13, <1>14, <1>15, <1>16 DEF IInv

(* The runtime starts only where nothing had to be kept quiet. *)
LEMMA BeginStep == IInv /\ start_deferred_runtime => IInv'
  <1> SUFFICES ASSUME IInv, start_deferred_runtime PROVE IInv'
    OBVIOUS
  <1>1. SameReceipt /\ SameData /\ Counted /\ UNCHANGED <<op, current, ask, root, held, wanted>> /\ srv # NoServer
    BY DEF IInv, UpdateType, start_deferred_runtime, SameReceipt, SameData, Counted, cmdVars, dataVars, countVars, NoServer
  <1>2. /\ srv' \in SrvRows /\ srv'.rel = srv.rel /\ srv'.fence = srv.fence /\ srv'.begun
        /\ srv'.adm = srv.adm /\ srv'.bg = srv.bg /\ srv'.busy = srv.busy
    BY DEF IInv, UpdateType, start_deferred_runtime, SrvRows
  <1>3. srv.rel # 0 /\ ~srv.begun /\ srv.fence # "active"
    BY DEF start_deferred_runtime
  <1>4. AskInv'
    BY <1>1, <1>2, <1>3 DEF IInv, AskInv, SameData, Draining
  <1>5. QuietInv'
    BY <1>1, <1>3 DEF IInv, QuietInv, Quiet, OnTrial, SameData
  <1> QED BY <1>1, <1>2, <1>3, <1>4, <1>5, ProcessMoves

(* A change is made by a process that is not quiet, so no checkpoint that may still be
   restored misses it. *)
LEMMA WorkMoves ==
    ASSUME IInv, srv # NoServer, ~Quiet,
           UNCHANGED <<current, op, root, held, wanted, ask, saved, aside, journal, astray, faults, crashes>>,
           (Writes /\ accepted < MaxWrites) \/ UNCHANGED <<live, accepted>>,
           srv' \in SrvRows, srv'.rel = srv.rel, srv'.fence = srv.fence, srv'.adm = srv.adm, srv'.begun = srv.begun,
           srv'.base = srv.base, AskInv'
    PROVE  IInv'
  <1>1. SameReceipt /\ Counted
    BY DEF IInv, UpdateType, SameReceipt, Counted
  <1>2. ~(OnTrial \/ (op.state \in Captured /\ ~astray))
    BY DEF IInv, QuietInv
  <1>3. QuietInv'
    BY <1>2 DEF QuietInv, OnTrial
  <1>4. srv'.fence = "active" => ~srv'.adm /\ ~srv'.begun
    BY DEF IInv, ServerInv
  <1>5. srv'.base => srv'.begun
    BY DEF IInv, ServerInv
  <1>6. CASE UNCHANGED <<live, accepted>>
    <2>1. SameData
      BY <1>6 DEF SameData
    <2> QED BY <1>1, <1>3, <1>4, <1>5, <2>1, ProcessMoves
  <1>7. CASE Writes /\ accepted < MaxWrites
    <2>1. /\ live' \in [Roots -> DataRows] /\ accepted' \in 0..MaxWrites /\ accepted' = accepted + 1
          /\ \A r \in Roots : live'[r].fmt = live[r].fmt /\ live'[r].w = live[r].w + 1
      BY <1>7, UpdateAssumption DEF IInv, UpdateType, Writes, DataRows
    <2>2. UpdateType'
      BY <2>1 DEF IInv, UpdateType
    <2>3. PointerInv'
      BY <1>1, Frames DEF IInv
    <2>4. ServerInv'
      <3>1. srv' # NoServer /\ srv'.rel = current' /\ srv'.rel # 0 /\ journal' \in {"none", "complete"}
        BY Running DEF NoServer
      <3> QED BY <1>4, <1>5, <3>1, Running DEF ServerInv
    <2>5. RootInv'
      BY Running DEF IInv, RootInv, Off
    <2>6. DataInv'
      BY <2>1, Running, UpdateAssumption DEF IInv, DataInv
    <2>7. WriteInv'
      <3>1. \A r \in Roots : live[r].w = live[DataRoot].w
        BY Running DEF IInv, WriteInv
      <3>2. ~astray => \A r \in Roots : live[r].w = accepted
        BY Running DEF IInv, WriteInv
      <3>3. ~(op.state \in Captured /\ ~astray)
        BY <1>2
      <3> QED BY <2>1, <3>1, <3>2, <3>3, UpdateAssumption DEF IInv, WriteInv
    <2> QED BY <1>3, <2>2, <2>3, <2>4, <2>5, <2>6, <2>7 DEF IInv
  <1> QED BY <1>6, <1>7

(* A change is entered through an open gate and finished while no capture waits for it. *)
LEMMA MutationSteps == IInv /\ (mutation \/ FinishMutation) => IInv'
  <1>1. ASSUME IInv, mutation PROVE IInv'
    <2>1. SameReceipt /\ SameData /\ Counted /\ UNCHANGED <<op, current, ask, root, held, wanted>>
      BY <1>1 DEF IInv, UpdateType, mutation, SameReceipt, SameData, Counted, cmdVars, dataVars, countVars
    <2>2. /\ srv' \in SrvRows /\ srv'.rel = srv.rel /\ srv'.fence = srv.fence /\ srv'.begun = srv.begun
          /\ srv'.adm = srv.adm /\ srv'.bg = srv.bg /\ srv'.own = srv.own /\ srv'.base = srv.base
          /\ srv'.launch = srv.launch
      BY <1>1 DEF IInv, UpdateType, mutation, SrvRows
    <2>3. srv.adm /\ srv.begun /\ srv # NoServer /\ srv.fence # "active"
      BY <1>1 DEF IInv, ServerInv, mutation, NoServer
    <2>4. AskInv'
      BY <1>1, <2>1, <2>2, <2>3 DEF IInv, AskInv, SameData, Draining
    <2>5. QuietInv'
      BY <1>1, <2>1, <2>3 DEF IInv, QuietInv, Quiet, OnTrial, SameData
    <2> QED BY <1>1, <2>1, <2>2, <2>3, <2>4, <2>5, ProcessMoves DEF IInv
  <1>2. ASSUME IInv, FinishMutation PROVE IInv'
    <2>1. UNCHANGED <<current, op, root, held, wanted, ask, saved, aside, journal, astray, faults, crashes>>
      BY <1>2 DEF FinishMutation, cmdVars, countVars
    <2>2. /\ srv' \in SrvRows /\ srv'.rel = srv.rel /\ srv'.fence = srv.fence /\ srv'.begun = srv.begun
          /\ srv'.adm = srv.adm /\ srv'.bg = srv.bg /\ srv'.own = srv.own /\ srv'.base = srv.base
          /\ srv'.launch = srv.launch /\ ~srv'.busy
      BY <1>2 DEF IInv, UpdateType, FinishMutation, SrvRows
    <2>3. srv # NoServer /\ ~Quiet
      BY <1>2 DEF FinishMutation, NoServer, Quiet
    <2>4. AskInv'
      BY <1>2, <2>1, <2>2 DEF IInv, AskInv
    <2>5. (Writes /\ accepted < MaxWrites) \/ UNCHANGED <<live, accepted>>
      BY <1>2 DEF FinishMutation
    <2> QED BY <1>2, <2>1, <2>2, <2>3, <2>4, <2>5, WorkMoves
  <1> QED BY <1>1, <1>2

(* A launcher passes its gate before the call that closes it, and is waited for. *)
LEMMA LaunchStep == IInv /\ Launch => IInv'
  <1> SUFFICES ASSUME IInv, Launch PROVE IInv'
    OBVIOUS
  <1>1. UNCHANGED <<current, op, root, held, wanted, ask, saved, aside, journal, astray, faults, crashes>>
    BY DEF Launch, cmdVars, countVars
  <1>2. PICK l \in {"none", "passed", "running"} : srv' = [srv EXCEPT !.launch = l]
    BY DEF Launch
  <1>3. /\ srv' \in SrvRows /\ srv'.rel = srv.rel /\ srv'.fence = srv.fence /\ srv'.begun = srv.begun
        /\ srv'.adm = srv.adm /\ srv'.bg = srv.bg /\ srv'.own = srv.own /\ srv'.base = srv.base
        /\ srv'.busy = srv.busy /\ srv'.launch = l
    BY <1>2 DEF IInv, UpdateType, SrvRows
  <1>4. srv # NoServer /\ ~Quiet
    BY DEF Launch, NoServer, Quiet
  <1>5. l = "passed" => srv.bg
    BY <1>3 DEF Launch, IInv, UpdateType, SrvRows
  <1>6. AskInv'
    BY <1>1, <1>3, <1>5 DEF IInv, AskInv, Draining
  <1>7. (Writes /\ accepted < MaxWrites) \/ UNCHANGED <<live, accepted>>
    BY DEF Launch
  <1> QED BY <1>1, <1>3, <1>4, <1>6, <1>7, WorkMoves

-----------------------------------------------------------------------------
(* The process's side of a call. *)

(* While a call is served the command is at none of the steps that know there is none. *)
LEMMA Serving ==
    ASSUME IInv, ask # NoAsk
    PROVE  srv # NoServer /\ root \notin {"rehearse", "checkpoint", "stop"} \cup Off
  BY DEF IInv, ServerInv, RootInv, Off

(* The row of a call at a new point. *)
LEMMA Stepped ==
    ASSUME NEW at \in {"closing", "draining", "pausing", "capturing", "opening", "waiting", "ok", "refused"},
           ask \in AskRows, Step(at)
    PROVE  ask' \in AskRows /\ ask'.call = ask.call /\ ask'.digest = ask.digest /\ ask'.at = at
  BY DEF Step, AskRows

(* A call that is refused, times out or finds its work done changes the call alone. *)
LEMMA AnswerSteps == IInv /\ (Refuse \/ AlreadyDone \/ AbortFails) => IInv'
  <1> SUFFICES ASSUME IInv, Refuse \/ AlreadyDone \/ AbortFails PROVE IInv'
    OBVIOUS
  <1>1. UNCHANGED <<current, op, srv, wanted, root, held>> /\ SameData /\ Counted
    BY UpdateAssumption
    DEF IInv, UpdateType, Refuse, AlreadyDone, AbortFails, Fault, SameData, Counted, cmdVars, dataVars, countVars
  <1>2. ask # NoAsk
    BY DEF Refuse, AlreadyDone, AbortFails, Serves, NoAsk
  <1>3. PICK at \in {"ok", "refused"} : Step(at) /\ (at = "ok" => ask.call # "enter")
    BY DEF Refuse, AlreadyDone, AbortFails
  <1>4. ask' \in AskRows /\ ask'.call = ask.call /\ ask'.at = at
    BY <1>3, Stepped DEF IInv, UpdateType
  <1>5. AskInv'
    BY <1>1, <1>3, <1>4 DEF IInv, AskInv, Draining
  <1>6. RootInv'
    BY <1>1, <1>2, Serving DEF IInv, RootInv, Off
  <1> QED BY <1>1, <1>2, <1>4, <1>5, <1>6, CallMoves, Serving DEF IInv, UpdateType

(* An answer nobody waits for leaves the process free for the next call. *)
LEMMA DropStep == IInv /\ AnswerDropped => IInv'
  <1> SUFFICES ASSUME IInv, AnswerDropped PROVE IInv'
    OBVIOUS
  <1>1. UNCHANGED <<current, op, srv, wanted, root, held>> /\ SameData /\ Counted /\ ask' = NoAsk
    BY DEF IInv, UpdateType, AnswerDropped, SameData, Counted, cmdVars, dataVars, countVars
  <1>2. NoAsk \in AskRows
    BY DEF NoAsk, AskRows
  <1>3. AskInv'
    BY <1>1 DEF AskInv, NoAsk
  <1>4. RootInv'
    BY <1>1 DEF IInv, RootInv, SameData, Matches
  <1> QED BY <1>1, <1>2, <1>3, <1>4, CallMoves DEF IInv, UpdateType

(* The process closes or opens itself as the call moves on. *)
LEMMA ServiceMoves ==
    ASSUME IInv, ask # NoAsk, SameReceipt, UNCHANGED <<current, root, held, wanted>>,
           UNCHANGED <<live, saved, aside, journal, accepted>>, astray' \in BOOLEAN, Counted, ask' \in AskRows,
           srv' \in SrvRows, srv'.rel = srv.rel, srv'.fence = "active" => ~srv'.adm /\ ~srv'.begun,
           srv'.base => srv'.begun, AskInv', QuietInv', WriteInv'
    PROVE  IInv'
  <1>1. UpdateType'
    BY DEF IInv, UpdateType, SameReceipt, Counted
  <1>2. ServerInv'
    <2>1. srv' # NoServer /\ srv'.rel = current' /\ srv'.rel # 0 /\ journal' \in {"none", "complete"}
      BY Running, Serving DEF NoServer
    <2> QED BY <2>1, Running, Serving DEF ServerInv, SameReceipt
  <1>3. RootInv'
    BY Serving DEF IInv, RootInv, Off, SameReceipt
  <1> QED BY <1>1, <1>2, <1>3, Frames DEF IInv

(* enter_maintenance closes one thing after the other and reopens none. *)
LEMMA EnterSteps == IInv /\ enter_maintenance /\ ask.at # "capturing" => IInv'
  <1> SUFFICES ASSUME IInv, enter_maintenance, ask.at # "capturing" PROVE IInv'
    OBVIOUS
  <1>1. /\ UNCHANGED <<op, current, root, held, wanted>> /\ SameReceipt /\ SameData /\ Counted
        /\ ask # NoAsk /\ ask.call = "enter" /\ astray' \in BOOLEAN
    BY DEF IInv, UpdateType, enter_maintenance, SameReceipt, SameData, Counted, cmdVars, countVars, NoAsk
  <1>2. WriteInv'
    BY <1>1, Frames DEF IInv
  <1>3. \E at \in {"closing", "draining", "pausing", "capturing"} : Step(at)
    BY DEF enter_maintenance
  <1>4. ask' \in AskRows /\ ask'.call = "enter" /\ ask'.digest = ask.digest
    BY <1>1, <1>3, Stepped DEF IInv, UpdateType
  <1>5. CASE ask.at = "begin"
    <2>1. /\ op.state = "maintenance_closing" /\ srv.base /\ ask.digest = op /\ ask'.at = "closing"
          /\ srv' = [srv EXCEPT !.adm = FALSE]
      BY <1>1, <1>5, Stepped DEF IInv, UpdateType, enter_maintenance, Fits
    <2>2. /\ srv' \in SrvRows /\ srv'.rel = srv.rel /\ srv'.fence = srv.fence /\ srv'.begun = srv.begun
          /\ ~srv'.adm /\ srv'.base = srv.base
      BY <2>1 DEF IInv, UpdateType, SrvRows
    <2>3. AskInv'
      BY <1>4, <2>1, <2>2 DEF IInv, ServerInv, AskInv, Draining
    <2>4. QuietInv'
      BY <1>1, <2>1 DEF QuietInv, OnTrial, Captured, Restoring
    <2> QED BY <1>1, <1>2, <1>4, <2>2, <2>3, <2>4, ServiceMoves DEF IInv, ServerInv, SameData
  <1>6. CASE ask.at = "closing"
    <2>1. ~srv.busy /\ ask'.at = "draining" /\ srv' = [srv EXCEPT !.bg = FALSE]
      BY <1>1, <1>6, Stepped DEF IInv, UpdateType, enter_maintenance
    <2>2. /\ srv' \in SrvRows /\ srv'.rel = srv.rel /\ srv'.fence = srv.fence /\ srv'.begun = srv.begun
          /\ srv'.adm = srv.adm /\ srv'.base = srv.base /\ ~srv'.bg /\ srv'.busy = srv.busy /\ srv'.own = srv.own
          /\ srv'.launch = srv.launch
      BY <2>1 DEF IInv, UpdateType, SrvRows
    <2>3. AskInv'
      BY <1>1, <1>4, <1>6, <2>1, <2>2 DEF IInv, ServerInv, AskInv, Draining
    <2>4. QuietInv'
      BY <1>1, <2>2 DEF IInv, QuietInv, OnTrial, Quiet, SameData
    <2> QED BY <1>1, <1>2, <1>4, <2>2, <2>3, <2>4, ServiceMoves DEF IInv, ServerInv, SameData
  <1>7. CASE ask.at = "draining"
    <2>1. ask'.at = "pausing" /\ srv' = srv
      BY <1>1, <1>7, Stepped DEF IInv, UpdateType, enter_maintenance
    <2>2. AskInv'
      BY <1>1, <1>4, <1>7, <2>1 DEF IInv, ServerInv, AskInv, Draining
    <2>3. QuietInv'
      BY <1>1, <2>1 DEF IInv, QuietInv, OnTrial, Quiet, SameData
    <2> QED BY <1>1, <1>2, <1>4, <2>1, <2>2, <2>3, ServiceMoves DEF IInv, UpdateType, ServerInv, SameData
  <1>8. CASE ask.at = "pausing"
    <2>1. srv.launch # "passed" /\ ask'.at = "capturing" /\ srv' = [srv EXCEPT !.own = FALSE]
      BY <1>1, <1>8, Stepped DEF IInv, UpdateType, enter_maintenance
    <2>2. /\ srv' \in SrvRows /\ srv'.rel = srv.rel /\ srv'.fence = srv.fence /\ srv'.begun = srv.begun
          /\ srv'.adm = srv.adm /\ srv'.base = srv.base /\ srv'.bg = srv.bg /\ srv'.busy = srv.busy /\ ~srv'.own
          /\ srv'.launch = srv.launch
      BY <2>1 DEF IInv, UpdateType, SrvRows
    <2>3. AskInv'
      BY <1>1, <1>4, <1>8, <2>1, <2>2 DEF IInv, ServerInv, AskInv, Draining
    <2>4. QuietInv'
      BY <1>1, <2>2 DEF IInv, QuietInv, OnTrial, Quiet, SameData
    <2> QED BY <1>1, <1>2, <1>4, <2>2, <2>3, <2>4, ServiceMoves DEF IInv, ServerInv, SameData
  <1> QED BY <1>5, <1>6, <1>7, <1>8 DEF enter_maintenance

(* What a served call records in the receipt never takes a decision back, and finds the
   command at no step that relies on the receipt it has read. *)
LEMMA ServiceRecords ==
    ASSUME IInv, ask # NoAsk, UNCHANGED <<current, root, held>>,
           op'.state # "maintenance_closing", op.state \in Chose => op'.state \in Chose
    PROVE  RootInv'
  BY Serving DEF IInv, RootInv, Off

(* The receipt with a new state. *)
LEMMA Recorded ==
    ASSUME NEW state \in States, op \in OpRows, op' = [op EXCEPT !.state = state]
    PROVE  op' \in OpRows /\ op'.state = state /\ op'.base = op.base /\ op'.cand = op.cand /\ op'.ckpt = op.ckpt
  BY DEF OpRows

(* The capture: gates closed, owners joined, no worker left. *)
LEMMA CaptureStep == IInv /\ enter_maintenance /\ ask.at = "capturing" => IInv'
  <1> SUFFICES ASSUME IInv, enter_maintenance, ask.at = "capturing" PROVE IInv'
    OBVIOUS
  <1>1. /\ UNCHANGED <<current, root, held, wanted, srv, live, accepted, astray, faults, crashes>>
        /\ ask.call = "enter" /\ ask # NoAsk /\ srv.launch # "running" /\ aside' = {} /\ journal' = "none"
        /\ saved' = [r \in Roots |-> [live[r] EXCEPT !.used = FALSE]]
        /\ op = ask.digest /\ op' = [op EXCEPT !.state = "maintenance_closed"] /\ Step("ok")
    BY DEF enter_maintenance, Advanced, cmdVars, countVars, NoAsk
  <1>2. /\ op' \in OpRows /\ op'.state = "maintenance_closed" /\ op'.base = op.base /\ op'.cand = op.cand
        /\ op'.ckpt = op.ckpt
    BY <1>1, Recorded, Transitions DEF IInv, UpdateType
  <1>3. ask' \in AskRows /\ ask'.call = "enter" /\ ask'.at = "ok"
    BY <1>1, Stepped DEF IInv, UpdateType
  <1>4. op.state = "maintenance_closing" /\ Quiet
    BY <1>1 DEF IInv, UpdateType, SrvRows, AskInv, Draining, Quiet
  <1>5. /\ saved' \in [Roots -> DataRows]
        /\ \A r \in Roots : saved'[r].fmt = live[r].fmt /\ saved'[r].w = live[r].w
    BY <1>1 DEF IInv, UpdateType, DataRows
  <1>6. srv # NoServer /\ journal \in {"none", "complete"} /\ \A r \in Roots : live[r].fmt # 0
    BY <1>1, Serving, Running
  <1>7. UpdateType'
    BY <1>1, <1>2, <1>3, <1>5 DEF IInv, UpdateType
  <1>8. PointerInv'
    BY <1>1, <1>2, <1>4 DEF IInv, PointerInv
  <1>9. ServerInv'
    BY <1>1, <1>2, <1>6 DEF IInv, ServerInv
  <1>10. AskInv'
    BY <1>2, <1>3 DEF AskInv, Draining
  <1>11. RootInv'
    BY <1>1, <1>2, <1>4, ServiceRecords DEF Chose, Reopening
  <1>12. DataInv'
    <2>1. live'[DataRoot].fmt <= current' /\ saved'[DataRoot].fmt <= op'.base
      BY <1>1, <1>2, <1>4, <1>5, UpdateAssumption DEF IInv, DataInv, PointerInv
    <2> QED BY <1>1, <1>5, <1>6, <2>1 DEF DataInv
  <1>13. WriteInv'
    BY <1>1, <1>5, <1>6, UpdateAssumption DEF IInv, WriteInv
  <1>14. QuietInv'
    BY <1>1, <1>4 DEF QuietInv, Quiet
  <1> QED BY <1>7, <1>8, <1>9, <1>10, <1>11, <1>12, <1>13, <1>14 DEF IInv

(* A fenced process is verified: the receipt moves on within the trial. *)
LEMMA VerifyStep == IInv /\ verify_running_release => IInv'
  <1> SUFFICES ASSUME IInv, verify_running_release PROVE IInv'
    OBVIOUS
  <1>1. /\ UNCHANGED <<current, root, held, wanted, srv>> /\ SameData /\ Counted
        /\ ask.call = "verify" /\ ask # NoAsk /\ Step("ok") /\ Fits
    BY DEF IInv, UpdateType, verify_running_release, Serves, cmdVars, dataVars, countVars, NoAsk, SameData, Counted
  <1>2. op.state \in Verifiable /\ srv.rel = expected_running_commit(op)
    BY <1>1 DEF Fits
  <1>3. PICK state : /\ state = IF srv.rel = op.cand THEN "candidate_verified" ELSE "old_release_verified"
                     /\ op' = [op EXCEPT !.state = state]
    BY DEF verify_running_release, Advanced
  <1>4. srv # NoServer /\ srv.rel = current
    BY <1>1, Serving, Running
  <1>5. /\ op' \in OpRows /\ op'.state = state /\ op'.base = op.base /\ op'.cand = op.cand /\ op'.ckpt = op.ckpt
    BY <1>3, Recorded, Transitions DEF IInv, UpdateType
  <1>6. ask' \in AskRows /\ ask'.call = "verify" /\ ask'.at = "ok"
    BY <1>1, Stepped DEF IInv, UpdateType
  <1>7. /\ op.state \in OnTrialStates /\ op.state \in Captured /\ op.state \notin Restoring
        /\ op'.state \in OnTrialStates /\ op'.state \in Captured /\ op'.state \notin Restoring
    BY <1>2, <1>3, <1>5 DEF Verifiable, OnTrialStates, Captured, Restoring
  <1>8. UpdateType'
    BY <1>1, <1>5, <1>6 DEF IInv, UpdateType, SameData, Counted
  <1>9. PointerInv'
    BY <1>1, <1>3, <1>4, <1>5 DEF IInv, PointerInv
  <1>10. ServerInv'
    BY <1>1, <1>3, <1>4, <1>5 DEF IInv, ServerInv, SameData
  <1>11. AskInv'
    BY <1>6 DEF AskInv
  <1>12. RootInv'
    BY <1>1, <1>2, <1>3, <1>5, ServiceRecords DEF Chose, Reopening, Verifiable
  <1>13. DataInv'
    BY <1>1, <1>5, <1>7 DEF IInv, DataInv, SameData
  <1>14. WriteInv'
    BY <1>1, <1>7 DEF IInv, WriteInv, SameData
  <1>15. QuietInv'
    BY <1>1, <1>7 DEF IInv, QuietInv, Quiet, OnTrial, OnTrialStates, SameData
  <1> QED BY <1>8, <1>9, <1>10, <1>11, <1>12, <1>13, <1>14, <1>15 DEF IInv

(* A receipt in which the choice is recorded no longer constrains the process or the
   checkpoint. *)
LEMMA ChoiceRecorded ==
    ASSUME IInv, ask # NoAsk, UNCHANGED <<current, root, held, wanted>>, SameData, Counted,
           op' \in OpRows, op'.state \in Chose, op'.base = op.base, op'.cand = op.cand,
           Chosen(op)' = current, ask' \in AskRows, AskInv',
           srv' \in SrvRows, srv'.rel = srv.rel, srv'.fence = "active" => ~srv'.adm /\ ~srv'.begun,
           srv'.base => srv'.begun
    PROVE  IInv'
  <1>1. UpdateType'
    BY DEF IInv, UpdateType, SameData, Counted
  <1>2. PointerInv'
    BY DEF IInv, PointerInv, Chosen, Chose, Reopening
  <1>3. ServerInv'
    <2>1. srv' # NoServer /\ srv'.rel = current' /\ srv'.rel # 0 /\ journal' \in {"none", "complete"}
      BY Running, Serving DEF NoServer, SameData
    <2> QED BY <2>1 DEF ServerInv, Chose, Reopening
  <1>4. RootInv'
    BY ServiceRecords DEF Chose, Reopening
  <1>5. DataInv'
    <2>1. op'.state \notin Captured
      BY DEF Chose, Reopening, Captured, Restoring
    <2>2. journal' \in {"none", "complete"}
      BY Running, Serving DEF SameData
    <2> QED BY <2>1, <2>2 DEF IInv, DataInv, SameData
  <1>6. WriteInv' /\ QuietInv'
    <2>1. op'.state \notin Captured /\ ~OnTrial'
      BY DEF Chose, Reopening, Captured, Restoring, OnTrial
    <2> QED BY <2>1 DEF IInv, WriteInv, QuietInv, SameData
  <1> QED BY <1>1, <1>2, <1>3, <1>4, <1>5, <1>6 DEF IInv

(* The process opened as far as it does not wait, and after the wait. *)
LEMMA Opened ==
    ASSUME IInv, OpensRuntime \/ (srv.begun /\ srv' = [srv EXCEPT !.adm = TRUE])
    PROVE  /\ srv' \in SrvRows /\ srv'.rel = srv.rel /\ srv'.begun = srv.begun /\ srv'.base = srv.base
           /\ srv'.fence = "active" => ~srv'.adm /\ ~srv'.begun
  <1> srv \in SrvRows /\ (srv.fence = "active" => ~srv.adm /\ ~srv.begun)
    BY DEF IInv, UpdateType, ServerInv
  <1>1. CASE srv.begun /\ srv' = [srv EXCEPT !.adm = TRUE]
    BY <1>1 DEF SrvRows
  <1>2. CASE srv' = [srv EXCEPT !.bg = TRUE, !.adm = TRUE, !.own = TRUE] /\ srv.fence = "none"
    BY <1>2 DEF SrvRows
  <1>3. CASE srv' = [srv EXCEPT !.bg = TRUE, !.fence = "open"]
    BY <1>3 DEF SrvRows
  <1> QED BY <1>1, <1>2, <1>3 DEF OpensRuntime

(* release_fence records the choice, then opens, then records that it is open. *)
LEMMA ReleaseSteps == IInv /\ (release_fence \/ ReleaseTimesOut) => IInv'
  <1> SUFFICES ASSUME IInv, release_fence \/ ReleaseTimesOut PROVE IInv'
    OBVIOUS
  <1>1. /\ UNCHANGED <<current, root, held, wanted>> /\ SameData /\ Counted
        /\ ask.call = "release" /\ ask # NoAsk
    BY UpdateAssumption
    DEF IInv, UpdateType, release_fence, ReleaseTimesOut, Serves, Fault, cmdVars, dataVars, countVars, NoAsk, SameData, Counted
  <1>2. srv # NoServer /\ srv.rel = current
    BY <1>1, Serving, Running
  <1>3. /\ srv \in SrvRows /\ op \in OpRows /\ ask \in AskRows
        /\ srv.fence = "active" => ~srv.adm /\ ~srv.begun
        /\ srv.base => srv.begun
    BY DEF IInv, UpdateType, ServerInv
  <1>4. ASSUME ask.at = "begin", Fits, ~Terminal, Advanced(ask.digest, Reopens), UNCHANGED srv,
               ask' = [ask EXCEPT !.at = "opening", !.digest = op']
        PROVE  IInv'
    <2>1. PICK state : state = Reopens
      OBVIOUS
    <2>2. op.state \in Releasable
      BY <1>1, <1>4 DEF Fits, Terminal, TERMINAL_UPDATE_STATES
    <2>3. /\ state \in Reopening
          /\ state = "candidate_reopening" <=> op.state \in {"candidate_verified", "candidate_reopening"}
      BY <2>1 DEF Reopens, Reopening
    <2>4. /\ op' \in OpRows /\ op'.state = state /\ op'.base = op.base /\ op'.cand = op.cand /\ op'.ckpt = op.ckpt
      <3>1. op' = [op EXCEPT !.state = state]
        BY <1>4, <2>1 DEF Advanced
      <3>2. state \in States
        BY <2>3, Transitions DEF Reopening
      <3> QED BY <1>3, <3>1, <3>2, Recorded
    <2>5. ask' \in AskRows /\ ask'.call = "release" /\ ask'.at = "opening"
      BY <1>1, <1>3, <1>4, <2>4 DEF AskRows
    <2>6. AskInv'
      BY <2>3, <2>4, <2>5 DEF AskInv, Chose
    <2>7. Chosen(op)' = current
      BY <2>2, <2>3, <2>4 DEF IInv, PointerInv, Chosen, Reopening, Releasable
    <2> QED BY <1>1, <1>3, <1>4, <2>3, <2>4, <2>5, <2>6, <2>7, ChoiceRecorded DEF Chose
  <1>5. ASSUME ask.at \in {"opening", "waiting"} PROVE op.state \in Chose /\ Chosen(op) = current
    <2>1. op.state \in Chose
      BY <1>1, <1>5 DEF IInv, AskInv
    <2> QED BY <2>1 DEF IInv, PointerInv, Chosen, Chose, Reopening
  <1>6. ASSUME ask.at = "opening", OpensRuntime, Step("waiting"), UNCHANGED op
        PROVE  IInv'
    <2>1. ask' \in AskRows /\ ask'.call = "release" /\ ask'.at = "waiting"
      BY <1>1, <1>3, <1>6, Stepped
    <2>2. AskInv'
      BY <1>5, <1>6, <2>1 DEF AskInv
    <2> QED BY <1>1, <1>3, <1>5, <1>6, <2>1, <2>2, Opened, ChoiceRecorded DEF Chosen
  <1>7. ASSUME ask.at = "waiting", NEW at \in {"ok", "refused"}, Step(at),
               \/ op' = [op EXCEPT !.state = Decided(op), !.bad = FALSE]
               \/ op' = [op EXCEPT !.bad = TRUE]
               \/ op' = op,
               (srv.begun /\ srv' = [srv EXCEPT !.adm = TRUE]) \/ srv' = srv
        PROVE  IInv'
    <2>1. ask' \in AskRows /\ ask'.call = "release" /\ ask'.at = at
      BY <1>1, <1>3, <1>7, Stepped
    <2>2. AskInv'
      BY <2>1 DEF AskInv, Draining
    <2>3. Decided(op) \in {"committed", "rolled_back"} /\ Decided(op) \in States
      BY Transitions DEF Decided
    <2>4. /\ op' \in OpRows /\ op'.base = op.base /\ op'.cand = op.cand
          /\ op'.state \in {op.state, Decided(op)}
      BY <1>3, <1>7, <2>3 DEF OpRows
    <2>5. op'.state \in Chose /\ Chosen(op)' = current
      BY <1>5, <1>7, <2>3, <2>4 DEF Chosen, Decided, Chose, Reopening
    <2> QED BY <1>1, <1>3, <1>7, <2>1, <2>2, <2>4, <2>5, Opened, ChoiceRecorded
  <1>8. CASE release_fence
    <2>1. CASE ask.at = "begin"
      BY <1>4, <1>8, <2>1 DEF release_fence
    <2>2. CASE ask.at = "opening"
      BY <1>6, <1>8, <2>2 DEF release_fence
    <2>3. CASE ask.at = "waiting"
      BY <1>7, <1>8, <2>3 DEF release_fence, RuntimeOpened
    <2> QED BY <1>8, <2>1, <2>2, <2>3 DEF release_fence
  <1>9. CASE ReleaseTimesOut
    BY <1>7, <1>9 DEF ReleaseTimesOut, Serves
  <1> QED BY <1>8, <1>9

(* abort_before_switch opens the old release, which is astray until that is recorded. *)
LEMMA AbortSteps == IInv /\ abort_before_switch => IInv'
  <1> SUFFICES ASSUME IInv, abort_before_switch PROVE IInv'
    OBVIOUS
  <1>1. /\ UNCHANGED <<current, root, held, wanted, live, saved, aside, journal, accepted>> /\ Counted
        /\ ask.call = "abort" /\ ask # NoAsk
    BY DEF IInv, UpdateType, abort_before_switch, cmdVars, dataVars, countVars, NoAsk, Counted
  <1>2. /\ srv # NoServer /\ srv.rel = current /\ journal \in {"none", "complete"}
        /\ ~(op.state = "checkpoint_ready" /\ current = op.cand)
        /\ \A r \in Roots : live[r].fmt # 0
    BY <1>1, Serving, Running
  <1>3. /\ op \in OpRows /\ ask \in AskRows /\ astray \in BOOLEAN
        /\ srv.base => srv.begun
    BY DEF IInv, UpdateType, ServerInv
  <1>4. CASE ask.at = "begin"
    <2>1. op.state \in BeforeSwitch /\ OpensRuntime /\ astray' = TRUE /\ Step("waiting") /\ UNCHANGED op
      BY <1>1, <1>4 DEF abort_before_switch, Fits, Terminal, TERMINAL_UPDATE_STATES
    <2>2. ask' \in AskRows /\ ask'.call = "abort" /\ ask'.at = "waiting"
      BY <1>1, <1>3, <2>1, Stepped
    <2>3. AskInv'
      BY <2>1, <2>2 DEF AskInv
    <2>4. QuietInv' /\ WriteInv'
      BY <1>1, <2>1 DEF IInv, QuietInv, WriteInv, OnTrial, BeforeSwitch
    <2> QED BY <1>1, <1>3, <2>1, <2>2, <2>3, <2>4, Opened, ServiceMoves DEF SameReceipt
  <1>5. CASE ask.at = "waiting"
    <2>1. srv.begun /\ srv' = [srv EXCEPT !.adm = TRUE]
      BY <1>5 DEF abort_before_switch, RuntimeOpened
    <2>2. astray /\ op.state \in BeforeSwitch \cup {"repair_required", "aborted_before_switch"}
      BY <1>1, <1>5 DEF IInv, AskInv
    <2>3. CASE op = ask.digest
      <3>1. /\ op' = [op EXCEPT !.state = "aborted_before_switch"] /\ Step("ok") /\ astray' = (live[DataRoot].w # accepted)
            /\ "aborted_before_switch" = op.state \/ "aborted_before_switch" \in _ALLOWED_TRANSITIONS[op.state]
        BY <1>5, <2>3 DEF abort_before_switch, Advanced
      <3>2. op.state \in BeforeSwitch \cup {"aborted_before_switch"}
        BY <1>3, <3>1, Transitions DEF OpRows
      <3>3. /\ op' \in OpRows /\ op'.state = "aborted_before_switch" /\ op'.base = op.base /\ op'.cand = op.cand
            /\ op'.ckpt = op.ckpt
        BY <1>3, <3>1, Recorded, Transitions
      <3>4. ask' \in AskRows /\ ask'.call = "abort" /\ ask'.at = "ok"
        BY <1>1, <1>3, <3>1, Stepped
      <3>5. UpdateType'
        BY <1>1, <2>1, <3>1, <3>3, <3>4, Opened DEF IInv, UpdateType, Counted
      <3>6. PointerInv'
        BY <1>1, <1>2, <3>2, <3>3 DEF IInv, PointerInv, BeforeSwitch
      <3>7. ServerInv'
        <4>1. srv' # NoServer /\ srv'.rel = current' /\ srv'.rel # 0
          BY <1>1, <1>2, <2>1, Opened, Running DEF NoServer
        <4> QED BY <1>1, <1>2, <1>3, <2>1, <3>3, <4>1, Opened DEF ServerInv
      <3>8. AskInv'
        BY <3>4 DEF AskInv
      <3>9. RootInv'
        BY <1>1, <3>2, <3>3, ServiceRecords DEF Chose, Reopening, BeforeSwitch
      <3>10. op'.state \notin Captured /\ ~OnTrial'
        BY <3>3 DEF Captured, Restoring, OnTrial
      <3>11. DataInv'
        BY <1>1, <1>2, <3>3, <3>10 DEF IInv, DataInv
      <3>12. WriteInv'
        BY <1>1, <1>2, <3>1, <3>10 DEF IInv, WriteInv
      <3>13. QuietInv'
        BY <3>10 DEF QuietInv
      <3> QED BY <3>5, <3>6, <3>7, <3>8, <3>9, <3>11, <3>12, <3>13 DEF IInv
    <2>4. CASE op # ask.digest
      <3>1. Step("refused") /\ UNCHANGED <<op, astray>>
        BY <1>5, <2>4 DEF abort_before_switch
      <3>2. ask' \in AskRows /\ ask'.call = "abort" /\ ask'.at = "refused"
        BY <1>1, <1>3, <3>1, Stepped
      <3>3. AskInv'
        BY <3>2 DEF AskInv
      <3>4. QuietInv' /\ WriteInv'
        BY <1>1, <2>2, <3>1 DEF IInv, QuietInv, WriteInv, OnTrial, BeforeSwitch
      <3> QED BY <1>1, <1>3, <2>1, <3>1, <3>2, <3>3, <3>4, Opened, ServiceMoves DEF SameReceipt
    <2> QED BY <2>3, <2>4
  <1> QED BY <1>4, <1>5 DEF abort_before_switch

-----------------------------------------------------------------------------
(* The command. *)

(* A call is sent to the process the receipt expects, and its answer moves the command. *)
LEMMA AskSteps == IInv /\ (SendAsk \/ Receives) => IInv'
  <1>1. ASSUME IInv, SendAsk PROVE IInv'
    <2>1. UNCHANGED <<current, op, srv, wanted, root, held>> /\ SameData /\ Counted /\ root \in DOMAIN Calls
      BY <1>1 DEF IInv, UpdateType, SendAsk, SameData, Counted, cmdVars, dataVars, countVars
    <2>2. srv # NoServer /\ held \in OpRows
      BY <1>1 DEF IInv, UpdateType, SendAsk, Reachable, NoServer
    <2>3. PICK call \in {"enter", "verify", "release", "abort"} : call = Calls[root]
      BY <2>1, CallTable
    <2>4. ask' \in AskRows /\ ask'.at = "begin"
      BY <1>1, <2>2, <2>3 DEF SendAsk, AskRows
    <2>5. AskInv'
      BY <2>4 DEF AskInv, Draining
    <2>6. RootInv'
      BY <1>1, <2>1, CallTable DEF IInv, RootInv, Off
    <2> QED BY <1>1, <2>1, <2>2, <2>4, <2>5, <2>6, CallMoves
  <1>2. ASSUME IInv, Receives PROVE IInv'
    <2>1. /\ UNCHANGED <<current, op, srv, wanted>> /\ SameData /\ Counted /\ root \in DOMAIN Calls
          /\ ask' = NoAsk /\ held' = op /\ held' \in OpRows /\ ask.call = Calls[root]
          /\ root' = IF ask.at = "ok" THEN Answered[root] ELSE OnFailure(root)
      BY <1>2 DEF IInv, UpdateType, Receives, SameData, Counted, dataVars, countVars, Goto
    <2>2. NoAsk \in AskRows
      BY DEF NoAsk, AskRows
    <2>3. AskInv'
      BY <2>1 DEF AskInv, NoAsk
    <2>4. /\ root' \in {"rehearse", "release", "idle", "rb_release", "reopen", "settle", "rb_failed", "abort_failed", "halt"}
          /\ root' \notin Early => op.state # "maintenance_closing"
      <3>1. CASE root = "enter"
        <4>1. ask.call = "enter"
          BY <2>1, <3>1, CallTable
        <4>2. ask.at = "ok" => op.state # "maintenance_closing" /\ root' = "rehearse"
          BY <1>2, <2>1, <3>1, <4>1 DEF IInv, AskInv, Answered
        <4>3. ask.at # "ok" => root' = "reopen"
          BY <2>1, <3>1 DEF OnFailure
        <4> QED BY <4>2, <4>3 DEF Early
      <3>2. CASE root # "enter"
        <4>1. ask.at = "ok" => root' \in {"release", "idle", "rb_release"}
          BY <2>1, <3>2, CallTable
        <4>2. ask.at # "ok" => root' \in {"settle", "rb_failed", "abort_failed", "halt"}
          BY <2>1, <3>2, CallTable DEF OnFailure
        <4>3. root \in {"abort", "re_abort"} => root' \in Early
          BY <2>1, CallTable DEF OnFailure, Answered, Early
        <4>4. root \notin {"abort", "re_abort"} => op.state # "maintenance_closing"
          BY <1>2, <2>1, <3>2, CallTable DEF IInv, RootInv, Early
        <4> QED BY <4>1, <4>2, <4>3, <4>4
      <3> QED BY <3>1, <3>2
    <2>5. RootInv'
      BY <2>1, <2>4 DEF RootInv, Off, Repairing, Early
    <2> QED BY <1>2, <2>1, <2>2, <2>3, <2>5, CallMoves
  <1> QED BY <1>1, <1>2

(* Steps that only move the command on. *)
LEMMA MovingSteps ==
    IInv /\ (final_rehearsal \/ start_service \/ RollbackCheck \/ RepairCheck \/ RepairProbe \/ settle) => IInv'
  <1> SUFFICES ASSUME IInv, final_rehearsal \/ start_service \/ RollbackCheck \/ RepairCheck \/ RepairProbe \/ settle
               PROVE  IInv'
    OBVIOUS
  <1>1. /\ UNCHANGED <<current, srv, ask>> /\ SameData /\ Counted
    BY DEF IInv, UpdateType, final_rehearsal, start_service, RollbackCheck, RepairCheck, RepairProbe, settle, Untouched,
           SameData, Counted, dataVars, countVars
  <1>2. op \in OpRows /\ held \in OpRows /\ wanted \in BOOLEAN
    BY DEF IInv, UpdateType
  <1>3. CASE final_rehearsal
    <2>1. root = "rehearse" /\ root' = "checkpoint" /\ UNCHANGED <<op, held, wanted>> /\ held.state = "maintenance_closed"
      BY <1>3 DEF final_rehearsal, At, Goto
    <2>2. RootInv'
      BY <1>1, <2>1 DEF IInv, RootInv, Off, Repairing, Early
    <2> QED BY <1>1, <1>2, <2>1, <2>2, CommandMoves DEF SameReceipt
  <1>4. CASE start_service
    <2>1. /\ UNCHANGED <<op, held>> /\ wanted' \in BOOLEAN
          /\ root \in {"start", "re_start", "rb_start", "rp_start", "reopen"}
          /\ root' = AfterStart[root]
      BY <1>4 DEF start_service, AfterStart, Goto, At
    <2>2. /\ root' \in {"verify", "re_abort", "rb_verify", "rp_probe", "abort"}
          /\ root \in {"re_start", "reopen"} => root' \in Early
          /\ root' = "rp_probe" => root = "rp_start"
      BY <2>1 DEF AfterStart, Early
    <2>3. RootInv'
      BY <1>1, <2>1, <2>2 DEF IInv, RootInv, Off, Repairing, Early
    <2> QED BY <1>1, <1>2, <2>1, <2>3, CommandMoves DEF SameReceipt
  <1>5. CASE RollbackCheck
    <2>1. root = "rb_check" /\ root' \in {"rb_start", "rb_failed"} /\ UNCHANGED <<op, held, wanted>>
      BY <1>5 DEF RollbackCheck, At, Goto
    <2>2. RootInv'
      BY <1>1, <2>1 DEF IInv, RootInv, Off, Repairing, Early
    <2> QED BY <1>1, <1>2, <2>1, <2>2, CommandMoves DEF SameReceipt
  <1>6. CASE RepairCheck
    <2>1. root = "rp_check" /\ root' \in {"rp_stop", "idle"} /\ UNCHANGED <<op, wanted>> /\ held' = op
      BY <1>6 DEF RepairCheck, At, Goto
    <2>2. RootInv'
      BY <1>1, <2>1 DEF IInv, RootInv, Off, Repairing, Early
    <2> QED BY <1>1, <1>2, <2>1, <2>2, CommandMoves DEF SameReceipt
  <1>7. CASE RepairProbe
    <2>1. root' = "idle" /\ UNCHANGED wanted /\ held' = op' /\ op' = [op EXCEPT !.bad = FALSE]
      BY <1>7 DEF RepairProbe, At, Goto
    <2>2. SameReceipt
      BY <1>2, <2>1 DEF SameReceipt, OpRows
    <2>3. RootInv'
      BY <2>1 DEF RootInv, Off, Repairing, Early
    <2> QED BY <1>1, <1>2, <2>1, <2>2, <2>3, CommandMoves DEF SameReceipt
  <1>8. CASE settle
    <2>1. root = "settle" /\ UNCHANGED wanted /\ held' = op'
      BY <1>8 DEF settle, At
    <2>2. SameReceipt
      BY <1>2, <1>8 DEF settle, SameReceipt, OpRows
    <2>3. root' = "rb_mark" \/ (root' = "rp_check" /\ op.state \in Chose)
      BY <1>8 DEF settle, Goto, Chose, Reopening
    <2>4. RootInv'
      BY <2>1, <2>2, <2>3 DEF IInv, RootInv, Off, Repairing, Early, SameReceipt
    <2> QED BY <1>1, <1>2, <2>1, <2>2, <2>4, CommandMoves DEF SameReceipt
  <1> QED BY <1>3, <1>4, <1>5, <1>6, <1>7, <1>8

(* Steps that leave no process, and the deaths. *)
LEMMA StoppingSteps ==
    IInv /\ (stop_service \/ Halt \/ RepairFailed \/ ProcessDies \/ CommandDies \/ MachineReboots) => IInv'
  <1> SUFFICES ASSUME IInv, stop_service \/ Halt \/ RepairFailed \/ ProcessDies \/ CommandDies \/ MachineReboots
               PROVE  IInv'
    OBVIOUS
  <1>1. UNCHANGED current /\ SameData /\ Counted
    BY UpdateAssumption
    DEF IInv, UpdateType, stop_service, Halt, RepairFailed, ProcessDies, CommandDies, MachineReboots, Crash, Untouched,
        SameData, Counted, dataVars, countVars
  <1>2. op \in OpRows /\ held \in OpRows /\ wanted \in BOOLEAN
    BY DEF IInv, UpdateType
  <1>3. CASE stop_service
    <2>1. /\ UNCHANGED <<op, held>> /\ wanted' = FALSE /\ srv' = NoServer /\ ask' = NoAsk
          /\ root \in {"stop", "rb_stop", "rp_stop", "re_stop", "rc_stop"}
      BY <1>3 DEF stop_service, Stopped, AfterStop
    <2>2. /\ root = "stop" => root' = "switch"
          /\ root = "rb_stop" => root' = "rb_check" \/ (root' = "rb_restore" /\ op.state \in Restoring)
          /\ root = "rp_stop" => root' = "rp_mark"
          /\ root = "re_stop" => root' = "re_start"
          /\ root = "rc_stop" => root' = "start"
      BY <1>3 DEF stop_service, AfterStop, Goto, At, Restoring
    <2>3. RootInv'
      BY <1>1, <2>1, <2>2 DEF IInv, RootInv, Off, Repairing, Early
    <2> QED BY <1>1, <1>2, <2>1, <2>3, ProcessGone DEF SameReceipt
  <1>4. CASE Halt
    <2>1. UNCHANGED <<op, held>> /\ wanted' = FALSE /\ srv' = NoServer /\ ask' = NoAsk /\ root' = "idle"
      BY <1>4 DEF Halt, Stopped, Goto
    <2>2. RootInv'
      BY <2>1 DEF RootInv, Off, Repairing, Early
    <2> QED BY <1>1, <1>2, <2>1, <2>2, ProcessGone DEF SameReceipt
  <1>5. CASE RepairFailed
    <2>1. /\ wanted' = FALSE /\ srv' = NoServer /\ ask' = NoAsk /\ root' = "idle"
          /\ op' = [op EXCEPT !.bad = TRUE] /\ held' = op'
      BY <1>5 DEF RepairFailed, Stopped, Goto
    <2>2. SameReceipt
      BY <1>2, <2>1 DEF SameReceipt, OpRows
    <2>3. RootInv'
      BY <2>1 DEF RootInv, Off, Repairing, Early
    <2> QED BY <1>1, <1>2, <2>1, <2>2, <2>3, ProcessGone DEF SameReceipt
  <1>6. CASE ProcessDies
    <2>1. UNCHANGED <<op, held, root, wanted>> /\ srv' = NoServer /\ ask' = NoAsk
      BY <1>6 DEF ProcessDies, cmdVars
    <2>2. RootInv'
      BY <1>1, <2>1 DEF IInv, RootInv, SameData, Matches
    <2> QED BY <1>1, <1>2, <2>1, <2>2, ProcessGone DEF SameReceipt
  <1>7. CASE CommandDies
    <2>1. UNCHANGED <<op, held, srv, ask, wanted>> /\ root' = "idle"
      BY <1>7 DEF CommandDies, Goto
    <2>2. RootInv'
      BY <2>1 DEF RootInv, Off, Repairing, Early
    <2> QED BY <1>1, <1>2, <2>1, <2>2, CommandMoves DEF SameReceipt
  <1>8. CASE MachineReboots
    <2>1. UNCHANGED <<op, held>> /\ srv' = NoServer /\ ask' = NoAsk /\ wanted' = TRUE /\ root' = "idle"
      BY <1>8 DEF MachineReboots, Goto
    <2>2. RootInv'
      BY <2>1 DEF RootInv, Off, Repairing, Early
    <2> QED BY <1>1, <1>2, <2>1, <2>2, ProcessGone DEF SameReceipt
  <1> QED BY <1>3, <1>4, <1>5, <1>6, <1>7, <1>8

(* A step that fails leaves the command on the failure's route; the switch may have
   happened all the same. *)
LEMMA FailStep == IInv /\ StepFails => IInv'
  <1> SUFFICES ASSUME IInv, StepFails PROVE IInv'
    OBVIOUS
  <1>1. /\ UNCHANGED <<op, wanted, srv, ask>> /\ SameData /\ Counted /\ held' = op /\ held' \in OpRows /\ SameReceipt
        /\ root' = OnFailure(root) /\ wanted' \in BOOLEAN /\ root # "settle"
    BY UpdateAssumption
    DEF IInv, UpdateType, StepFails, Fault, SameData, Counted, SameReceipt, dataVars, Goto
  <1>2. /\ root' \in {"reopen", "settle", "rb_failed", "rp_failed", "abort_failed", "halt", "re_start", "start", "idle"}
        /\ root' \notin Early => root \notin Early
        /\ root' = "rp_failed" => root \in Repairing
    <2>1. CASE root \in {"enter", "rehearse", "checkpoint", "stop", "switch", "reopen", "abort", "re_start", "re_mark",
                         "re_abort", "re_stop"}
      BY <1>1, <2>1 DEF OnFailure, Early
    <2>2. CASE root \in {"mark", "start", "verify", "release", "rb_mark", "rb_stop", "rb_restore", "rb_switch", "rb_advance",
                         "rb_start", "rb_verify", "rb_release", "rp_stop", "rp_mark", "rp_start", "rp_probe", "rc_stop"}
      BY <1>1, <2>2 DEF OnFailure, Early, Repairing
    <2>3. CASE root \notin {"enter", "rehearse", "checkpoint", "stop", "switch", "reopen", "abort", "re_start", "re_mark",
                            "re_abort", "re_stop", "mark", "start", "verify", "release", "rb_mark", "rb_stop", "rb_restore",
                            "rb_switch", "rb_advance", "rb_start", "rb_verify", "rb_release", "rp_stop", "rp_mark",
                            "rp_start", "rp_probe", "rc_stop"}
      BY <1>1, <2>3 DEF OnFailure, Early
    <2> QED BY <2>1, <2>2, <2>3
  <1>3. RootInv'
    BY <1>1, <1>2 DEF IInv, RootInv, Off, Repairing, Early
  <1>4. CASE current' = current
    BY <1>1, <1>3, <1>4, CommandMoves
  <1>5. CASE root = "switch" /\ current' = op.cand
    <2>1. srv = NoServer /\ op.state = "checkpoint_ready"
      BY <1>5 DEF IInv, RootInv, Off
    <2>2. UpdateType'
      BY <1>1, <1>5 DEF IInv, UpdateType, OpRows, SameData, Counted
    <2>3. PointerInv'
      BY <1>1, <1>5, <2>1 DEF IInv, PointerInv
    <2>4. ServerInv'
      BY <1>1, <2>1 DEF IInv, ServerInv, NoServer, SameData
    <2>5. DataInv'
      <3>1. op.base \in Nat /\ op.cand \in Nat /\ current \in Nat /\ live[DataRoot].fmt \in Nat
        BY UpdateAssumption DEF IInv, UpdateType, OpRows, DataRows, Releases
      <3>2. live[DataRoot].fmt <= op.cand
        BY <3>1 DEF IInv, PointerInv, DataInv
      <3> QED BY <1>1, <1>5, <3>2 DEF IInv, DataInv, SameData, Matches
    <2> QED BY <1>1, <1>3, <2>2, <2>3, <2>4, <2>5, Frames DEF IInv, SameData
  <1> QED BY <1>4, <1>5 DEF StepFails, At

(* The pointer moves while nothing runs; a newer release reads what the older has written. *)
LEMMA SwitchStep == IInv /\ switch_current => IInv'
  <1> SUFFICES ASSUME IInv, switch_current PROVE IInv'
    OBVIOUS
  <1>1. /\ UNCHANGED <<op, held, wanted, srv, ask>> /\ SameData /\ Counted /\ SameReceipt
        /\ root = "switch" /\ root' = "mark" /\ current = op.base /\ current' = op.cand
    BY DEF IInv, UpdateType, switch_current, Untouched, SameData, Counted, SameReceipt, dataVars, countVars, Goto, At
  <1>2. srv = NoServer /\ op.state = "checkpoint_ready" /\ ask = NoAsk /\ held = op /\ ~wanted
    BY <1>1 DEF IInv, RootInv, Off
  <1>3. UpdateType'
    BY <1>1 DEF IInv, UpdateType, OpRows, SameData, Counted
  <1>4. PointerInv'
    BY <1>1, <1>2 DEF IInv, PointerInv
  <1>5. ServerInv'
    BY <1>1, <1>2 DEF IInv, ServerInv, NoServer, SameData
  <1>6. DataInv'
    <2>1. op.base \in Nat /\ op.cand \in Nat /\ live[DataRoot].fmt \in Nat
      BY UpdateAssumption DEF IInv, UpdateType, OpRows, DataRows, Releases
    <2>2. live[DataRoot].fmt <= op.cand
      BY <1>1, <2>1 DEF IInv, PointerInv, DataInv
    <2> QED BY <1>1, <2>2 DEF IInv, DataInv, SameData, Matches
  <1>7. RootInv'
    BY <1>1, <1>2 DEF RootInv, Off, Repairing, Early
  <1> QED BY <1>1, <1>3, <1>4, <1>5, <1>6, <1>7, Frames DEF IInv, SameData

(* rcp server update: a new operation begins over an open runtime that has started. *)
LEMMA CommandStep == IInv /\ Command => IInv'
  <1> SUFFICES ASSUME IInv, Command PROVE IInv'
    OBVIOUS
  <1>1. UNCHANGED <<current, wanted, ask>> /\ SameData /\ Counted
    BY DEF IInv, UpdateType, Command, Untouched, SameData, Counted, dataVars, countVars
  <1>2. /\ op \in OpRows /\ wanted \in BOOLEAN /\ srv \in SrvRows /\ current \in Releases /\ current \in 0..MaxRelease
        /\ op.cand \in Releases /\ op.base \in 0..MaxRelease
    BY UpdateAssumption DEF IInv, UpdateType, OpRows, Releases
  <1>3. CASE Unfinished
    <2>1. root' = recover /\ held' = op /\ UNCHANGED <<op, srv>>
      BY <1>3 DEF Command, Goto
    <2>2. /\ root' \in {"rp_check", "re_stop", "re_mark", "rc_stop", "rb_mark", "halt"}
          /\ root' = "rp_check" => op.state \in Chose
          /\ root' = "re_mark" => current = op.cand
          /\ root' \in {"re_mark", "rc_stop", "rb_mark", "rp_check"} => op.state # "maintenance_closing"
      BY <2>1 DEF recover, Chose, Reopening
    <2>3. RootInv'
      BY <1>1, <2>1, <2>2 DEF RootInv, Off, Repairing, Early
    <2> QED BY <1>1, <1>2, <2>1, <2>3, CommandMoves DEF SameReceipt
  <1>4. CASE ~Unfinished
    <2>1. /\ op.cand < MaxRelease /\ Reachable(current) /\ srv.adm /\ journal \in {"none", "complete"}
          /\ op' = [state |-> "maintenance_closing", base |-> current, cand |-> op.cand + 1, ckpt |-> FALSE, bad |-> FALSE]
          /\ srv' = [srv EXCEPT !.base = TRUE] /\ held' = op' /\ root' = "enter"
      BY <1>4 DEF Command, Goto
    <2>2. /\ op' \in OpRows /\ op'.state = "maintenance_closing" /\ op'.base = current /\ op'.cand = op.cand + 1 /\ ~op'.ckpt
      <3>1. PICK n \in Releases : n = op.cand + 1
        BY <1>2, <2>1, UpdateAssumption DEF Releases
      <3>2. op' = [state |-> "maintenance_closing", base |-> current, cand |-> n, ckpt |-> FALSE, bad |-> FALSE]
        BY <2>1, <3>1
      <3>3. "maintenance_closing" \in States
        BY Transitions
      <3> QED BY <1>2, <3>1, <3>2, <3>3 DEF OpRows
    <2>3. ask = NoAsk /\ srv.begun /\ srv.rel = current
      BY <2>1 DEF IInv, ServerInv, Reachable
    <2>4. /\ srv' \in SrvRows /\ srv'.rel = srv.rel /\ srv'.fence = srv.fence /\ srv'.adm = srv.adm /\ srv'.begun = srv.begun
      BY <1>2, <2>1 DEF SrvRows
    <2>5. UpdateType'
      BY <1>1, <2>1, <2>2, <2>4 DEF IInv, UpdateType, SameData, Counted
    <2>6. PointerInv'
      <3>1. current < op.cand + 1
        BY <1>2 DEF IInv, PointerInv, Releases
      <3> QED BY <1>1, <2>2, <3>1 DEF PointerInv
    <2>7. ServerInv'
      <3>1. srv'.rel # 0 /\ srv' # NoServer
        BY <1>2, <2>3, <2>4 DEF NoServer, Releases
      <3> QED BY <1>1, <2>1, <2>2, <2>3, <2>4, <3>1 DEF IInv, ServerInv, SameData
    <2>8. AskInv'
      BY <1>1, <2>3 DEF AskInv, NoAsk
    <2>9. RootInv'
      BY <2>1 DEF RootInv, Off, Repairing, Early
    <2>10. op'.state \notin Captured /\ ~OnTrial'
      BY <2>2 DEF Captured, Restoring, OnTrial
    <2>11. DataInv'
      <3>1. saved[DataRoot].fmt \in Nat /\ saved[DataRoot].fmt <= current
        <4>1. saved[DataRoot].fmt \in Nat /\ current \in Nat /\ op.base \in Nat /\ op.cand \in Nat
          BY <1>2, UpdateAssumption DEF IInv, UpdateType, DataRows, Releases
        <4>2. op.base <= current /\ saved[DataRoot].fmt <= op.base
          BY <4>1 DEF IInv, PointerInv, DataInv
        <4> QED BY <4>1, <4>2
      <3> QED BY <1>1, <2>1, <2>2, <2>10, <3>1 DEF IInv, DataInv, SameData, Matches
    <2>12. WriteInv' /\ QuietInv'
      BY <1>1, <2>10 DEF IInv, WriteInv, QuietInv, SameData
    <2> QED BY <2>5, <2>6, <2>7, <2>8, <2>9, <2>11, <2>12 DEF IInv
  <1> QED BY <1>3, <1>4

(* The command records where it is between the capture and the end of the trial: the
   receipt stays one under which the checkpoint may be restored. *)
LEMMA ReceiptMoves ==
    ASSUME IInv, UNCHANGED current, UNCHANGED <<srv, ask>> \/ (srv' = NoServer /\ ask' = NoAsk),
           SameData, Counted, held' \in OpRows, wanted' \in BOOLEAN, RootInv',
           op' \in OpRows, op'.base = op.base, op'.cand = op.cand, PointerInv',
           op.state \in Captured, op'.state \in Captured,
           op'.state \in Restoring \/ journal \in {"none", "complete"},
           op'.state = "checkpoint_ready" => current # op.cand,
           OnTrial' => OnTrial \/ srv = NoServer,
           \/ ask = NoAsk
           \/ op'.state \in BeforeSwitch \cup {"repair_required"}
           \/ op.state \notin BeforeSwitch \cup {"repair_required"}
    PROVE  IInv'
  <1>1. UpdateType'
    <2>1. NoServer \in SrvRows /\ NoAsk \in AskRows
      BY UpdateAssumption DEF NoServer, NoAsk, SrvRows, AskRows
    <2> QED BY <2>1 DEF IInv, UpdateType, SameData, Counted
  <1>2. ServerInv'
    <2>1. CASE UNCHANGED <<srv, ask>>
      BY <2>1 DEF IInv, ServerInv, SameData
    <2>2. CASE srv' = NoServer /\ ask' = NoAsk
      BY <2>2 DEF ServerInv, NoServer
    <2> QED BY <2>1, <2>2
  <1>3. AskInv'
    <2>1. op.state \notin Chose /\ op.state # "aborted_before_switch" /\ op'.state # "maintenance_closing"
      BY DEF Captured, Restoring, Chose, Reopening
    <2>2. CASE UNCHANGED <<srv, ask>>
      BY <2>1, <2>2 DEF IInv, AskInv, NoAsk, SameData
    <2>3. CASE srv' = NoServer /\ ask' = NoAsk
      BY <2>3 DEF AskInv, NoAsk
    <2> QED BY <2>2, <2>3
  <1>4. DataInv'
    BY DEF IInv, DataInv, SameData, Matches
  <1>5. WriteInv'
    BY DEF IInv, WriteInv, SameData
  <1>6. QuietInv'
    <2>1. srv = NoServer => Quiet
      BY DEF Quiet, NoServer
    <2>2. OnTrial' \/ (op'.state \in Captured /\ ~astray') => Quiet
      BY <2>1 DEF IInv, QuietInv, SameData
    <2>3. OnTrial' \/ (op'.state \in Captured /\ ~astray') => Quiet'
      BY <2>2 DEF Quiet, NoServer
    <2> QED BY <2>3 DEF QuietInv
  <1> QED BY <1>1, <1>2, <1>3, <1>4, <1>5, <1>6 DEF IInv

(* The checkpoint is made of the capture the receipt already names. *)
LEMMA CheckpointStep == IInv /\ create_checkpoint => IInv'
  <1> SUFFICES ASSUME IInv, create_checkpoint PROVE IInv'
    OBVIOUS
  <1>1. /\ UNCHANGED <<current, wanted, srv, ask>> /\ SameData /\ Counted /\ root = "checkpoint" /\ root' = "stop"
        /\ held' = op' /\ op' = [op EXCEPT !.state = "checkpoint_ready", !.ckpt = TRUE] /\ wanted' \in BOOLEAN
    BY DEF IInv, UpdateType, create_checkpoint, Untouched, SameData, Counted, dataVars, countVars, Goto, At
  <1>2. op.state = "maintenance_closed" /\ ask = NoAsk
    BY <1>1 DEF IInv, RootInv
  <1>3. op' \in OpRows /\ op'.state = "checkpoint_ready" /\ op'.base = op.base /\ op'.cand = op.cand
    BY <1>1, Transitions DEF IInv, UpdateType, OpRows
  <1>4. RootInv'
    BY <1>1, <1>2, <1>3 DEF RootInv, Off, Repairing, Early
  <1>5. PointerInv' /\ current # op.cand
    BY <1>1, <1>2, <1>3 DEF IInv, PointerInv, UpdateType, OpRows, Releases
  <1>6. /\ op.state \in Captured /\ op'.state \in Captured /\ op'.state \in BeforeSwitch /\ ~OnTrial'
        /\ op.state \notin Restoring
    BY <1>2, <1>3 DEF Captured, Restoring, BeforeSwitch, OnTrial
  <1> QED BY <1>1, <1>3, <1>4, <1>5, <1>6, ReceiptMoves DEF IInv, DataInv

(* What a mark does: nothing, an advance of the receipt it has read, or a failure. *)
LEMMA Marked ==
    ASSUME IInv, NEW step, NEW from \in SUBSET States, NEW state \in States, NEW next, Marks(step, from, state, next)
    PROVE  /\ root = step /\ UNCHANGED <<current, wanted, srv, ask>> /\ SameData /\ Counted /\ wanted' \in BOOLEAN
           /\ held' \in OpRows
           /\ \/ op' = op /\ held' = held /\ root' = next /\ held.state \notin from
              \/ /\ op = held /\ op.state \in from /\ held' = op' /\ root' = next
                 /\ op' \in OpRows /\ op'.state = state /\ op'.base = op.base /\ op'.cand = op.cand
              \/ op' = op /\ held' = op /\ root' = OnFailure(step) /\ held # op
  <1>1. /\ root = step /\ UNCHANGED <<current, wanted, srv, ask>> /\ SameData /\ Counted /\ wanted' \in BOOLEAN
    BY DEF IInv, UpdateType, Marks, Untouched, SameData, Counted, dataVars, countVars, At
  <1>2. op \in OpRows /\ held \in OpRows
    BY DEF IInv, UpdateType
  <1>3. CASE held.state \notin from
    BY <1>1, <1>2, <1>3 DEF Marks, Goto
  <1>4. CASE held.state \in from /\ op = held
    <2>1. op' = [op EXCEPT !.state = state] /\ held' = op' /\ root' = next
      BY <1>4 DEF Marks, Goto, Advanced
    <2> QED BY <1>1, <1>2, <1>4, <2>1, Recorded
  <1>5. CASE held.state \in from /\ op # held
    BY <1>1, <1>2, <1>5 DEF Marks, Goto
  <1> QED BY <1>3, <1>4, <1>5

(* The trial begins over a stopped service. *)
LEMMA MarkSteps == IInv /\ (candidate_starting \/ ResumeSwitched) => IInv'
  <1>0. /\ {"checkpoint_ready"} \in SUBSET States /\ "candidate_starting" \in States
        /\ "candidate_starting" \in Captured /\ "checkpoint_ready" \in Captured /\ "checkpoint_ready" \notin Restoring
    BY Transitions DEF Captured, Restoring
  <1>1. ASSUME IInv, op = held, op.state = "checkpoint_ready", current = op.cand, UNCHANGED <<current, srv, ask>>,
               SameData, Counted, wanted' \in BOOLEAN, held' \in OpRows, held' = op', root' \in {"start", "rc_stop"},
               op' \in OpRows, op'.state = "candidate_starting", op'.base = op.base, op'.cand = op.cand
        PROVE  IInv'
    <2>1. RootInv'
      BY <1>1 DEF RootInv, Off, Repairing, Early
    <2>2. PointerInv'
      BY <1>1 DEF IInv, PointerInv
    <2>3. srv = NoServer /\ ask = NoAsk /\ journal \in {"none", "complete"}
      BY <1>0, <1>1 DEF IInv, ServerInv, DataInv
    <2> QED BY <1>0, <1>1, <2>1, <2>2, <2>3, ReceiptMoves
  <1>2. ASSUME IInv, candidate_starting PROVE IInv'
    <2>1. Marks("mark", {"checkpoint_ready"}, "candidate_starting", "start")
      BY <1>2 DEF candidate_starting
    <2>2. root = "mark"
      BY <2>1 DEF Marks, At
    <2>3. held = op /\ op.state = "checkpoint_ready" /\ current = op.cand
      BY <1>2, <2>2 DEF IInv, RootInv
    <2> QED BY <1>0, <1>1, <1>2, <2>1, <2>3, Marked
  <1>3. ASSUME IInv, ResumeSwitched PROVE IInv'
    <2>1. Marks("re_mark", {"checkpoint_ready"}, "candidate_starting", "rc_stop")
      BY <1>3 DEF ResumeSwitched
    <2>2. root = "re_mark"
      BY <2>1 DEF Marks, At
    <2>3. current = held.cand /\ op.state # "maintenance_closing"
      BY <1>3, <2>2 DEF IInv, RootInv, Early
    <2>4. CASE op' = op /\ root' \in {"rc_stop", "halt"}
      <3>1. /\ UNCHANGED <<current, srv, ask>> /\ SameData /\ Counted /\ wanted' \in BOOLEAN /\ held' \in OpRows
        BY <1>0, <1>3, <2>1, Marked
      <3>2. RootInv'
        BY <2>3, <2>4 DEF RootInv, Off, Repairing, Early
      <3> QED BY <1>3, <2>4, <3>1, <3>2, CommandMoves DEF SameReceipt, IInv, UpdateType
    <2>5. CASE op = held /\ op.state = "checkpoint_ready" /\ held' = op' /\ root' = "rc_stop"
               /\ op' \in OpRows /\ op'.state = "candidate_starting" /\ op'.base = op.base /\ op'.cand = op.cand
      BY <1>0, <1>1, <1>3, <2>1, <2>3, <2>5, Marked
    <2> QED BY <1>0, <1>3, <2>1, <2>4, <2>5, Marked DEF OnFailure
  <1> QED BY <1>2, <1>3

-----------------------------------------------------------------------------
(* The rollback, the restore and the repair. *)

(* The rollback begins within the trial, and ends over restored roots. *)
LEMMA RollbackMarks == IInv /\ (BeginRollback \/ OldReleaseStarting) => IInv'
  <1>1. ASSUME IInv, BeginRollback PROVE IInv'
    <2>1. Marks("rb_mark", {"candidate_starting", "candidate_verified"}, "rollback_restoring", "rb_stop")
      BY <1>1 DEF BeginRollback
    <2>2. {"candidate_starting", "candidate_verified"} \in SUBSET States /\ "rollback_restoring" \in States
      BY Transitions
    <2>3. /\ root = "rb_mark" /\ UNCHANGED <<current, srv, ask>> /\ SameData /\ Counted /\ wanted' \in BOOLEAN
          /\ held' \in OpRows /\ root' \in {"rb_stop", "rb_failed"}
      BY <1>1, <2>1, <2>2, Marked DEF OnFailure
    <2>4. op.state # "maintenance_closing"
      BY <1>1, <2>3 DEF IInv, RootInv, Early
    <2>5. CASE op' = op
      <3>1. RootInv'
        BY <2>3, <2>4, <2>5 DEF RootInv, Off, Repairing, Early
      <3> QED BY <1>1, <2>3, <2>5, <3>1, CommandMoves DEF SameReceipt, IInv, UpdateType
    <2>6. CASE /\ op.state \in {"candidate_starting", "candidate_verified"} /\ op' \in OpRows
               /\ op'.state = "rollback_restoring" /\ op'.base = op.base /\ op'.cand = op.cand
      <3>1. RootInv'
        BY <2>3, <2>6 DEF RootInv, Off, Repairing, Early
      <3>2. PointerInv'
        BY <1>1, <2>3, <2>6 DEF IInv, PointerInv
      <3>3. /\ op.state \in Captured /\ op'.state \in Captured /\ op'.state \in Restoring /\ OnTrial
            /\ op.state \notin BeforeSwitch \cup {"repair_required"} /\ op'.state # "checkpoint_ready"
        BY <2>6 DEF Captured, Restoring, OnTrial, BeforeSwitch
      <3> QED BY <1>1, <2>3, <2>6, <3>1, <3>2, <3>3, ReceiptMoves
    <2> QED BY <1>1, <2>1, <2>2, <2>5, <2>6, Marked
  <1>2. ASSUME IInv, OldReleaseStarting PROVE IInv'
    <2>1. Marks("rb_advance", Restoring, "old_release_starting", "rb_check")
      BY <1>2 DEF OldReleaseStarting, Restoring
    <2>2. Restoring \in SUBSET States /\ "old_release_starting" \in States
      BY Transitions DEF Restoring
    <2>3. /\ root = "rb_advance" /\ UNCHANGED <<current, srv, ask>> /\ SameData /\ Counted /\ wanted' \in BOOLEAN
          /\ held' \in OpRows
      BY <1>2, <2>1, <2>2, Marked
    <2>4. op.state \in Restoring /\ held = op /\ current = op.base /\ journal = "complete" /\ srv = NoServer /\ ask = NoAsk
      BY <1>2, <2>3 DEF IInv, RootInv, Off, ServerInv
    <2>5. /\ op' \in OpRows /\ op'.state = "old_release_starting" /\ op'.base = op.base /\ op'.cand = op.cand
          /\ root' = "rb_check" /\ held' = op'
      BY <1>2, <2>1, <2>2, <2>4, Marked
    <2>6. RootInv'
      BY <2>5 DEF RootInv, Off, Repairing, Early
    <2>7. PointerInv'
      BY <1>2, <2>3, <2>4, <2>5 DEF IInv, PointerInv
    <2>8. op.state \in Captured /\ op'.state \in Captured /\ op'.state # "checkpoint_ready"
      BY <2>4, <2>5 DEF Captured, Restoring
    <2> QED BY <1>2, <2>3, <2>4, <2>5, <2>6, <2>7, <2>8, ReceiptMoves
  <1> QED BY <1>1, <1>2

(* A receipt that is left for a repair keeps its checkpoint. *)
LEMMA RepairMoves ==
    ASSUME IInv, UNCHANGED current, UNCHANGED <<srv, ask>> \/ (srv' = NoServer /\ ask' = NoAsk),
           SameData, Counted, wanted' \in BOOLEAN, root' = "idle", held' = op',
           op.state # "maintenance_closing", "repair_required" \in _ALLOWED_TRANSITIONS[op.state],
           op' = [op EXCEPT !.state = "repair_required"]
    PROVE  IInv'
  <1>1. op \in OpRows /\ op.state \in States
    BY DEF IInv, UpdateType, OpRows
  <1>2. op' \in OpRows /\ op'.state = "repair_required" /\ op'.base = op.base /\ op'.cand = op.cand
    BY <1>1, Recorded, Transitions
  <1>3. /\ op.state \in Captured /\ op'.state \in Captured /\ op'.state \in Restoring /\ op'.state # "checkpoint_ready"
        /\ ~OnTrial'
    BY <1>1, <1>2, Transitions DEF Captured, Restoring, BeforeSwitch, OnTrialStates, OnTrial
  <1>4. RootInv'
    BY <1>2 DEF RootInv, Off, Repairing, Early
  <1>5. PointerInv'
    BY <1>2 DEF IInv, PointerInv
  <1> QED BY <1>2, <1>3, <1>4, <1>5, ReceiptMoves

(* A failed abort and a failed rollback wait for a repair, or go forward. *)
LEMMA FailedSteps == IInv /\ (AbortFailed \/ RollbackFailed) => IInv'
  <1>1. ASSUME IInv, AbortFailed PROVE IInv'
    <2>1. /\ UNCHANGED <<current, wanted, srv, ask>> /\ SameData /\ Counted /\ wanted' \in BOOLEAN
          /\ root' = "idle" /\ held' = op'
      BY <1>1 DEF IInv, UpdateType, AbortFailed, Untouched, SameData, Counted, dataVars, countVars, Goto
    <2>2. CASE /\ op' = [op EXCEPT !.state = "repair_required"] /\ op.ckpt
               /\ "repair_required" \in _ALLOWED_TRANSITIONS[op.state]
      BY <1>1, <2>1, <2>2, RepairMoves DEF IInv, PointerInv
    <2>3. CASE op' = op
      <3>1. RootInv'
        BY <2>1 DEF RootInv, Off, Repairing, Early
      <3> QED BY <1>1, <2>1, <2>3, <3>1, CommandMoves DEF SameReceipt, IInv, UpdateType
    <2> QED BY <1>1, <2>2, <2>3 DEF AbortFailed
  <1>2. ASSUME IInv, RollbackFailed PROVE IInv'
    <2>1. /\ UNCHANGED current /\ SameData /\ Counted /\ wanted' \in BOOLEAN /\ held' = op' /\ root = "rb_failed"
      BY <1>2 DEF IInv, UpdateType, RollbackFailed, Untouched, Stopped, SameData, Counted, dataVars, countVars, At
    <2>2. op \in OpRows /\ op.state # "maintenance_closing"
      BY <1>2, <2>1 DEF IInv, UpdateType, RootInv, Early
    <2>3. CASE op.state \in {"old_release_reopening", "rolled_back"}
      <3>1. op' = [op EXCEPT !.bad = TRUE] /\ root' = "rp_check" /\ UNCHANGED <<wanted, srv, ask>>
        BY <1>2, <2>3 DEF RollbackFailed, Goto
      <3>2. SameReceipt
        BY <2>2, <3>1 DEF SameReceipt, OpRows
      <3>3. RootInv'
        BY <2>3, <3>1, <3>2 DEF RootInv, Off, Repairing, Early, SameReceipt, Chose, Reopening
      <3> QED BY <1>2, <2>1, <3>1, <3>2, <3>3, CommandMoves DEF SameReceipt
    <2>4. CASE op.state \notin {"old_release_reopening", "rolled_back"}
      <3>1. /\ root' = "idle" /\ srv' = NoServer /\ ask' = NoAsk
            /\ op' = IF "repair_required" \in _ALLOWED_TRANSITIONS[op.state]
                       THEN [op EXCEPT !.state = "repair_required"] ELSE op
        BY <1>2, <2>4 DEF RollbackFailed, Goto, Stopped
      <3>2. CASE "repair_required" \in _ALLOWED_TRANSITIONS[op.state]
        BY <1>2, <2>1, <2>2, <3>1, <3>2, RepairMoves
      <3>3. CASE op' = op
        <4>1. RootInv'
          BY <3>1 DEF RootInv, Off, Repairing, Early
        <4> QED BY <1>2, <2>1, <2>2, <3>1, <3>3, <4>1, ProcessGone DEF SameReceipt
      <3> QED BY <3>1, <3>2, <3>3
    <2> QED BY <2>3, <2>4
  <1> QED BY <1>1, <1>2

(* A repair finishes the decision that is on record. *)
LEMMA RepairMarkStep == IInv /\ RepairMark => IInv'
  <1> SUFFICES ASSUME IInv, RepairMark PROVE IInv'
    OBVIOUS
  <1>1. /\ UNCHANGED <<current, wanted, srv, ask>> /\ SameData /\ Counted /\ wanted' \in BOOLEAN /\ held' = op'
        /\ root = "rp_mark" /\ root' = "rp_start" /\ op' = [op EXCEPT !.state = Decided(op), !.bad = TRUE]
    BY DEF IInv, UpdateType, RepairMark, Untouched, SameData, Counted, dataVars, countVars, At, Goto
  <1>2. op \in OpRows /\ op.state \in Chose
    BY <1>1 DEF IInv, UpdateType, RootInv, Repairing
  <1>3. PICK state \in {"committed", "rolled_back"} : state = Decided(op)
    BY DEF Decided
  <1>4. /\ op' \in OpRows /\ op'.state = state /\ op'.base = op.base /\ op'.cand = op.cand /\ op'.ckpt = op.ckpt
    BY <1>1, <1>2, <1>3, Transitions DEF OpRows
  <1>5. op'.state \in Chose /\ op'.state \notin Captured /\ op.state \notin Captured /\ ~OnTrial'
    BY <1>2, <1>3, <1>4 DEF Chose, Reopening, Captured, Restoring, OnTrial
  <1>6. UpdateType'
    BY <1>1, <1>4 DEF IInv, UpdateType, SameData, Counted
  <1>7. PointerInv'
    BY <1>1, <1>2, <1>3, <1>4 DEF IInv, PointerInv, Decided, Chose, Reopening
  <1>8. ServerInv'
    BY <1>1, <1>3, <1>4 DEF IInv, ServerInv, SameData
  <1>9. AskInv'
    BY <1>1, <1>2, <1>3, <1>4, <1>5 DEF IInv, AskInv, SameData, Chose, Reopening, BeforeSwitch
  <1>10. RootInv'
    BY <1>1, <1>3, <1>4, <1>5 DEF RootInv, Off, Repairing, Early
  <1>11. journal \in {"none", "complete"}
    BY <1>5 DEF IInv, DataInv, Captured
  <1>12. DataInv'
    BY <1>1, <1>4, <1>5, <1>11 DEF IInv, DataInv, SameData
  <1>13. WriteInv' /\ QuietInv'
    BY <1>1, <1>5 DEF IInv, WriteInv, QuietInv, SameData
  <1> QED BY <1>6, <1>7, <1>8, <1>9, <1>10, <1>12, <1>13 DEF IInv

(* A step of the restore has the data to itself. *)
LEMMA RestoreMoves ==
    ASSUME IInv, root = "rb_restore",
           UNCHANGED <<current, op, root, held, wanted, srv, ask, saved, accepted, astray, faults, crashes>>,
           live' \in [Roots -> DataRows], aside' \subseteq Roots,
           journal' \in {"prepared", "quarantined", "restored", "verified", "complete"}, DataInv', WriteInv'
    PROVE  IInv'
  <1>1. SameReceipt /\ srv = NoServer
    BY DEF IInv, UpdateType, SameReceipt, RootInv, Off
  <1>2. UpdateType'
    BY DEF IInv, UpdateType
  <1>3. ServerInv'
    BY <1>1 DEF IInv, ServerInv, NoServer
  <1>4. RootInv'
    BY DEF IInv, RootInv
  <1> QED BY <1>1, <1>2, <1>3, <1>4, Frames DEF IInv

(* Each durable step of the restore, repeated or not, moves toward the checkpoint. *)
LEMMA RestoreStep == IInv /\ restore_update_checkpoint => IInv'
  <1> SUFFICES ASSUME IInv, restore_update_checkpoint PROVE IInv'
    OBVIOUS
  <1>1. /\ UNCHANGED <<current, op, wanted, srv, ask, accepted, astray, faults, crashes>> /\ root = "rb_restore"
    BY DEF restore_update_checkpoint, countVars, At
  <1>2. /\ op.state \in Restoring /\ op.state \in Captured /\ srv = NoServer
        /\ \A r \in Roots : saved[r].fmt # 0
        /\ DataRoot \in Roots
    BY <1>1, UpdateAssumption DEF IInv, RootInv, Off, Captured, DataInv
  <1>3. live \in [Roots -> DataRows] /\ saved \in [Roots -> DataRows] /\ aside \subseteq Roots
    BY DEF IInv, UpdateType
  <1>4. /\ \A r \in Roots : live[r].fmt = 0 => live[r] = Gone /\ journal \in {"prepared", "quarantined"}
        /\ live[DataRoot].fmt <= current /\ saved[DataRoot].fmt <= op.base /\ saved[DataRoot].fmt <= current
    <2>1. current \in Nat /\ op.base \in Nat /\ op.cand \in Nat /\ saved[DataRoot].fmt \in Nat
      BY <1>2, <1>3, UpdateAssumption DEF IInv, UpdateType, OpRows, DataRows, Releases
    <2> QED BY <2>1 DEF IInv, DataInv, PointerInv
  <1>5. /\ \A r \in Roots : saved[r].w = saved[DataRoot].w
        /\ ~astray => \A r \in Roots : /\ live[r].fmt # 0 => live[r].w = accepted
                                       /\ saved[r].w = accepted
    BY <1>2 DEF IInv, WriteInv
  <1>6. ASSUME NEW phase \in {"prepared", "quarantined", "restored", "verified", "complete"}, Journal(phase),
               UNCHANGED <<root, held>>, phase \in {"restored", "verified", "complete"} => Matches,
               phase = "quarantined" => journal = "prepared"
        PROVE  IInv'
    <2>1. UNCHANGED <<live, saved, aside>> /\ journal' = phase
      BY <1>6 DEF Journal
    <2>2. Matches => \A r \in Roots : live[r] = saved[r] /\ live[r].fmt # 0
      BY <1>2 DEF Matches
    <2>3. DataInv'
      BY <1>1, <1>2, <1>4, <1>6, <2>1, <2>2 DEF DataInv, Matches
    <2>4. WriteInv'
      BY <1>1, <1>2, <1>5, <1>6, <2>1, <2>2 DEF WriteInv
    <2> QED BY <1>1, <1>3, <1>6, <2>1, <2>3, <2>4, RestoreMoves
  <1>7. ASSUME NEW r \in Roots, _quarantine_live_roots(r), journal = "prepared", UNCHANGED <<root, held>>
        PROVE  IInv'
    <2>1. UNCHANGED <<saved, journal>> /\ aside' \subseteq Roots
      BY <1>3, <1>7 DEF _quarantine_live_roots
    <2>2. /\ live' \in [Roots -> DataRows] /\ live'[r] = Gone /\ live'[r].fmt = 0
          /\ \A q \in Roots : q # r => live'[q] = live[q]
      <3>1. Gone \in DataRows /\ Gone.fmt = 0
        BY UpdateAssumption DEF Gone, DataRows
      <3> QED BY <1>3, <1>7, <3>1 DEF _quarantine_live_roots
    <2>3. DataInv'
      <3>1. live'[DataRoot].fmt <= current
        BY <1>2, <1>4, <2>2 DEF IInv, UpdateType, Releases
      <3> QED BY <1>1, <1>2, <1>4, <1>7, <2>1, <2>2, <3>1 DEF DataInv
    <2>4. WriteInv'
      BY <1>1, <1>5, <1>7, <2>1, <2>2 DEF WriteInv
    <2> QED BY <1>1, <1>7, <2>1, <2>2, <2>3, <2>4, RestoreMoves
  <1>8. ASSUME NEW r \in Roots, _restore_live_roots(r), journal = "quarantined", UNCHANGED <<root, held>>
        PROVE  IInv'
    <2>1. UNCHANGED <<saved, journal, aside>>
      BY <1>8 DEF _restore_live_roots
    <2>2. /\ live' \in [Roots -> DataRows] /\ live'[r] = saved[r]
          /\ \A q \in Roots : q # r => live'[q] = live[q]
      BY <1>3, <1>8 DEF _restore_live_roots
    <2>3. DataInv'
      BY <1>1, <1>2, <1>4, <1>8, <2>1, <2>2 DEF DataInv
    <2>4. WriteInv'
      BY <1>1, <1>2, <1>5, <1>8, <2>1, <2>2 DEF WriteInv
    <2> QED BY <1>1, <1>3, <1>8, <2>1, <2>2, <2>3, <2>4, RestoreMoves
  <1>9. ASSUME journal = "complete", UNCHANGED dataVars, held' = op, root' = IF Matches THEN "rb_switch" ELSE "rb_failed"
        PROVE  IInv'
    <2>1. SameData /\ Counted /\ SameReceipt /\ held' \in OpRows /\ wanted' \in BOOLEAN
      BY <1>1, <1>9 DEF IInv, UpdateType, SameData, Counted, SameReceipt, dataVars
    <2>2. /\ root = "rb_restore" /\ srv = NoServer /\ ~wanted /\ op.state # "maintenance_closing"
      BY <1>1, <1>2 DEF IInv, RootInv, Off, Restoring
    <2>3. Matches => Matches'
      BY <1>9 DEF Matches, dataVars
    <2>4. RootInv'
      BY <1>1, <1>2, <1>9, <2>1, <2>2, <2>3 DEF RootInv, Off, Repairing, Early, SameData
    <2> QED BY <1>1, <2>1, <2>4, CommandMoves
  <1>10. CASE journal = "none"
    BY <1>6, <1>10 DEF restore_update_checkpoint
  <1>11. CASE journal = "prepared"
    BY <1>6, <1>7, <1>11 DEF restore_update_checkpoint
  <1>12. CASE journal = "quarantined"
    BY <1>6, <1>8, <1>12 DEF restore_update_checkpoint
  <1>13. CASE journal \in {"restored", "verified"}
    BY <1>6, <1>13 DEF restore_update_checkpoint
  <1>14. CASE journal = "complete"
    BY <1>9, <1>14 DEF restore_update_checkpoint, Goto
  <1> QED BY <1>10, <1>11, <1>12, <1>13, <1>14 DEF IInv, UpdateType

(* The pointer goes back over roots that are the checkpoint. *)
LEMMA RollbackSwitchStep == IInv /\ RollbackSwitch => IInv'
  <1> SUFFICES ASSUME IInv, RollbackSwitch PROVE IInv'
    OBVIOUS
  <1>1. /\ UNCHANGED <<op, held, wanted, srv, ask>> /\ SameData /\ Counted /\ SameReceipt
        /\ root = "rb_switch" /\ root' = "rb_advance" /\ current' = op.base
    BY DEF IInv, UpdateType, RollbackSwitch, Untouched, SameData, Counted, SameReceipt, dataVars, countVars, Goto, At
  <1>2. /\ srv = NoServer /\ ~wanted /\ op.state \in Restoring /\ journal = "complete" /\ Matches /\ held = op
        /\ ask = NoAsk
    BY <1>1 DEF IInv, RootInv, Off, ServerInv
  <1>3. /\ live[DataRoot] = saved[DataRoot] /\ saved[DataRoot].fmt # 0 /\ saved[DataRoot].fmt <= op.base
        /\ saved[DataRoot].fmt \in Nat /\ op.base \in 0..MaxRelease
    BY <1>2, UpdateAssumption DEF IInv, UpdateType, DataInv, Captured, Matches, DataRows, OpRows
  <1>4. op.base \in Releases
    BY <1>3, UpdateAssumption DEF Releases
  <1>5. UpdateType'
    BY <1>1, <1>4 DEF IInv, UpdateType, SameData, Counted
  <1>6. PointerInv'
    BY <1>1, <1>2 DEF IInv, PointerInv, Restoring
  <1>7. ServerInv'
    BY <1>1, <1>2 DEF IInv, ServerInv, NoServer, SameData
  <1>8. RootInv'
    BY <1>1, <1>2 DEF RootInv, Off, Repairing, Early, Restoring, SameData, Matches
  <1>9. DataInv'
    BY <1>1, <1>3 DEF IInv, DataInv, SameData, Matches
  <1> QED BY <1>1, <1>5, <1>6, <1>7, <1>8, <1>9, Frames DEF IInv, SameData

(* The invariant is inductive. *)
LEMMA NextIInv == IInv /\ [Next]_vars => IInv'
  <1> SUFFICES ASSUME IInv, [Next]_vars PROVE IInv'
    OBVIOUS
  <1>1. CASE Process \/ mutation
    BY <1>1, StartStep, BeginStep, MutationSteps, LaunchStep DEF Process
  <1>2. CASE Control
    BY <1>2, EnterSteps, CaptureStep, VerifyStep, ReleaseSteps, AbortSteps, AnswerSteps, DropStep DEF Control
  <1>3. CASE Cutover
    BY <1>3, CommandStep, AskSteps, MovingSteps, CheckpointStep, StoppingSteps, SwitchStep, MarkSteps, FailedSteps,
       RollbackMarks, RestoreStep, RollbackSwitchStep, RepairMarkStep DEF Cutover
  <1>4. CASE Failures
    BY <1>4, AnswerSteps, ReleaseSteps, FailStep DEF Failures
  <1>5. CASE Deaths
    BY <1>5, StoppingSteps DEF Deaths
  <1>6. CASE UNCHANGED vars
    <2>1. /\ SameReceipt /\ UNCHANGED <<current, srv, ask, root, held, wanted>> /\ SameData /\ Counted
          /\ held' \in OpRows /\ wanted' \in BOOLEAN
      BY <1>6 DEF IInv, UpdateType, vars, cmdVars, dataVars, countVars, SameReceipt, SameData, Counted
    <2>2. RootInv'
      BY <1>6 DEF IInv, RootInv, Matches, vars, cmdVars, dataVars
    <2> QED BY <2>1, <2>2, CommandMoves
  <1> QED BY <1>1, <1>2, <1>3, <1>4, <1>5, <1>6 DEF Next

-----------------------------------------------------------------------------
(* What the invariant gives. *)

(* The invariant holds in every reachable state. *)
LEMMA IInvHolds == Spec => []IInv
  BY InitIInv, NextIInv, PTL DEF Spec

(* DataFitsRelease for every instance: whatever fails or dies in an update or in its
   rollback, the pointer, the receipt and the restore journal never let a process come up
   over a store a newer release has migrated or over roots that are set aside. *)
THEOREM ReleaseFitsData == Spec => []DataFitsRelease
  <1>1. IInv => DataFitsRelease
    <2> SUFFICES ASSUME IInv, srv.rel # 0
                 PROVE  live[DataRoot].fmt <= srv.rel /\ \A r \in Roots : live[r] # Gone
      BY DEF DataFitsRelease
    <2>1. srv # NoServer
      BY DEF NoServer
    <2>2. srv.rel = current /\ \A r \in Roots : live[r].fmt # 0
      BY <2>1, Running
    <2> QED BY <2>2 DEF IInv, DataInv, Gone
  <1> QED BY <1>1, IInvHolds, PTL

(* AcceptedWritesSurvive for every instance: between the capture and the choice of a
   release the checkpoint and the live roots hold exactly the acknowledged changes, and a
   restore, its repetition or its recovery ends with all of them. *)
THEOREM NoChangeIsLost == Spec => []AcceptedWritesSurvive
  <1>1. IInv => AcceptedWritesSurvive
    <2> SUFFICES ASSUME IInv PROVE AcceptedWritesSurvive
      OBVIOUS
    <2>1. TypeOK
      <3>1. /\ srv.rel \in 0..MaxRelease /\ srv.fence \in {"none", "active", "open"}
            /\ srv.launch \in {"none", "passed", "running"}
        BY DEF IInv, UpdateType, SrvRows
      <3> QED BY <3>1 DEF TypeOK, IInv, UpdateType, OpRows
    <2>2. \A r \in Roots : live[r] # Gone => live[r].fmt # 0
      BY DEF IInv, DataInv
    <2>3. CaptureStaysExact
      BY <2>2 DEF CaptureStaysExact, IInv, WriteInv, Captured, Restoring
    <2>4. (journal \in {"none", "complete"} /\ ~astray) => \A r \in Roots : live[r].w = accepted
      BY DEF IInv, WriteInv, DataInv
    <2> QED BY <2>1, <2>3, <2>4 DEF AcceptedWritesSurvive
  <1> QED BY <1>1, IInvHolds, PTL

-----------------------------------------------------------------------------
(* The update is a choice of a release. *)

(* The steps of the choice, in the words of the receipt. *)
LEMMA ChoiceMoves ==
    ASSUME IInv
    PROVE  /\ accepted' = accepted /\ Chosen(op)' = Chosen(op) /\ ~OnTrial /\ ~OnTrial'
                => [Choice!Next]_(Choice!choiceVars)
           /\ accepted' = accepted /\ Chosen(op)' = Chosen(op) /\ OnTrial /\ OnTrial' /\ op'.cand = op.cand
                => [Choice!Next]_(Choice!choiceVars)
           /\ accepted' = accepted + 1 /\ UNCHANGED op /\ ~OnTrial => Choice!Next
           /\ accepted' = accepted /\ Chosen(op)' = Chosen(op) /\ Chosen(op) = op.base /\ op'.cand = op.cand
              /\ ~OnTrial /\ OnTrial' => Choice!Next
           /\ accepted' = accepted /\ OnTrial /\ ~OnTrial' /\ Chosen(op)' \in {op.cand, Chosen(op)} => Choice!Next
  <1> op.cand \in Nat /\ op.base \in Nat /\ op.cand # 0 /\ op.base < op.cand
    BY UpdateAssumption DEF IInv, UpdateType, OpRows, Releases, PointerInv
  <1>1. accepted' = accepted /\ Chosen(op)' = Chosen(op) /\ ~OnTrial /\ ~OnTrial' => [Choice!Next]_(Choice!choiceVars)
    BY DEF Choice!choiceVars
  <1>2. accepted' = accepted /\ Chosen(op)' = Chosen(op) /\ OnTrial /\ OnTrial' /\ op'.cand = op.cand
                => [Choice!Next]_(Choice!choiceVars)
    BY DEF Choice!choiceVars
  <1>3. accepted' = accepted + 1 /\ UNCHANGED op /\ ~OnTrial => Choice!Next
    BY DEF Choice!Next, Choice!Accept, OnTrial, Chosen
  <1>4. accepted' = accepted /\ Chosen(op)' = Chosen(op) /\ Chosen(op) = op.base /\ op'.cand = op.cand
              /\ ~OnTrial /\ OnTrial' => Choice!Next
    BY DEF Choice!Next, Choice!Try
  <1>5. accepted' = accepted /\ OnTrial /\ ~OnTrial' /\ Chosen(op)' \in {op.cand, Chosen(op)} => Choice!Next
    BY DEF Choice!Next, Choice!Take, Choice!Keep
  <1> QED BY <1>1, <1>2, <1>3, <1>4, <1>5

(* Most steps say nothing new. *)
LEMMA SilentSteps ==
    ASSUME IInv, accepted' = accepted, op' = op \/ SameReceipt
    PROVE  [Choice!Next]_(Choice!choiceVars)
  <1>1. Chosen(op)' = Chosen(op) /\ op'.cand = op.cand /\ (OnTrial <=> OnTrial')
    BY DEF Chosen, OnTrial, SameReceipt
  <1> QED BY <1>1, ChoiceMoves

(* A new state of the receipt, with both releases as they were. *)
LEMMA StateSteps ==
    ASSUME IInv, accepted' = accepted, op'.base = op.base, op'.cand = op.cand,
           \/ op.state \in BeforeSwitch \cup {"repair_required", "aborted_before_switch"} /\ ~OnTrial'
              /\ op'.state \notin {"candidate_reopening", "committed"}
           \/ op.state \in BeforeSwitch \cup {"repair_required"} /\ OnTrial'
           \/ OnTrial
           \/ op.state \in Chose /\ op'.state \in {op.state, Decided(op)}
    PROVE  [Choice!Next]_(Choice!choiceVars)
  <1>1. CASE op.state \in BeforeSwitch \cup {"repair_required", "aborted_before_switch"} /\ ~OnTrial'
             /\ op'.state \notin {"candidate_reopening", "committed"}
    <2>1. Chosen(op)' = Chosen(op) /\ ~OnTrial
      BY <1>1 DEF Chosen, OnTrial, BeforeSwitch
    <2> QED BY <1>1, <2>1, ChoiceMoves
  <1>2. CASE op.state \in BeforeSwitch \cup {"repair_required"} /\ OnTrial'
    <2>1. Chosen(op)' = Chosen(op) /\ Chosen(op) = op.base /\ ~OnTrial
      BY <1>2 DEF Chosen, OnTrial, BeforeSwitch
    <2> QED BY <1>2, <2>1, ChoiceMoves
  <1>3. CASE OnTrial
    <2>1. Chosen(op)' \in {op.cand, Chosen(op)} /\ (OnTrial' => Chosen(op)' = Chosen(op))
      BY <1>3 DEF Chosen, OnTrial
    <2> QED BY <1>3, <2>1, ChoiceMoves
  <1>4. CASE op.state \in Chose /\ op'.state \in {op.state, Decided(op)}
    <2>1. Chosen(op)' = Chosen(op) /\ ~OnTrial /\ ~OnTrial'
      BY <1>4 DEF Chosen, OnTrial, Decided, Chose, Reopening
    <2> QED BY <2>1, ChoiceMoves
  <1> QED BY <1>1, <1>2, <1>3, <1>4

(* Only a process that is not quiet accepts, and none is on trial. *)
LEMMA ProcessChooses == IInv /\ (Process \/ mutation) => [Choice!Next]_(Choice!choiceVars)
  <1> SUFFICES ASSUME IInv, Process \/ mutation PROVE [Choice!Next]_(Choice!choiceVars)
    OBVIOUS
  <1>1. op' = op
    BY DEF Process, mutation, StartProcess, start_deferred_runtime, FinishMutation, Launch
  <1>2. CASE accepted' = accepted
    BY <1>1, <1>2, SilentSteps
  <1>3. CASE accepted' # accepted
    <2>1. (FinishMutation \/ Launch) /\ accepted' = accepted + 1 /\ (srv.busy \/ srv.launch = "running")
      BY <1>3 DEF Process, mutation, StartProcess, start_deferred_runtime, FinishMutation, Launch, Writes
    <2>2. ~OnTrial
      BY <2>1 DEF IInv, QuietInv, Quiet
    <2> QED BY <1>1, <2>1, <2>2, ChoiceMoves
  <1> QED BY <1>2, <1>3

(* A call takes or keeps a release at most once, when the fence is released. *)
LEMMA ControlChooses == IInv /\ Control => [Choice!Next]_(Choice!choiceVars)
  <1> SUFFICES ASSUME IInv, Control PROVE [Choice!Next]_(Choice!choiceVars)
    OBVIOUS
  <1>0. op \in OpRows /\ op.state \in States
    BY DEF IInv, UpdateType, OpRows
  <1>1. accepted' = accepted
    BY DEF Control, enter_maintenance, verify_running_release, release_fence, abort_before_switch, AlreadyDone, AnswerDropped
  <1>2. CASE enter_maintenance
    <2>1. CASE ask.at # "capturing"
      BY <1>1, <1>2, <2>1, SilentSteps DEF enter_maintenance
    <2>2. CASE ask.at = "capturing"
      <3>1. ask.call = "enter" /\ op = ask.digest /\ op' = [op EXCEPT !.state = "maintenance_closed"]
        BY <1>2, <2>2 DEF enter_maintenance, Advanced
      <3>2. op.state = "maintenance_closing"
        BY <2>2, <3>1 DEF IInv, AskInv, Draining
      <3>3. op'.state = "maintenance_closed" /\ op'.base = op.base /\ op'.cand = op.cand
        BY <1>0, <3>1, Recorded, Transitions
      <3> QED BY <1>1, <3>2, <3>3, StateSteps DEF OnTrial, BeforeSwitch
    <2> QED BY <2>1, <2>2
  <1>3. CASE verify_running_release
    <2>1. PICK state \in {"candidate_verified", "old_release_verified"} : op' = [op EXCEPT !.state = state]
      BY <1>3 DEF verify_running_release, Advanced
    <2>2. op'.base = op.base /\ op'.cand = op.cand
      BY <1>0, <2>1, Recorded, Transitions
    <2>3. OnTrial
      BY <1>3 DEF verify_running_release, Serves, Fits, Verifiable, OnTrial
    <2> QED BY <1>1, <2>2, <2>3, StateSteps
  <1>4. CASE release_fence
    <2>1. CASE ask.at = "begin"
      <3>1. /\ op.state \in Releasable /\ op' = [op EXCEPT !.state = Reopens]
            /\ Reopens \in Reopening
            /\ op.state \in Reopening => Reopens = op.state
        BY <1>4, <2>1 DEF release_fence, Fits, Advanced, Terminal, TERMINAL_UPDATE_STATES, Reopens, Reopening
      <3>2. PICK state \in States : state = Reopens
        BY <3>1, Transitions DEF Reopening
      <3>3. op'.state = state /\ op'.base = op.base /\ op'.cand = op.cand
        BY <1>0, <3>1, <3>2, Recorded
      <3>4. OnTrial \/ (op.state \in Chose /\ op'.state = op.state)
        BY <3>1, <3>2, <3>3 DEF OnTrial, Releasable, Chose
      <3> QED BY <1>1, <3>3, <3>4, StateSteps
    <2>2. CASE ask.at = "opening"
      BY <1>1, <1>4, <2>2, SilentSteps DEF release_fence
    <2>3. CASE ask.at = "waiting"
      <3>1. op.state \in Chose
        BY <1>4, <2>3 DEF release_fence, IInv, AskInv
      <3>2. \/ op' = [op EXCEPT !.state = Decided(op), !.bad = FALSE]
            \/ op' = [op EXCEPT !.bad = TRUE]
            \/ op' = op
        BY <1>4, <2>3 DEF release_fence
      <3>3. op'.state \in {op.state, Decided(op)} /\ op'.base = op.base /\ op'.cand = op.cand
        BY <1>0, <3>2 DEF OpRows
      <3> QED BY <1>1, <3>1, <3>3, StateSteps
    <2> QED BY <1>4, <2>1, <2>2, <2>3 DEF release_fence
  <1>5. CASE abort_before_switch
    <2>1. CASE op' = op
      BY <1>1, <2>1, SilentSteps
    <2>2. CASE op' # op
      <3>1. /\ op' = [op EXCEPT !.state = "aborted_before_switch"] /\ ask.call = "abort" /\ ask.at = "waiting"
        BY <1>5, <2>2 DEF abort_before_switch, Advanced
      <3>2. op.state \in BeforeSwitch \cup {"repair_required", "aborted_before_switch"}
        BY <3>1 DEF IInv, AskInv
      <3>3. op'.state = "aborted_before_switch" /\ op'.base = op.base /\ op'.cand = op.cand
        BY <1>0, <3>1, Recorded, Transitions
      <3> QED BY <1>1, <3>2, <3>3, StateSteps DEF OnTrial
    <2> QED BY <2>1, <2>2
  <1>6. CASE AlreadyDone \/ AnswerDropped
    BY <1>1, <1>6, SilentSteps DEF AlreadyDone, AnswerDropped
  <1> QED BY <1>2, <1>3, <1>4, <1>5, <1>6 DEF Control

(* The command begins a trial, or leaves one for a repair, and decides nothing else. *)
LEMMA CutoverChooses == IInv /\ Cutover => [Choice!Next]_(Choice!choiceVars)
  <1> SUFFICES ASSUME IInv, Cutover PROVE [Choice!Next]_(Choice!choiceVars)
    OBVIOUS
  <1>0. op \in OpRows /\ op.state \in States
    BY DEF IInv, UpdateType, OpRows
  <1>1. CASE SendAsk \/ Receives \/ final_rehearsal \/ stop_service \/ start_service \/ switch_current \/ Halt
             \/ restore_update_checkpoint \/ RollbackSwitch \/ RollbackCheck \/ RepairCheck
    <2>1. op' = op /\ accepted' = accepted
      BY <1>1 DEF SendAsk, Receives, final_rehearsal, stop_service, start_service, switch_current, Halt,
                  restore_update_checkpoint, RollbackSwitch, RollbackCheck, RepairCheck, Untouched
    <2> QED BY <2>1, SilentSteps
  <1>2. CASE settle \/ RepairProbe \/ RepairFailed
    <2>1. accepted' = accepted /\ (op' = op \/ op' = [op EXCEPT !.bad = TRUE] \/ op' = [op EXCEPT !.bad = FALSE])
      BY <1>2 DEF settle, RepairProbe, RepairFailed, Untouched
    <2>2. SameReceipt
      BY <1>0, <2>1 DEF SameReceipt, OpRows
    <2> QED BY <2>1, <2>2, SilentSteps
  <1>3. CASE Command
    <2>1. accepted' = accepted
      BY <1>3 DEF Command, Untouched
    <2>2. CASE Unfinished
      BY <1>3, <2>1, <2>2, SilentSteps DEF Command
    <2>3. CASE ~Unfinished
      <3>1. op' = [state |-> "maintenance_closing", base |-> current, cand |-> op.cand + 1, ckpt |-> FALSE, bad |-> FALSE]
        BY <1>3, <2>3 DEF Command
      <3>2. Chosen(op)' = current /\ ~OnTrial'
        BY <3>1 DEF Chosen, OnTrial
      <3>3. Chosen(op) = current /\ ~OnTrial
        BY <2>3 DEF Unfinished, Terminal, TERMINAL_UPDATE_STATES, Chosen, OnTrial, IInv, PointerInv
      <3> QED BY <2>1, <3>2, <3>3, ChoiceMoves
    <2> QED BY <2>2, <2>3
  <1>4. CASE create_checkpoint
    <2>1. accepted' = accepted /\ root = "checkpoint" /\ op' = [op EXCEPT !.state = "checkpoint_ready", !.ckpt = TRUE]
      BY <1>4 DEF create_checkpoint, Untouched, At
    <2>2. op.state = "maintenance_closed"
      BY <2>1 DEF IInv, RootInv
    <2>3. op'.state = "checkpoint_ready" /\ op'.base = op.base /\ op'.cand = op.cand
      BY <1>0, <2>1 DEF OpRows
    <2> QED BY <2>1, <2>2, <2>3, StateSteps DEF BeforeSwitch, OnTrial
  <1>5. ASSUME NEW step, NEW from \in SUBSET States, NEW state \in States, NEW next, Marks(step, from, state, next),
               \/ from \subseteq BeforeSwitch /\ state \in OnTrialStates
               \/ from \subseteq OnTrialStates
               \/ from = Restoring /\ state \in OnTrialStates
        PROVE  [Choice!Next]_(Choice!choiceVars)
    <2>1. accepted' = accepted
      BY <1>5 DEF Marks, Untouched
    <2>2. CASE op' = op
      BY <2>1, <2>2, SilentSteps
    <2>3. CASE op.state \in from /\ op'.state = state /\ op'.base = op.base /\ op'.cand = op.cand
      <3>1. OnTrial \/ (op.state \in BeforeSwitch \cup {"repair_required"} /\ OnTrial')
        BY <1>5, <2>3 DEF OnTrial, OnTrialStates, Restoring
      <3> QED BY <2>1, <2>3, <3>1, StateSteps
    <2> QED BY <1>5, <2>2, <2>3, Marked
  <1>6. CASE candidate_starting \/ ResumeSwitched
    <2>1. /\ {"checkpoint_ready"} \in SUBSET States /\ "candidate_starting" \in States
          /\ {"checkpoint_ready"} \subseteq BeforeSwitch /\ "candidate_starting" \in OnTrialStates
      BY Transitions DEF BeforeSwitch, OnTrialStates
    <2> QED BY <1>5, <1>6, <2>1 DEF candidate_starting, ResumeSwitched
  <1>7. CASE BeginRollback
    <2>1. /\ {"candidate_starting", "candidate_verified"} \in SUBSET States /\ "rollback_restoring" \in States
          /\ {"candidate_starting", "candidate_verified"} \subseteq OnTrialStates
      BY Transitions DEF OnTrialStates
    <2> QED BY <1>5, <1>7, <2>1 DEF BeginRollback
  <1>8. CASE OldReleaseStarting
    <2>1. Restoring \in SUBSET States /\ "old_release_starting" \in States /\ "old_release_starting" \in OnTrialStates
      BY Transitions DEF OnTrialStates, Restoring
    <2>2. Marks("rb_advance", Restoring, "old_release_starting", "rb_check")
      BY <1>8 DEF OldReleaseStarting, Restoring
    <2> QED BY <1>5, <2>1, <2>2
  <1>9. CASE AbortFailed \/ RollbackFailed
    <2>1. /\ accepted' = accepted
          /\ \/ op' = op \/ op' = [op EXCEPT !.bad = TRUE]
             \/ /\ op' = [op EXCEPT !.state = "repair_required"]
                /\ "repair_required" \in _ALLOWED_TRANSITIONS[op.state]
      BY <1>9 DEF AbortFailed, RollbackFailed, Untouched
    <2>2. CASE op' = op \/ op' = [op EXCEPT !.bad = TRUE]
      <3>1. SameReceipt
        BY <1>0, <2>2 DEF SameReceipt, OpRows
      <3> QED BY <2>1, <3>1, SilentSteps
    <2>3. CASE op' = [op EXCEPT !.state = "repair_required"] /\ "repair_required" \in _ALLOWED_TRANSITIONS[op.state]
      <3>1. op.state \in BeforeSwitch \cup OnTrialStates
        BY <1>0, <2>3, Transitions
      <3>2. op'.state = "repair_required" /\ op'.base = op.base /\ op'.cand = op.cand
        BY <1>0, <2>3, Recorded, Transitions
      <3>3. OnTrial \/ (op.state \in BeforeSwitch /\ ~OnTrial')
        BY <3>1, <3>2 DEF OnTrial, OnTrialStates
      <3> QED BY <2>1, <3>2, <3>3, StateSteps
    <2> QED BY <2>1, <2>2, <2>3
  <1>10. CASE RepairMark
    <2>1. accepted' = accepted /\ root = "rp_mark" /\ op' = [op EXCEPT !.state = Decided(op), !.bad = TRUE]
      BY <1>10 DEF RepairMark, Untouched, At
    <2>2. op.state \in Chose
      BY <2>1 DEF IInv, RootInv, Repairing
    <2>3. op'.state = Decided(op) /\ op'.base = op.base /\ op'.cand = op.cand
      BY <1>0, <2>1 DEF OpRows
    <2> QED BY <2>1, <2>2, <2>3, StateSteps
  <1> QED BY <1>1, <1>2, <1>3, <1>4, <1>6, <1>7, <1>8, <1>9, <1>10 DEF Cutover

(* The update implements ReleaseChoice for every instance: nothing is accepted between the
   switch and the recorded decision, a decision is taken once, and a candidate that has been
   chosen is never taken back by a late answer, a retry or a recovery. *)
THEOREM UpdateIsAChoice == Spec => ChoiceSpec
  <1>1. Init => Choice!Init
    BY DEF Init, Choice!Init, Chosen, OnTrial
  <1>2. IInv /\ [Next]_vars => [Choice!Next]_(Choice!choiceVars)
    <2> SUFFICES ASSUME IInv, [Next]_vars PROVE [Choice!Next]_(Choice!choiceVars)
      OBVIOUS
    <2>1. CASE Failures \/ Deaths \/ UNCHANGED vars
      <3>1. /\ accepted' = accepted
            /\ op' = op \/ op' = [op EXCEPT !.bad = TRUE]
        BY <2>1 DEF Failures, Deaths, Refuse, ReleaseTimesOut, AbortFails, StepFails, ProcessDies, CommandDies,
                    MachineReboots, vars
      <3>2. op' = op \/ SameReceipt
        BY <3>1 DEF IInv, UpdateType, OpRows, SameReceipt
      <3> QED BY <3>1, <3>2, SilentSteps
    <2> QED BY <2>1, ProcessChooses, ControlChooses, CutoverChooses DEF Next
  <1> QED BY <1>1, <1>2, IInvHolds, PTL DEF Spec, ChoiceSpec, Choice!Spec
==============================================================================
