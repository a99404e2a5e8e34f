---------------------------- MODULE WatcherProofs ----------------------------
(***************************************************************************)
(* A watcher's way from its condition to the turn it wakes.                *)
(*                                                                         *)
(* For every set of watchers and callers, every history and every bound:   *)
(* the graph watchers' verdicts are exactly those of the accepted history, *)
(* and the durable head moves over it one boundary at a time.              *)
(*                                                                         *)
(* For every conversation, whatever is armed, grouped and stopped in it    *)
(* and however many threads deliver: the claim transaction makes wakes     *)
(* sound, and closing admission or replacing the retry worker shuts out    *)
(* every delivery that had passed its checks.                              *)
(***************************************************************************)
EXTENDS GraphWatchers, WatcherDelivery, FiniteSetTheorems, TLAPS

(* The head is an accepted revision, and lock and passes agree. *)
HeadInv == consumed <= Len(hist)

LockInv == \A c \in Threads : cpc[c] = "consuming" <=> lock = c

(* A pass never runs ahead of the boundary after the head: no boundary can be
   skipped, whatever other passes and restarts have consumed. *)
PassInv ==
    \A c \in Threads : cpc[c] = "consuming" =>
        /\ next[c] \in 1 .. consumed + 1
        /\ upto[c] <= Len(hist)
        /\ next[c] <= upto[c] + 1

(* A row, or one being armed, was read from an accepted graph. *)
ArmInv == \A w \in Watchers : wst[w] # "none" => armed[w] \in 1 .. Len(hist)

FiredInv ==
    \A w \in Watchers : wst[w] \in {"completed", "removed"} => fired[w] \in 1 .. Len(hist)

IInv == TypeOK /\ HeadInv /\ LockInv /\ PassInv /\ ArmInv /\ FiredInv /\ WatcherVerdictExact

-----------------------------------------------------------------------------
(* What the proofs use of the constants. *)
LEMMA Constants ==
    /\ MaxRevision \in Nat /\ MaxFaults \in Nat /\ MaxCrashes \in Nat
    /\ NoCaller \notin Threads /\ Retrier \in Threads
  BY GraphWatchersAssumption DEF Threads

(* The three verdicts of a boundary. *)
LEMMA ResultValues ==
    ASSUME NEW w, NEW r
    PROVE  /\ graph_condition_result(w, r) \in {"active", "completed", "removed"}
           /\ graph_watcher_boundary_result(w, r) \in {"active", "completed", "removed"}
  BY DEF graph_condition_result, graph_watcher_boundary_result

(* A verdict depends on the history and the watcher's own arming revision. *)
LEMMA ResultUnchanged ==
    ASSUME hist' = hist, NEW w, armed'[w] = armed[w], NEW r
    PROVE  graph_watcher_boundary_result(w, r)' = graph_watcher_boundary_result(w, r)
  BY DEF graph_condition_result, graph_watcher_boundary_result

(* Accepting a boundary changes no earlier verdict. *)
LEMMA ResultStable ==
    ASSUME TypeOK, NEW b \in Boundaries, hist' = Append(hist, b), armed' = armed,
           NEW w \in Watchers, NEW r \in 1 .. Len(hist)
    PROVE  graph_watcher_boundary_result(w, r)' = graph_watcher_boundary_result(w, r)
  <1>1. hist'[r] = hist[r]
    BY DEF TypeOK
  <1>2. armed[w] \in Nat
    BY DEF TypeOK
  <1>3. \A q \in armed[w] + 1 .. r : hist'[q] = hist[q]
    <2> TAKE q \in armed[w] + 1 .. r
    <2>1. q \in 1 .. Len(hist)
      BY <1>2 DEF TypeOK
    <2> QED BY <2>1 DEF TypeOK
  <1> QED BY <1>1, <1>3 DEF graph_condition_result, graph_watcher_boundary_result

(* The verdict clause of one watcher that keeps its row, as long as neither
   the history nor the head moves. *)
LEMMA VerdictFramed ==
    ASSUME IInv, hist' = hist, consumed' = consumed, NEW w \in Watchers,
           armed'[w] = armed[w], fired'[w] = fired[w],
           wst'[w] \in {wst[w], "none", "arming", "stopped"}
    PROVE  /\ wst'[w] = "active" =>
                (\A r \in armed[w] + 1 .. consumed : graph_watcher_boundary_result(w, r) = "active")'
           /\ wst'[w] = "removed" => FirstDeciding(w, fired[w])'
           /\ wst'[w] = "completed" =>
                \/ FirstDeciding(w, fired[w])'
                \/ (fired[w] = armed[w] /\ hist[armed[w]].node = "met")'
  <1>1. \A r : graph_watcher_boundary_result(w, r)' = graph_watcher_boundary_result(w, r)
    BY ResultUnchanged
  <1>2. wst'[w] \in {"active", "removed", "completed"} => wst'[w] = wst[w]
    OBVIOUS
  <1> QED BY <1>1, <1>2 DEF IInv, WatcherVerdictExact, FirstDeciding

-----------------------------------------------------------------------------
(* The invariant holds initially: there is no row, no pass and no history. *)
LEMMA InvInit == Init => IInv
  <1> SUFFICES ASSUME Init PROVE IInv
    OBVIOUS
  <1> USE Constants
  <1>1. hist \in Seq(Boundaries) /\ Len(hist) = 0
    BY DEF Init
  <1>2. TypeOK
    <2>1. /\ wst \in [Watchers -> WatcherStates] /\ cpc \in [Threads -> CallerStates]
          /\ armed \in [Watchers -> 0 .. MaxRevision] /\ fired \in [Watchers -> 0 .. MaxRevision]
      BY DEF Init, WatcherStates, CallerStates
    <2>2. /\ next \in [Threads -> 0 .. MaxRevision + 1] /\ upto \in [Threads -> 0 .. MaxRevision]
          /\ consumed \in 0 .. MaxRevision /\ calls \in Nat
          /\ faults \in 0 .. MaxFaults /\ crashes \in 0 .. MaxCrashes
      BY DEF Init
    <2>3. lock \in Threads \cup {NoCaller} /\ retry \in BOOLEAN /\ up \in BOOLEAN
      BY DEF Init
    <2>4. Len(hist) <= MaxRevision
      BY <1>1
    <2> QED BY <1>1, <2>1, <2>2, <2>3, <2>4 DEF TypeOK
  <1>3. HeadInv /\ LockInv /\ PassInv
    BY <1>1 DEF Init, HeadInv, LockInv, PassInv
  <1>4. ArmInv /\ FiredInv /\ WatcherVerdictExact
    BY DEF Init, ArmInv, FiredInv, WatcherVerdictExact
  <1> QED BY <1>2, <1>3, <1>4 DEF IInv

(* Every action preserves the invariant. *)
LEMMA InvStep == IInv /\ [Next]_vars => IInv'
  <1> SUFFICES ASSUME IInv, [Next]_vars PROVE IInv'
    OBVIOUS
  <1> USE Constants
  <1>0. /\ consumed \in Nat /\ Len(hist) \in Nat /\ hist \in Seq(Boundaries)
        /\ \A w \in Watchers : armed[w] \in Nat /\ fired[w] \in Nat
        /\ \A c \in Threads : next[c] \in Nat /\ upto[c] \in Nat
    BY DEF IInv, TypeOK
  <1>1. ASSUME NEW b \in Boundaries, AcceptBoundary(b) PROVE IInv'
    <2>1. Len(hist') = Len(hist) + 1 /\ hist' \in Seq(Boundaries)
          /\ \A r \in 1 .. Len(hist) : hist'[r] = hist[r]
      BY <1>0, <1>1 DEF AcceptBoundary
    <2>2. TypeOK' /\ HeadInv' /\ LockInv' /\ PassInv' /\ ArmInv' /\ FiredInv'
      BY <1>0, <1>1, <2>1
      DEF AcceptBoundary, IInv, TypeOK, HeadInv, LockInv, PassInv, ArmInv, FiredInv
    <2>3. \A w \in Watchers, r \in 1 .. Len(hist) :
             graph_watcher_boundary_result(w, r)' = graph_watcher_boundary_result(w, r)
      BY <1>1, ResultStable DEF AcceptBoundary, IInv
    <2>4. WatcherVerdictExact'
      <3> SUFFICES ASSUME NEW w \in Watchers
          PROVE  /\ (wst[w] = "active" =>
                       \A r \in armed[w] + 1 .. consumed :
                          graph_watcher_boundary_result(w, r) = "active")'
                 /\ (wst[w] = "removed" => FirstDeciding(w, fired[w]))'
                 /\ (wst[w] = "completed" =>
                       \/ FirstDeciding(w, fired[w])
                       \/ fired[w] = armed[w] /\ hist[armed[w]].node = "met")'
        BY DEF WatcherVerdictExact
      <3>1. wst' = wst /\ armed' = armed /\ fired' = fired /\ consumed' = consumed
        BY <1>1 DEF AcceptBoundary
      <3>2. (wst[w] = "active" => \A r \in armed[w] + 1 .. consumed :
                                     graph_watcher_boundary_result(w, r) = "active")'
        BY <1>0, <2>3, <3>1 DEF IInv, WatcherVerdictExact, HeadInv
      <3>3. wst[w] \in {"completed", "removed"} /\ FirstDeciding(w, fired[w])
               => FirstDeciding(w, fired[w])'
        BY <1>0, <2>3, <3>1 DEF IInv, FirstDeciding, FiredInv
      <3>4. wst[w] = "completed" => hist'[armed[w]] = hist[armed[w]]
        BY <2>1 DEF IInv, ArmInv
      <3> QED BY <3>1, <3>2, <3>3, <3>4 DEF IInv, WatcherVerdictExact
    <2> QED BY <2>2, <2>4 DEF IInv
  <1>2. ASSUME NEW v \in Watchers, ReadsGraph(v) PROVE IInv'
    <2>1. TypeOK' /\ HeadInv' /\ LockInv' /\ PassInv' /\ ArmInv' /\ FiredInv'
      BY <1>0, <1>2
      DEF ReadsGraph, IInv, TypeOK, HeadInv, LockInv, PassInv, ArmInv, FiredInv, WatcherStates
    <2>2. \A w \in Watchers : w # v => wst'[w] = wst[w] /\ armed'[w] = armed[w]
      BY <1>2 DEF ReadsGraph, IInv, TypeOK
    <2>3. wst'[v] = "arming" /\ hist' = hist /\ consumed' = consumed /\ fired' = fired
      BY <1>2 DEF ReadsGraph, IInv, TypeOK
    <2>4. WatcherVerdictExact'
      BY <2>2, <2>3, VerdictFramed DEF WatcherVerdictExact
    <2> QED BY <2>1, <2>4 DEF IInv
  <1>3. ASSUME NEW v \in Watchers, arm_watchers(v) PROVE IInv'
    <2>0. graph_condition_result(v, armed[v]) = "completed" => hist[armed[v]].node = "met"
      BY <1>0 DEF graph_condition_result
    <2>a. TypeOK'
      <3>1. wst' \in [Watchers -> WatcherStates]
        BY <1>3 DEF arm_watchers, IInv, TypeOK, WatcherStates
      <3>2. armed' \in [Watchers -> 0 .. MaxRevision]
        BY <1>3 DEF arm_watchers, IInv, TypeOK
      <3>4. fired' \in [Watchers -> 0 .. MaxRevision]
        <4>1. armed[v] \in 0 .. MaxRevision /\ 0 \in 0 .. MaxRevision
          BY DEF IInv, TypeOK
        <4>2. \/ fired' = fired
              \/ fired' = [fired EXCEPT ![v] = armed[v]]
              \/ fired' = [fired EXCEPT ![v] = 0]
          BY <1>3 DEF arm_watchers
        <4> QED BY <4>1, <4>2 DEF IInv, TypeOK
      <3>3. calls' \in Nat
        BY <1>3 DEF arm_watchers, IInv, TypeOK
      <3> QED BY <1>3, <3>1, <3>2, <3>3, <3>4 DEF arm_watchers, IInv, TypeOK
    <2>b. HeadInv' /\ LockInv' /\ PassInv'
      BY <1>0, <1>3 DEF arm_watchers, IInv, HeadInv, LockInv, PassInv
    <2>c. ArmInv' /\ FiredInv'
      BY <1>0, <1>3 DEF arm_watchers, IInv, TypeOK, ArmInv, FiredInv
    <2>1. TypeOK' /\ HeadInv' /\ LockInv' /\ PassInv' /\ ArmInv' /\ FiredInv'
      BY <2>a, <2>b, <2>c
    <2>2. /\ \A w \in Watchers : w # v => /\ wst'[w] = wst[w] /\ armed'[w] = armed[w]
                                          /\ fired'[w] = fired[w]
          /\ hist' = hist /\ consumed' = consumed
      BY <1>3 DEF arm_watchers, IInv, TypeOK
    <2>3. CASE armed[v] >= consumed
      <3>1. armed' = armed /\ wst'[v] \in {"active", "completed"}
            /\ (wst'[v] = "completed" => fired'[v] = armed[v] /\ hist[armed[v]].node = "met")
        BY <1>0, <1>3, <2>0, <2>3 DEF arm_watchers, IInv, TypeOK
      <3>2. \A r \in armed[v] + 1 .. consumed : FALSE
        BY <1>0, <2>3
      <3> QED BY <2>1, <2>2, <3>1, <3>2, VerdictFramed DEF WatcherVerdictExact, IInv
    <2>4. CASE armed[v] < consumed
      <3>1. wst'[v] = "none"
        BY <1>0, <1>3, <2>4 DEF arm_watchers, IInv, TypeOK
      <3> QED BY <2>1, <2>2, <3>1, VerdictFramed DEF WatcherVerdictExact, IInv
    <2> QED BY <1>0, <2>3, <2>4
  <1>4. ASSUME NEW v \in Watchers, StopWatcher(v) PROVE IInv'
    <2>1. TypeOK' /\ HeadInv' /\ LockInv' /\ PassInv' /\ ArmInv' /\ FiredInv'
      BY <1>0, <1>4
      DEF StopWatcher, IInv, TypeOK, HeadInv, LockInv, PassInv, ArmInv, FiredInv, WatcherStates
    <2>2. \A w \in Watchers : wst'[w] \in {wst[w], "stopped"}
      BY <1>4 DEF StopWatcher, IInv, TypeOK
    <2> QED BY <1>4, <2>1, <2>2, VerdictFramed DEF WatcherVerdictExact, IInv, StopWatcher
  <1>5. ASSUME NEW c \in Threads, BeginsPass(c), lock = NoCaller, cpc[c] # "consuming",
               calls' \in Nat
        PROVE  IInv'
    <2>a. /\ next' \in [Threads -> 0 .. MaxRevision + 1] /\ upto' \in [Threads -> 0 .. MaxRevision]
          /\ cpc' \in [Threads -> CallerStates] /\ lock' \in Threads \cup {NoCaller}
      <3>1. 1 \in 0 .. MaxRevision + 1 /\ consumed \in 0 .. MaxRevision + 1
            /\ Len(hist) \in 0 .. MaxRevision
        BY <1>0 DEF IInv, TypeOK
      <3>2. CASE \E w \in Watchers : wst[w] = "active"
        <4>1. /\ next' = [next EXCEPT ![c] = IF consumed = 0 THEN 1 ELSE consumed]
              /\ upto' = [upto EXCEPT ![c] = Len(hist)]
              /\ cpc' = [cpc EXCEPT ![c] = "consuming"]
              /\ lock' = c
          BY <1>5, <3>2 DEF BeginsPass
        <4>2. (IF consumed = 0 THEN 1 ELSE consumed) \in 0 .. MaxRevision + 1
          BY <3>1
        <4>3. next' \in [Threads -> 0 .. MaxRevision + 1]
          BY <4>1, <4>2 DEF IInv, TypeOK
        <4> QED BY <3>1, <4>1, <4>3 DEF IInv, TypeOK, CallerStates
      <3>3. CASE ~\E w \in Watchers : wst[w] = "active"
        BY <1>5, <3>3 DEF BeginsPass, IInv, TypeOK, CallerStates
      <3> QED BY <3>2, <3>3
    <2>b. TypeOK'
      BY <1>5, <2>a DEF BeginsPass, IInv, TypeOK
    <2>1. TypeOK' /\ HeadInv' /\ ArmInv' /\ FiredInv'
      BY <1>0, <1>5, <2>b DEF BeginsPass, IInv, HeadInv, ArmInv, FiredInv
    <2>2. LockInv'
      <3>1. \A d \in Threads : cpc[d] # "consuming"
        BY <1>5 DEF IInv, LockInv, Threads
      <3>2. \A d \in Threads : d # c => cpc'[d] = cpc[d]
        BY <1>5 DEF BeginsPass, IInv, TypeOK
      <3>3. \/ cpc'[c] = "consuming" /\ lock' = c
            \/ cpc'[c] = "succeeded" /\ lock' = NoCaller
        BY <1>5 DEF BeginsPass, IInv, TypeOK
      <3> QED BY <3>1, <3>2, <3>3 DEF LockInv, Threads
    <2>3. PassInv'
      <3>1. \A d \in Threads : d # c => cpc'[d] # "consuming"
        BY <1>5 DEF BeginsPass, IInv, TypeOK, LockInv, Threads
      <3>2. cpc'[c] = "consuming" =>
               /\ next'[c] = IF consumed = 0 THEN 1 ELSE consumed
               /\ upto'[c] = Len(hist)
        BY <1>5 DEF BeginsPass, IInv, TypeOK
      <3>3. hist' = hist /\ consumed' = consumed
        BY <1>5 DEF BeginsPass
      <3> QED BY <1>0, <3>1, <3>2, <3>3 DEF PassInv, IInv, HeadInv
    <2> QED BY <1>5, <2>1, <2>2, <2>3, VerdictFramed DEF WatcherVerdictExact, IInv, BeginsPass
  <1>6. ASSUME NEW c \in Callers, evaluate_graph_wake_boundary(c) PROVE IInv'
    <2>1. calls' \in Nat
      BY <1>6 DEF evaluate_graph_wake_boundary, IInv, TypeOK
    <2> QED BY <1>5, <1>6, <2>1 DEF evaluate_graph_wake_boundary, Threads
  <1>7. CASE RetryDue
    <2>1. TypeOK' /\ HeadInv' /\ LockInv' /\ PassInv' /\ ArmInv' /\ FiredInv'
      BY <1>0, <1>7
      DEF RetryDue, IInv, TypeOK, HeadInv, LockInv, PassInv, ArmInv, FiredInv, CallerStates,
          Threads
    <2> QED BY <1>7, <2>1, VerdictFramed DEF WatcherVerdictExact, IInv, RetryDue
  <1>8. CASE RetryPass
    <2>1. calls' \in Nat
      BY <1>8 DEF RetryPass, IInv, TypeOK
    <2> QED BY <1>5, <1>8, <2>1 DEF RetryPass, Threads
  <1>9. ASSUME NEW c \in Threads, consume_graph_watcher_boundary(c) PROVE IInv'
    <2> DEFINE r == next[c]
    <2>1. r \in 1 .. consumed + 1 /\ r <= Len(hist) /\ r <= upto[c] /\ upto[c] <= MaxRevision
      BY <1>0, <1>9 DEF consume_graph_watcher_boundary, IInv, PassInv, TypeOK
    <2>2. hist' = hist /\ armed' = armed
      BY <1>9 DEF consume_graph_watcher_boundary
    <2>3. \A w, q : graph_watcher_boundary_result(w, q)' = graph_watcher_boundary_result(w, q)
      BY <2>2, ResultUnchanged
    <2>4. CASE consumed < r
      <3>1. consumed' = r /\ r = consumed + 1
        BY <1>0, <1>9, <2>1, <2>4 DEF consume_graph_watcher_boundary
      <3>2. \A w \in Watchers :
               IF wst[w] = "active" /\ armed[w] < r /\ graph_watcher_boundary_result(w, r) # "active"
                 THEN wst'[w] = graph_watcher_boundary_result(w, r) /\ fired'[w] = r
                 ELSE wst'[w] = wst[w] /\ fired'[w] = fired[w]
        BY <1>9, <2>4 DEF consume_graph_watcher_boundary, Evaluated
      <3>3. TypeOK'
        <4>1. wst' \in [Watchers -> WatcherStates] /\ fired' \in [Watchers -> 0 .. MaxRevision]
          <5>1. r \in 0 .. MaxRevision
            BY <1>0, <2>1
          <5>2. \A w \in Watchers : graph_watcher_boundary_result(w, r) \in WatcherStates
            BY ResultValues DEF WatcherStates
          <5>3. \A w \in Watchers : wst'[w] \in WatcherStates /\ fired'[w] \in 0 .. MaxRevision
            BY <3>2, <5>1, <5>2 DEF IInv, TypeOK
          <5>4. /\ wst' = [w \in Watchers |-> wst'[w]]
                /\ fired' = [w \in Watchers |-> fired'[w]]
            BY <1>9, <2>4 DEF consume_graph_watcher_boundary
          <5> QED BY <5>3, <5>4
        <4> QED BY <1>0, <1>9, <2>1, <2>4, <4>1 DEF consume_graph_watcher_boundary, IInv, TypeOK
      <3>4. HeadInv' /\ LockInv' /\ PassInv'
        BY <1>0, <1>9, <2>1, <2>2, <3>1
        DEF consume_graph_watcher_boundary, IInv, TypeOK, HeadInv, LockInv, PassInv
      <3>5. ArmInv' /\ FiredInv'
        BY <1>0, <2>1, <2>2, <3>2, ResultValues DEF IInv, ArmInv, FiredInv
      <3>6. WatcherVerdictExact'
        <4> SUFFICES ASSUME NEW w \in Watchers
            PROVE  /\ (wst[w] = "active" =>
                         \A q \in armed[w] + 1 .. consumed :
                            graph_watcher_boundary_result(w, q) = "active")'
                   /\ (wst[w] = "removed" => FirstDeciding(w, fired[w]))'
                   /\ (wst[w] = "completed" =>
                         \/ FirstDeciding(w, fired[w])
                         \/ fired[w] = armed[w] /\ hist[armed[w]].node = "met")'
          BY DEF WatcherVerdictExact
        <4>1. CASE w \in Evaluated(r)
          <5>1. /\ wst[w] = "active" /\ armed[w] < r /\ fired'[w] = r
                /\ wst'[w] = graph_watcher_boundary_result(w, r) /\ wst'[w] # "active"
            BY <3>2, <4>1 DEF Evaluated
          <5>2. \A q \in armed[w] + 1 .. consumed : graph_watcher_boundary_result(w, q) = "active"
            BY <5>1 DEF IInv, WatcherVerdictExact
          <5>3. \A q \in armed[w] + 1 .. r - 1 : graph_watcher_boundary_result(w, q) = "active"
            BY <1>0, <3>1, <5>2
          <5>4. FirstDeciding(w, fired[w])'
            BY <2>2, <2>3, <5>1, <5>3 DEF FirstDeciding
          <5> QED BY <5>1, <5>4
        <4>2. CASE w \notin Evaluated(r)
          <5>1. wst'[w] = wst[w] /\ fired'[w] = fired[w]
            BY <3>2, <4>2 DEF Evaluated
          <5>2. ASSUME wst[w] = "active", NEW q \in armed[w] + 1 .. r
                PROVE  graph_watcher_boundary_result(w, q) = "active"
            <6>1. q = r => graph_watcher_boundary_result(w, q) = "active"
              BY <1>0, <2>1, <4>2, <5>2 DEF Evaluated
            <6>2. q # r => q \in armed[w] + 1 .. consumed
              BY <1>0, <3>1
            <6> QED BY <5>2, <6>1, <6>2 DEF IInv, WatcherVerdictExact
          <5>3. FirstDeciding(w, fired[w])' <=> FirstDeciding(w, fired[w])
            BY <2>2, <2>3, <5>1 DEF FirstDeciding
          <5> QED BY <2>2, <2>3, <3>1, <5>1, <5>2, <5>3 DEF IInv, WatcherVerdictExact
        <4> QED BY <4>1, <4>2
      <3> QED BY <3>3, <3>4, <3>5, <3>6 DEF IInv
    <2>5. CASE ~(consumed < r)
      <3>1. wst' = wst /\ fired' = fired /\ consumed' = consumed
        BY <1>9, <2>5 DEF consume_graph_watcher_boundary
      <3>2. TypeOK' /\ HeadInv' /\ LockInv' /\ PassInv' /\ ArmInv' /\ FiredInv'
        BY <1>0, <1>9, <2>1, <2>5, <3>1
        DEF consume_graph_watcher_boundary, IInv, TypeOK, HeadInv, LockInv, PassInv, ArmInv,
            FiredInv
      <3> QED BY <2>2, <3>1, <3>2, VerdictFramed DEF WatcherVerdictExact, IInv
    <2> QED BY <2>4, <2>5
  <1>10. ASSUME NEW c \in Threads, EndsPass(c) \/ PassFails(c) PROVE IInv'
    <2>a. /\ next' \in [Threads -> 0 .. MaxRevision + 1] /\ upto' \in [Threads -> 0 .. MaxRevision]
          /\ cpc' \in [Threads -> CallerStates] /\ lock' \in Threads \cup {NoCaller}
          /\ faults' \in 0 .. MaxFaults
      <3>1. /\ next' = [next EXCEPT ![c] = 0]
            /\ upto' = [upto EXCEPT ![c] = 0]
            /\ lock' = NoCaller
            /\ \E how \in {"succeeded", "failed"} : cpc' = [cpc EXCEPT ![c] = how]
        BY <1>10 DEF EndsPass, PassFails, LeavesPass
      <3>2. faults' \in 0 .. MaxFaults
        BY <1>10 DEF EndsPass, PassFails, IInv, TypeOK
      <3>3. cpc' \in [Threads -> CallerStates]
        BY <3>1 DEF IInv, TypeOK, CallerStates
      <3> QED BY <3>1, <3>2, <3>3 DEF IInv, TypeOK
    <2>b. TypeOK'
      BY <1>10, <2>a DEF EndsPass, PassFails, LeavesPass, IInv, TypeOK
    <2>1. TypeOK' /\ HeadInv' /\ ArmInv' /\ FiredInv'
      BY <1>10, <2>b DEF EndsPass, PassFails, LeavesPass, IInv, HeadInv, ArmInv, FiredInv
    <2>2. LockInv' /\ PassInv'
      <3>1. cpc[c] = "consuming" /\ lock' = NoCaller /\ cpc'[c] # "consuming"
        BY <1>10 DEF EndsPass, PassFails, LeavesPass, IInv, TypeOK
      <3>2. \A d \in Threads : d # c => cpc'[d] = cpc[d] /\ cpc[d] # "consuming"
        BY <1>10, <3>1 DEF EndsPass, PassFails, LeavesPass, IInv, TypeOK, LockInv
      <3> QED BY <3>1, <3>2 DEF LockInv, PassInv, Threads
    <2> QED BY <1>10, <2>1, <2>2, VerdictFramed
        DEF WatcherVerdictExact, IInv, EndsPass, PassFails, LeavesPass
  <1>11. ASSUME NEW c \in Threads, SettlesRetry(c) PROVE IInv'
    <2>1. TypeOK' /\ HeadInv' /\ LockInv' /\ PassInv' /\ ArmInv' /\ FiredInv'
      BY <1>0, <1>11
      DEF SettlesRetry, IInv, TypeOK, HeadInv, LockInv, PassInv, ArmInv, FiredInv, CallerStates
    <2> QED BY <1>11, <2>1, VerdictFramed DEF WatcherVerdictExact, IInv, SettlesRetry
  <1>12. CASE ProcessDies
    <2>0. TypeOK'
      <3>1. /\ next' \in [Threads -> 0 .. MaxRevision + 1] /\ upto' \in [Threads -> 0 .. MaxRevision]
            /\ cpc' \in [Threads -> CallerStates] /\ crashes' \in 0 .. MaxCrashes
        BY <1>12 DEF ProcessDies, IInv, TypeOK, CallerStates
      <3>2. wst' \in [Watchers -> WatcherStates] /\ armed' \in [Watchers -> 0 .. MaxRevision]
        BY <1>12 DEF ProcessDies, IInv, TypeOK, WatcherStates
      <3> QED BY <1>12, <3>1, <3>2 DEF ProcessDies, IInv, TypeOK
    <2>1. TypeOK' /\ HeadInv' /\ LockInv' /\ PassInv' /\ ArmInv' /\ FiredInv'
      BY <1>0, <1>12, <2>0
      DEF ProcessDies, IInv, HeadInv, LockInv, PassInv, ArmInv, FiredInv, Threads
    <2>2. \A w \in Watchers : wst'[w] # "none" => wst'[w] = wst[w] /\ armed'[w] = armed[w]
      BY <1>12 DEF ProcessDies, IInv, TypeOK
    <2>3. WatcherVerdictExact'
      BY <1>12, <2>2, VerdictFramed DEF WatcherVerdictExact, ProcessDies
    <2> QED BY <2>1, <2>3 DEF IInv
  <1>13. CASE sweep_graph_conditions_at_startup
    <2>1. TypeOK' /\ HeadInv' /\ LockInv' /\ PassInv' /\ ArmInv' /\ FiredInv'
      BY <1>0, <1>13
      DEF sweep_graph_conditions_at_startup, IInv, TypeOK, HeadInv, LockInv, PassInv, ArmInv,
          FiredInv
    <2> QED BY <1>13, <2>1, VerdictFramed
        DEF WatcherVerdictExact, IInv, sweep_graph_conditions_at_startup
  <1>14. CASE UNCHANGED vars
    <2>1. TypeOK' /\ HeadInv' /\ LockInv' /\ PassInv' /\ ArmInv' /\ FiredInv'
      BY <1>14 DEF vars, IInv, TypeOK, HeadInv, LockInv, PassInv, ArmInv, FiredInv
    <2> QED BY <1>14, <2>1, VerdictFramed DEF WatcherVerdictExact, IInv, vars
  <1> QED
    BY <1>1, <1>2, <1>3, <1>4, <1>6, <1>7, <1>8, <1>9, <1>10, <1>11, <1>12, <1>13, <1>14
    DEF Next

(* The conjunction above is an invariant of the specification. *)
LEMMA Invariance == Spec => []IInv
  BY InvInit, InvStep, PTL DEF Spec

(***************************************************************************)
(* Every watcher's status is the one the accepted history gives it, for    *)
(* any number of watchers, callers, revisions, errors and restarts.        *)
(***************************************************************************)
THEOREM VerdictsAreExact == Spec => []WatcherVerdictExact
  <1>1. IInv => WatcherVerdictExact
    BY DEF IInv
  <1> QED BY <1>1, Invariance, PTL

(***************************************************************************)
(* The durable head moves only to the next accepted boundary.              *)
(***************************************************************************)
THEOREM HeadIsOrdered == Spec => HeadMovesInOrder
  <1>1. IInv /\ [Next]_vars
          => [consumed' # consumed => consumed' = consumed + 1 /\ consumed' <= Len(hist)]_vars
    <2> SUFFICES ASSUME IInv, Next, consumed' # consumed
        PROVE  consumed' = consumed + 1 /\ consumed' <= Len(hist)
      OBVIOUS
    <2>1. PICK c \in Threads : consume_graph_watcher_boundary(c)
      BY DEF Next, AcceptBoundary, ReadsGraph, arm_watchers, StopWatcher,
             evaluate_graph_wake_boundary, BeginsPass, RetryDue, RetryPass, EndsPass, PassFails,
             LeavesPass, SettlesRetry, ProcessDies, sweep_graph_conditions_at_startup
    <2> QED BY <2>1 DEF consume_graph_watcher_boundary, IInv, PassInv, TypeOK
  <1> QED BY <1>1, Invariance, PTL DEF Spec, HeadMovesInOrder

-----------------------------------------------------------------------------
(* The deliveries. *)

(* What a turn names was claimed, and only turns that were begun name anything. *)
ClaimInv ==
    \A t \in Turns : /\ names[t] \subseteq notified
                     /\ turn[t] = "none" => names[t] = {}

(* Whoever stops a row claims it and leaves it stopped, so nobody stops it again. *)
StopInv == \A w \in ChatWatchers : stoppedBy[w] # "none" => w \in notified /\ status[w] = "stopped"

(* The conversation's live turn. *)
TurnInv == \A s, t \in Turns : turn[s] = "active" /\ turn[t] = "active" => s = t

(* A delivery in its claim holds the delivery lock, and neither the closing of
   admission nor a new generation of the retry worker has come in between. *)
ClaimLockInv ==
    \A d \in Deliverers : dpc[d] = "locked" => dlock = d /\ accepting /\ (d \in RetryThreads => lease = d)

SoundInv == WokenOnce /\ StopExcludesWake /\ GroupDeliveredWhole

DeliveryInv == WDTypeOK /\ ClaimInv /\ StopInv /\ TurnInv /\ ClaimLockInv /\ SoundInv

-----------------------------------------------------------------------------
(* What the proofs use of the constants. *)
LEMMA DeliveryFacts ==
    /\ NoThread \notin Deliverers /\ Poller \in Deliverers /\ RetryThreads \subseteq Deliverers
    /\ Wakes \subseteq Turns /\ HumanTurns \subseteq Turns /\ ErrorLimit \in Nat /\ ErrorLimit > 0
    /\ \A s \in Setups : s.closes \in Nat /\ s.crashes \in Nat /\ s.armed \subseteq ChatWatchers
  BY DeliveryAssumption DEF Deliverers, Turns

(* A conversation whose live turns are all one has at most one. *)
LEMMA OneLiveTurn == ASSUME TurnInv PROVE OneTurnPerChat
  <1> DEFINE Live == {t \in Turns : turn[t] = "active"}
  <1>1. CASE Live = {}
    BY <1>1, FS_EmptySet DEF OneTurnPerChat
  <1>2. CASE Live # {}
    <2>1. PICK t \in Turns : turn[t] = "active"
      BY <1>2
    <2>2. Live = {t}
      BY <2>1 DEF TurnInv
    <2>3. Cardinality({t}) = 1
      BY FS_Singleton
    <2> QED BY <2>2, <2>3 DEF OneTurnPerChat
  <1> QED BY <1>1, <1>2

LEMMA DeliveryInvSound == DeliveryInv => WakesAreSound
  BY OneLiveTurn DEF DeliveryInv, SoundInv, WakesAreSound

(* A unit found claimable holds rows that nobody claimed or stopped, and of a group every
   member that no agent retired. *)
LEMMA ClaimableUnit ==
    ASSUME NEW S, Claimable(S)
    PROVE  /\ \A w \in S : status[w] \in {"completed", "degraded"} /\ w \notin notified
           /\ S \cap Grouped # {} => \A w \in Grouped : stoppedBy[w] # "agent" => w \in S
  BY DEF Claimable, _ready_group_members

-----------------------------------------------------------------------------
(* Everything is armed, nothing is claimed. *)
LEMMA DeliveryInit == WDInit => DeliveryInv
  <1> SUFFICES ASSUME WDInit PROVE DeliveryInv
    OBVIOUS
  <1>1. WDTypeOK
    BY DeliveryFacts DEF WDInit, WDTypeOK
  <1>2. ClaimInv /\ StopInv /\ TurnInv /\ ClaimLockInv
    BY DeliveryFacts DEF WDInit, ClaimInv, StopInv, TurnInv, ClaimLockInv
  <1>3. SoundInv
    BY DeliveryFacts DEF WDInit, SoundInv, WokenOnce, StopExcludesWake, GroupDeliveredWhole, Turns
  <1> QED BY <1>1, <1>2, <1>3 DEF DeliveryInv

-----------------------------------------------------------------------------
(* A step that leaves rows and turns alone keeps what relates them. *)
LEMMA RowsFramed ==
    ASSUME DeliveryInv, UNCHANGED <<rowVars, turnVars, setup>>
    PROVE  ClaimInv' /\ StopInv' /\ TurnInv' /\ SoundInv'
  BY DEF DeliveryInv, rowVars, turnVars, ClaimInv, StopInv, TurnInv, SoundInv, WokenOnce,
         StopExcludesWake,
         GroupDeliveredWhole, Grouped

(* A row that nobody claimed gets another status, and is stopped only with a claim. *)
LEMMA RowMoves ==
    ASSUME DeliveryInv, UNCHANGED <<turnVars, setup>>, WDTypeOK', notified \subseteq notified',
           NEW S \in SUBSET ChatWatchers,
           \A w \in S : w \notin notified,
           \A w \in ChatWatchers \ S : status'[w] = status[w] /\ stoppedBy'[w] = stoppedBy[w]
                                   /\ (w \in notified' => w \in notified),
           \A w \in S : \/ status'[w] = "stopped" /\ w \in notified' /\ stoppedBy'[w] # "none"
                        \/ status'[w] # "stopped" /\ w \notin notified' /\ stoppedBy'[w] = stoppedBy[w]
    PROVE  ClaimInv' /\ StopInv' /\ TurnInv' /\ SoundInv'
  <1>1. \A w \in S : stoppedBy[w] = "none" /\ \A t \in Turns : w \notin names[t]
    BY DEF DeliveryInv, StopInv, ClaimInv
  <1>2. ClaimInv' /\ TurnInv' /\ WokenOnce'
    BY DEF DeliveryInv, turnVars, ClaimInv, TurnInv, SoundInv, WokenOnce
  <1>3. StopInv'
    BY <1>1 DEF DeliveryInv, StopInv
  <1>4. StopExcludesWake'
    <2> SUFFICES ASSUME NEW w \in ChatWatchers
        PROVE  /\ status'[w] = "stopped" => \A t \in Turns : w \notin names[t]
               /\ w \in notified' => status'[w] = "stopped" \/ \E t \in Turns : w \in names[t]
               /\ (\E t \in Turns : w \in names[t]) => status'[w] \in {"completed", "degraded"}
      BY DEF StopExcludesWake, turnVars
    <2>1. CASE w \in S
      BY <1>1, <2>1
    <2>2. CASE w \notin S
      BY <2>2 DEF DeliveryInv, SoundInv, StopExcludesWake
    <2> QED BY <2>1, <2>2
  <1>5. GroupDeliveredWhole'
    <2> SUFFICES ASSUME NEW t \in Turns, names[t] \cap Grouped # {}, NEW w \in Grouped,
                        stoppedBy'[w] # "agent"
        PROVE  w \in names[t]
      BY DEF GroupDeliveredWhole, turnVars, Grouped
    <2>1. Grouped \subseteq ChatWatchers
      BY DeliveryAssumption DEF DeliveryInv, WDTypeOK, Grouped
    <2>2. stoppedBy[w] # "agent"
      BY <1>1, <2>1
    <2> QED BY <2>2 DEF DeliveryInv, SoundInv, GroupDeliveredWhole
  <1> QED BY <1>2, <1>3, <1>4, <1>5 DEF SoundInv

(* Every action preserves the invariant. *)
LEMMA DeliveryStep == DeliveryInv /\ [WDNext /\ UNCHANGED setup]_<<wdVars, setup>> => DeliveryInv'
  <1> SUFFICES ASSUME DeliveryInv, [WDNext /\ UNCHANGED setup]_<<wdVars, setup>> PROVE DeliveryInv'
    OBVIOUS
  <1> USE DeliveryFacts
  <1>0. setup' = setup /\ setup.closes \in Nat /\ setup.crashes \in Nat
    BY DEF wdVars, DeliveryInv, WDTypeOK
  <1>1. ASSUME NEW S \in SUBSET ChatWatchers, PollBegins(S) PROVE DeliveryInv'
    <2>1. WDTypeOK' /\ ClaimLockInv'
      BY <1>0, <1>1 DEF DeliveryInv, WDTypeOK, ClaimLockInv, PollBegins, rowVars, turnVars, procVars
    <2> QED BY <1>0, <1>1, <2>1, RowsFramed DEF DeliveryInv, PollBegins
  <1>2. ASSUME NEW w \in ChatWatchers, NEW r \in {"active", "completed", "degraded"},
               record_watcher_check(w, r)
        PROVE  DeliveryInv'
    <2>1. WDTypeOK' /\ ClaimLockInv'
      BY <1>0, <1>2 DEF DeliveryInv, WDTypeOK, ClaimLockInv, record_watcher_check, turnVars, procVars,
                        Open
    <2>2. CASE status[w] \in Open /\ w \notin notified
      <3>1. /\ UNCHANGED <<turnVars, notified, stoppedBy>> /\ status'[w] # "stopped"
            /\ \A x \in ChatWatchers \ {w} : status'[x] = status[x]
        BY <1>2, <2>2 DEF record_watcher_check, DeliveryInv, WDTypeOK
      <3> QED BY <1>0, <2>1, <2>2, <3>1, RowMoves, {w} \in SUBSET ChatWatchers DEF DeliveryInv
    <2>3. CASE ~(status[w] \in Open /\ w \notin notified)
      BY <1>0, <1>2, <2>1, <2>3, RowsFramed DEF DeliveryInv, record_watcher_check, rowVars
    <2> QED BY <2>2, <2>3
  <1>3. ASSUME NEW w \in ChatWatchers, NEW r \in {"completed", "stopped"}, BoundaryDecides(w, r)
        PROVE  DeliveryInv'
    <2>1. WDTypeOK' /\ ClaimLockInv'
      BY <1>0, <1>3 DEF DeliveryInv, WDTypeOK, ClaimLockInv, BoundaryDecides, turnVars, procVars
    <2>2. w \notin notified
      BY <1>3 DEF DeliveryInv, SoundInv, StopExcludesWake, BoundaryDecides
    <2>3. /\ UNCHANGED turnVars /\ notified \subseteq notified'
          /\ \A x \in ChatWatchers \ {w} : status'[x] = status[x] /\ stoppedBy'[x] = stoppedBy[x]
                                        /\ (x \in notified' => x \in notified)
          /\ \/ status'[w] = "stopped" /\ w \in notified' /\ stoppedBy'[w] # "none"
             \/ status'[w] # "stopped" /\ w \notin notified' /\ stoppedBy'[w] = stoppedBy[w]
      BY <1>3, <2>2 DEF BoundaryDecides, DeliveryInv, WDTypeOK
    <2> QED BY <1>0, <2>1, <2>2, <2>3, RowMoves, {w} \in SUBSET ChatWatchers DEF DeliveryInv
  <1>4. ASSUME NEW w \in ChatWatchers, stop_watchers(w) \/ _validate_and_apply_agent_watcher_stops(w)
        PROVE  DeliveryInv'
    <2>1. WDTypeOK' /\ ClaimLockInv'
      BY <1>0, <1>4 DEF DeliveryInv, WDTypeOK, ClaimLockInv, stop_watchers,
                        _validate_and_apply_agent_watcher_stops,
                        turnVars, procVars
    <2>2. /\ UNCHANGED turnVars /\ notified' = notified \cup {w} /\ w \notin notified
          /\ \A x \in ChatWatchers \ {w} : status'[x] = status[x] /\ stoppedBy'[x] = stoppedBy[x]
          /\ status'[w] = "stopped" /\ stoppedBy'[w] # "none"
      BY <1>4 DEF stop_watchers, _validate_and_apply_agent_watcher_stops, DeliveryInv, WDTypeOK
    <2> QED BY <1>0, <2>1, <2>2, RowMoves, {w} \in SUBSET ChatWatchers DEF DeliveryInv
  <1>5. ASSUME NEW d \in Deliverers, ReadsReadyGroups(d) PROVE DeliveryInv'
    <2>1. Ready \subseteq ChatWatchers
      BY DeliveryAssumption DEF Ready, _ready_group_members, Grouped, DeliveryInv, WDTypeOK
    <2>2. WDTypeOK' /\ ClaimLockInv'
      BY <1>0, <1>5, <2>1 DEF DeliveryInv, WDTypeOK, ClaimLockInv, ReadsReadyGroups, rowVars, turnVars,
                              procVars
    <2> QED BY <1>0, <1>5, <2>2, RowsFramed DEF DeliveryInv, ReadsReadyGroups
  <1>6. ASSUME NEW d \in Deliverers, resolve_watcher_delivery_authorizer(d) PROVE DeliveryInv'
    <2>1. unit[d] \in SUBSET ChatWatchers
      BY DEF DeliveryInv, WDTypeOK
    <2>2. CASE UNCHANGED rowVars
      <3>1. WDTypeOK' /\ ClaimLockInv'
        BY <1>0, <1>6, <2>2
        DEF DeliveryInv, WDTypeOK, ClaimLockInv, resolve_watcher_delivery_authorizer, Returns, rowVars,
            turnVars, procVars
      <3> QED BY <1>0, <1>6, <2>2, <3>1, RowsFramed DEF DeliveryInv, resolve_watcher_delivery_authorizer
    <2>3. CASE /\ Claimable(unit[d])
               /\ status' = [w \in ChatWatchers |-> IF w \in unit[d] THEN "stopped" ELSE status[w]]
               /\ notified' = notified \cup unit[d]
               /\ stoppedBy' = [w \in ChatWatchers |-> IF w \in unit[d] THEN "rcp" ELSE stoppedBy[w]]
               /\ UNCHANGED errs
               /\ Returns(d)
      <3>1. WDTypeOK' /\ ClaimLockInv'
        BY <1>0, <1>6, <2>1, <2>3
        DEF DeliveryInv, WDTypeOK, ClaimLockInv, resolve_watcher_delivery_authorizer, Returns,
            turnVars, procVars
      <3>2. /\ \A w \in unit[d] : w \notin notified /\ status'[w] = "stopped" /\ w \in notified'
                                  /\ stoppedBy'[w] # "none"
            /\ \A w \in ChatWatchers \ unit[d] : status'[w] = status[w] /\ stoppedBy'[w] = stoppedBy[w]
                                            /\ (w \in notified' => w \in notified)
        BY <2>1, <2>3, ClaimableUnit
      <3>3. UNCHANGED turnVars /\ notified \subseteq notified'
        BY <1>6, <2>3 DEF resolve_watcher_delivery_authorizer
      <3> QED BY <1>0, <2>1, <3>1, <3>2, <3>3, RowMoves DEF DeliveryInv
    <2> QED BY <1>6, <2>2, <2>3 DEF resolve_watcher_delivery_authorizer
  <1>7. ASSUME NEW d \in Deliverers, claim_and_spawn(d) PROVE DeliveryInv'
    <2>1. WDTypeOK' /\ ClaimLockInv'
      BY <1>0, <1>7 DEF DeliveryInv, WDTypeOK, ClaimLockInv, claim_and_spawn, Returns, rowVars, turnVars
    <2> QED BY <1>0, <1>7, <2>1, RowsFramed DEF DeliveryInv, claim_and_spawn
  <1>8. ASSUME NEW d \in Deliverers, create_watcher_notification_task(d) PROVE DeliveryInv'
    <2>1. dlock = d /\ unit[d] \subseteq ChatWatchers
      BY <1>8 DEF DeliveryInv, WDTypeOK, ClaimLockInv, create_watcher_notification_task
    <2>2. WDTypeOK' /\ ClaimLockInv'
      BY <1>0, <1>8, <2>1
      DEF DeliveryInv, WDTypeOK, ClaimLockInv, create_watcher_notification_task, Returns, turnVars
    <2>3. CASE UNCHANGED <<notified, turnVars>>
      BY <1>0, <1>8, <2>2, <2>3, RowsFramed DEF DeliveryInv, create_watcher_notification_task, rowVars
    <2>4. ASSUME NEW t \in Wakes, turn[t] = "none", Claimable(unit[d]), ~_has_active_chat_overlap,
                 turn' = [turn EXCEPT ![t] = "active"], names' = [names EXCEPT ![t] = unit[d]],
                 notified' = notified \cup unit[d]
          PROVE  DeliveryInv'
      <3>1. UNCHANGED <<status, stoppedBy>>
        BY <1>8 DEF create_watcher_notification_task
      <3>2. names'[t] = unit[d] /\ \A s \in Turns \ {t} : names'[s] = names[s] /\ turn'[s] = turn[s]
        BY <2>4 DEF DeliveryInv, WDTypeOK
      <3>3. /\ \A w \in unit[d] : status[w] \in {"completed", "degraded"} /\ w \notin notified
            /\ unit[d] \cap Grouped # {} => \A w \in Grouped : stoppedBy[w] # "agent" => w \in unit[d]
        BY <2>4, ClaimableUnit
      <3>4. \A s \in Turns : names[s] \cap unit[d] = {} /\ names[s] \subseteq notified
        BY <3>3 DEF DeliveryInv, ClaimInv
      <3>5. ClaimInv'
        BY <2>4, <3>2, <3>4 DEF DeliveryInv, ClaimInv, WDTypeOK
      <3>6. StopInv'
        BY <2>4, <3>1 DEF DeliveryInv, StopInv
      <3>7. TurnInv'
        BY <2>4, <3>2 DEF TurnInv, _has_active_chat_overlap
      <3>8. WokenOnce'
        BY <3>2, <3>4 DEF DeliveryInv, SoundInv, WokenOnce
      <3>9. StopExcludesWake'
        <4> SUFFICES ASSUME NEW w \in ChatWatchers
            PROVE  /\ status[w] = "stopped" => \A s \in Turns : w \notin names'[s]
                   /\ w \in notified' => status[w] = "stopped" \/ \E s \in Turns : w \in names'[s]
                   /\ (\E s \in Turns : w \in names'[s]) => status[w] \in {"completed", "degraded"}
          BY <3>1 DEF StopExcludesWake
        <4>1. CASE w \in unit[d]
          BY <3>2, <3>3, <4>1
        <4>2. CASE w \notin unit[d]
          <5>1. \A s \in Turns : w \in names'[s] <=> w \in names[s] /\ s # t
            BY <3>2, <4>2
          <5>2. names[t] = {}
            BY <2>4 DEF DeliveryInv, ClaimInv
          <5>3. w \in notified' => w \in notified
            BY <2>4, <4>2
          <5> QED BY <5>1, <5>2, <5>3 DEF DeliveryInv, SoundInv, StopExcludesWake
        <4> QED BY <4>1, <4>2
      <3>10. GroupDeliveredWhole'
        BY <1>0, <3>1, <3>2, <3>3 DEF DeliveryInv, SoundInv, GroupDeliveredWhole, Grouped
      <3> QED BY <2>2, <3>5, <3>6, <3>7, <3>8, <3>9, <3>10 DEF DeliveryInv, SoundInv
    <2> QED BY <1>8, <2>3, <2>4 DEF create_watcher_notification_task
  <1>9. ASSUME NEW t \in Turns, HumanStarts(t) \/ TurnSettles(t) PROVE DeliveryInv'
    <2>1. WDTypeOK' /\ ClaimLockInv'
      BY <1>0, <1>9 DEF DeliveryInv, WDTypeOK, ClaimLockInv, HumanStarts, TurnSettles, rowVars, procVars
    <2>2. /\ UNCHANGED <<status, notified, stoppedBy, names>>
          /\ turn[t] = "none" => turn'[t] = "active"
          /\ \A s \in Turns \ {t} : turn'[s] = turn[s]
          /\ turn'[t] = "active" => \A s \in Turns : turn[s] # "active"
          /\ turn'[t] # "none"
      BY <1>9 DEF DeliveryInv, WDTypeOK, HumanStarts, TurnSettles, rowVars, _has_active_chat_overlap
    <2>3. ClaimInv' /\ StopInv' /\ TurnInv'
      BY <2>2 DEF DeliveryInv, ClaimInv, StopInv, TurnInv
    <2>4. SoundInv'
      BY <1>0, <2>2 DEF DeliveryInv, SoundInv, WokenOnce, StopExcludesWake, GroupDeliveredWhole, Grouped
    <2> QED BY <2>1, <2>3, <2>4 DEF DeliveryInv
  <1>10. ASSUME close_watcher_notifications \/ accept_watcher_notifications PROVE DeliveryInv'
    <2>1. closes' \in 0..setup'.closes
      BY <1>0, <1>10 DEF DeliveryInv, WDTypeOK, close_watcher_notifications,
                         accept_watcher_notifications
    <2>2. WDTypeOK'
      BY <1>0, <1>10, <2>1 DEF DeliveryInv, WDTypeOK, close_watcher_notifications,
                               accept_watcher_notifications,
                         rowVars, turnVars
    <2>3. ClaimLockInv'
      BY <1>10 DEF DeliveryInv, ClaimLockInv, close_watcher_notifications, accept_watcher_notifications
    <2> QED BY <1>0, <1>10, <2>2, <2>3, RowsFramed
            DEF DeliveryInv, close_watcher_notifications, accept_watcher_notifications
  <1>11. ASSUME StopRetryWorker \/ \E d \in RetryThreads : StartRetryWorker(d) PROVE DeliveryInv'
    <2>1. WDTypeOK' /\ ClaimLockInv'
      BY <1>0, <1>11 DEF DeliveryInv, WDTypeOK, ClaimLockInv, StopRetryWorker, StartRetryWorker,
                         rowVars, turnVars
    <2> QED BY <1>0, <1>11, <2>1, RowsFramed DEF DeliveryInv, StopRetryWorker, StartRetryWorker
  <1>12. ASSUME ServerDies PROVE DeliveryInv'
    <2>1. deaths' \in 0..setup'.crashes
      BY <1>0, <1>12 DEF DeliveryInv, WDTypeOK, ServerDies
    <2>2. WDTypeOK'
      BY <1>0, <1>12, <2>1 DEF DeliveryInv, WDTypeOK, ServerDies, rowVars
    <2>3. ClaimLockInv'
      BY <1>12 DEF ClaimLockInv, ServerDies
    <2>4. ClaimInv' /\ StopInv' /\ TurnInv'
      BY <1>12 DEF DeliveryInv, WDTypeOK, ClaimInv, StopInv, TurnInv, ServerDies, rowVars
    <2>5. SoundInv'
      BY <1>0, <1>12 DEF DeliveryInv, ServerDies, SoundInv, WokenOnce, StopExcludesWake,
                         GroupDeliveredWhole,
                         Grouped, rowVars
    <2> QED BY <2>2, <2>4, <2>5, <2>3 DEF DeliveryInv
  <1>13. ASSUME Restart PROVE DeliveryInv'
    <2>1. WDTypeOK' /\ ClaimLockInv'
      BY <1>0, <1>13 DEF DeliveryInv, WDTypeOK, ClaimLockInv, Restart, rowVars, turnVars
    <2> QED BY <1>0, <1>13, <2>1, RowsFramed DEF DeliveryInv, Restart
  <1>14. CASE UNCHANGED <<wdVars, setup>>
    <2>1. WDTypeOK' /\ ClaimLockInv'
      BY <1>14 DEF DeliveryInv, WDTypeOK, ClaimLockInv, wdVars, rowVars, turnVars, procVars
    <2> QED BY <1>14, <2>1, RowsFramed DEF DeliveryInv, wdVars
  <1> QED
    BY <1>1, <1>2, <1>3, <1>4, <1>5, <1>6, <1>7, <1>8, <1>9, <1>10, <1>11, <1>12, <1>13, <1>14
    DEF WDNext, Delivers, Continues

-----------------------------------------------------------------------------
(* A completion wakes one turn at most, none once it is stopped, never beside a live turn
   and with its whole group, for any number of delivering threads, turns and restarts
   (create_watcher_notification_task). *)
THEOREM DeliveriesAreSound == WDSpec => []WakesAreSound
  <1>1. WDSpec => []DeliveryInv
    BY DeliveryInit, DeliveryStep, PTL DEF WDSpec
  <1> QED BY <1>1, DeliveryInvSound, PTL

(* No wake after admission was closed or the generation of its retry worker replaced, for
   any delivery under way (close_watcher_notifications, claim_and_spawn). *)
THEOREM ClosingShutsOutDeliveries == WDSpec => NoWakeWhileClosed
  <1> DEFINE Shut == \A t \in Wakes : turn[t] = "none" /\ turn'[t] = "active" =>
                        accepting /\ (dlock \in RetryThreads => lease = dlock)
  <1>1. ASSUME DeliveryInv, [WDNext /\ UNCHANGED setup]_<<wdVars, setup>> PROVE [Shut]_wdVars
    <2> USE DeliveryFacts
    <2>1. ASSUME NEW d \in Deliverers, create_watcher_notification_task(d) PROVE Shut
      BY <1>1, <2>1 DEF DeliveryInv, ClaimLockInv, create_watcher_notification_task
    <2>2. ASSUME NEW t \in HumanTurns, HumanStarts(t) PROVE Shut
      <3>1. \A x \in Wakes : x # t
        BY DeliveryAssumption
      <3> QED BY <1>1, <2>2, <3>1 DEF DeliveryInv, WDTypeOK, HumanStarts
    <2>3. ASSUME NEW t \in Turns, TurnSettles(t) PROVE Shut
      BY <1>1, <2>3 DEF DeliveryInv, WDTypeOK, TurnSettles
    <2>4. ASSUME ServerDies PROVE Shut
      BY <1>1, <2>4 DEF DeliveryInv, WDTypeOK, ServerDies
    <2>5. CASE turn' = turn
      BY <2>5
    <2> QED
      BY <1>1, <2>1, <2>2, <2>3, <2>4, <2>5
      DEF WDNext, Delivers, Continues, PollBegins, record_watcher_check, BoundaryDecides, stop_watchers,
          _validate_and_apply_agent_watcher_stops, ReadsReadyGroups,
          resolve_watcher_delivery_authorizer,
          claim_and_spawn, HumanStarts, close_watcher_notifications, accept_watcher_notifications,
          StartRetryWorker, StopRetryWorker, Restart, wdVars, turnVars
  <1>2. WDSpec => []DeliveryInv
    BY DeliveryInit, DeliveryStep, PTL DEF WDSpec
  <1> QED BY <1>1, <1>2, PTL DEF WDSpec, NoWakeWhileClosed
==============================================================================
