------------------------------ MODULE GraphProofs ------------------------------
(***************************************************************************)
(* The graph's history on main, and the branch an episode merges into it.  *)
(*                                                                         *)
(* For any number of spaces, revisions, appends, faults and deaths: the    *)
(* servers maintain the canonical log, append reports the truth, mirrors   *)
(* hold committed patches and unpublished files are remembered.            *)
(*                                                                         *)
(* For every graph, every number of merges and writes and every loss or    *)
(* late landing of a publication: merges keep both sides, histories and    *)
(* receipts agree, and a head of the branch is decided once and for good.  *)
(***************************************************************************)
EXTENDS GraphHistory, BranchMerge, FiniteSetTheorems, TLAPS

(* One space adopts an unclaimed project.  Two that do share the stage of its first
   revision, and each can take the other's patch for its own. *)
OneClaimer == \A s, t \in Claimers : s = t

-----------------------------------------------------------------------------
(* The invariant. *)

(* The patch files of f are those of revisions 1 to n. *)
Contiguous(f, n) == n \in 0..MaxRevision /\ \A r \in Revisions : f[r] # NoPatch <=> r <= n

(* The one space that can write the revision after f. *)
MayWrite(f, s) == HomeOf(f) = s \/ (HomeOf(f) = Nobody /\ s \in Claimers)

Awaiting == {"waiting", "lost", "relocking"}
Publishing == {"staging", "sending", "leaving"} \cup Awaiting

(* The patch of s would be the next one of the log. *)
Fits(s) ==
    /\ Revision(s) = LastRevision(log) + 1
    /\ log = [mirror[s] EXCEPT ![Revision(s)] = NoPatch]
    /\ MayWrite(log, s) /\ Admits(log, own[s])

(* While s publishes, its mirror ends in its own patch, which is in the log or the
   next one there; nobody else can write that revision. *)
PublishInv(s) ==
    /\ own[s] \in Patches /\ own[s].id \in 1..made /\ told[own[s].id] = "nothing"
    /\ Revision(s) \in Revisions /\ mirror[s][Revision(s)] = own[s]
    /\ \A q \in Revisions : q # Revision(s) => mirror[s][q] \in {NoPatch, log[q]}
    /\ log[Revision(s)] = own[s] \/ Fits(s)
    /\ pc[s] \in {"staging", "sending"} => Fits(s)
    /\ pc[s] = "leaving" => log[Revision(s)] = own[s]
    /\ pc[s] = "sending" => stage[Revision(s)] = [patch |-> own[s], files |-> mirror[s]]

SpaceInv(s) ==
    /\ Contiguous(mirror[s], Revision(s))
    /\ pc[s] \notin Publishing => own[s] = NoPatch
    /\ pc[s] \notin Publishing /\ synced[s] => \A q \in Revisions : mirror[s][q] \in {NoPatch, log[q]}
    /\ pc[s] = "checking" => synced[s] /\ (MayWrite(mirror[s], s) => mirror[s] = log)
    /\ pc[s] \in Publishing => PublishInv(s)
    /\ pc[s] # "idle" => /\ want[s].to \in Spaces
                         /\ want[s].kind # "transfer" => want[s].to = s
                         /\ want[s].kind = "claim" => s \in Claimers
    /\ crashes = 0 => synced[s]

(* A holder at work: its server waits for it or has given it up.  What it is to
   commit fits the log and was never reported absent; what it has committed is the
   end of the log, and its stage holds the files to publish. *)
HolderInv ==
    lock # Nobody /\ step # "none" =>
        /\ pc[lock] \in {"idle", "locking"} \cup Awaiting
        /\ pc[lock] \in Awaiting => target = Revision(lock)
        /\ pc[lock] \in Awaiting \/ crashes # 0 \/ repair[lock]
        /\ target \in Revisions
        /\ step = "apply" /\ log[target] = NoPatch =>
              /\ stage[target].patch \in Patches /\ stage[target].patch.id \in 1..MaxAppends
              /\ pc[lock] \in Awaiting => stage[target].patch = own[lock]
              /\ target = LastRevision(log) + 1
              /\ Admits(log, stage[target].patch) /\ MayWrite(log, lock)
              /\ told[stage[target].patch.id] # "absent"
              /\ stage[target].files = [log EXCEPT ![target] = stage[target].patch]
        /\ step \in {"apply", "files", "present"} /\ log[target] # NoPatch =>
              stage[target].files = log /\ stage[target].patch \in {NoPatch, log[target]}
        /\ step \in {"files", "ok", "present"} => log[target] # NoPatch
        /\ step = "absent" => log[target] = NoPatch
        /\ step = "ok" => derived = log

(* A number is of one patch, and of a later append only later. *)
IdInv ==
    /\ \A i \in 1..MaxAppends : i > made => told[i] = "nothing"
    /\ \A r \in Revisions : /\ log[r] # NoPatch => log[r].id <= made
                            /\ stage[r].patch # NoPatch => stage[r].patch.id <= made
    /\ \A s, t \in Spaces : own[s] # NoPatch /\ own[t] # NoPatch /\ own[s].id = own[t].id => s = t
    /\ \A s \in Spaces, r \in Revisions : own[s] # NoPatch =>
          /\ log[r] # NoPatch /\ log[r].id = own[s].id => log[r] = own[s] /\ r = Revision(s)
          /\ stage[r].patch # NoPatch /\ stage[r].patch.id = own[s].id =>
                stage[r].patch = own[s] /\ r = Revision(s)

(* Someone owes the files that are behind the log. *)
Owes(s) == repair[s] \/ (pc[s] \in Awaiting /\ log[Revision(s)] # NoPatch)
RepairInv == crashes = 0 => derived = log \/ \E s \in Spaces : Owes(s)

IInv ==
    /\ TypeOK /\ Contiguous(log, LastRevision(log))
    /\ \A s \in Spaces : SpaceInv(s)
    /\ HolderInv /\ IdInv /\ RepairInv /\ ReportsAreTrue

-----------------------------------------------------------------------------
(* Logs without gaps. *)

LEMMA LogConstants ==
    /\ MaxRevision \in Nat /\ MaxAppends \in Nat /\ MaxFaults \in Nat /\ MaxCrashes \in Nat
    /\ Nobody \notin Spaces /\ NoPatch \notin Patches /\ NoPatch \notin Logs /\ Origin \in Logs /\ Claimers \subseteq Spaces
    /\ Revisions = 1..MaxRevision
    /\ \E n \in 0..MaxRevision : Contiguous(Origin, n)
    /\ \A r \in Revisions : Origin[r] # NoPatch => Origin[r].id = 0
  BY LogAssumption, HistoryAssumption DEF Revisions, Contiguous

LEMMA LastIs ==
    ASSUME NEW f, NEW n, Contiguous(f, n)
    PROVE  LastRevision(f) = n
  <1>1. PICK w : w = {r \in Revisions : f[r] # NoPatch}
    OBVIOUS
  <1>2. w = 1..n /\ n \in Nat
    BY <1>1, LogConstants DEF Contiguous
  <1>3. LastRevision(f) = IF w = {} THEN 0 ELSE CHOOSE r \in w : \A q \in w : q <= r
    BY <1>1 DEF LastRevision
  <1>4. CASE n = 0
    BY <1>2, <1>3, <1>4
  <1>5. CASE n # 0
    <2>1. n \in w /\ (\A q \in w : q <= n) /\ w # {}
      BY <1>2, <1>5
    <2>2. \A r \in w : (\A q \in w : q <= r) => r = n
      BY <1>2, <2>1
    <2> QED BY <1>3, <2>1, <2>2
  <1> QED BY <1>4, <1>5

LEMMA LogExtends ==
    ASSUME NEW f \in Logs, Contiguous(f, LastRevision(f)), NEW p \in Patches,
           LastRevision(f) + 1 \in Revisions, NEW g, g = [f EXCEPT ![LastRevision(f) + 1] = p]
    PROVE  g \in Logs /\ LastRevision(g) = LastRevision(f) + 1 /\ Contiguous(g, LastRevision(g))
  <1>1. PICK n : n = LastRevision(f)
    OBVIOUS
  <1>2. n \in 0..MaxRevision /\ n + 1 \in Revisions /\ g = [f EXCEPT ![n + 1] = p] /\ Contiguous(f, n)
    BY <1>1 DEF Contiguous
  <1>3. Contiguous(g, n + 1) /\ g \in Logs
    BY <1>2, LogConstants DEF Contiguous, Logs
  <1> QED BY <1>1, <1>3, LastIs

LEMMA LogShortens ==
    ASSUME NEW f \in Logs, Contiguous(f, LastRevision(f)), LastRevision(f) \in Revisions,
           NEW g, g = [f EXCEPT ![LastRevision(f)] = NoPatch]
    PROVE  g \in Logs /\ LastRevision(g) = LastRevision(f) - 1 /\ Contiguous(g, LastRevision(g))
  <1>1. PICK n : n = LastRevision(f)
    OBVIOUS
  <1>2. n \in Revisions /\ g = [f EXCEPT ![n] = NoPatch] /\ Contiguous(f, n)
    BY <1>1
  <1>3. Contiguous(g, n - 1) /\ g \in Logs
    BY <1>2, LogConstants DEF Contiguous, Logs
  <1> QED BY <1>1, <1>3, LastIs

LEMMA OneWriter ==
    ASSUME OneClaimer, NEW f, NEW s \in Spaces, NEW t \in Spaces, MayWrite(f, s), MayWrite(f, t)
    PROVE  s = t
  BY LogConstants DEF MayWrite, OneClaimer

LEMMA InitHolds == Init => IInv
  <1> SUFFICES ASSUME Init PROVE IInv
    OBVIOUS
  <1>1. /\ log = Origin /\ derived = Origin /\ stage = [r \in Revisions |-> Nothing]
        /\ lock = Nobody /\ conn = FALSE /\ step = "none" /\ target = 0
        /\ pc = [s \in Spaces |-> "idle"] /\ want = [s \in Spaces |-> Idle]
        /\ own = [s \in Spaces |-> NoPatch] /\ mirror = [s \in Spaces |-> Origin]
        /\ synced = [s \in Spaces |-> TRUE] /\ repair = [s \in Spaces |-> FALSE]
        /\ told = [i \in 1..MaxAppends |-> "nothing"] /\ made = 0 /\ faults = 0 /\ crashes = 0
    BY DEF Init, LogInit
  <1>2. Origin \in Logs /\ Contiguous(Origin, LastRevision(Origin))
    BY LogConstants, LastIs
  <1>3. TypeOK
    <2>1. stage \in [Revisions -> [patch : Patches \cup {NoPatch}, files : Logs \cup {NoPatch}]]
      BY <1>1 DEF Nothing
    <2>2. want \in [Spaces -> [kind : Kinds, to : Spaces \cup {Nobody}, base : 0..MaxRevision]]
      BY <1>1, LogConstants DEF Idle, Kinds
    <2>3. /\ log \in Logs /\ derived \in Logs
          /\ lock \in Spaces \cup {Nobody} /\ conn \in BOOLEAN
          /\ step \in {"none", "apply", "files", "ok", "present", "absent"}
          /\ lock = Nobody => step = "none"
      BY <1>1, <1>2
    <2>4. /\ target \in 0..MaxRevision /\ made \in 0..MaxAppends
          /\ faults \in 0..MaxFaults /\ crashes \in 0..MaxCrashes
      BY <1>1, LogConstants
    <2>5. /\ pc \in [Spaces -> {"idle", "locking", "syncing", "checking", "staging", "sending",
                                "waiting", "lost", "relocking", "leaving"}]
          /\ own \in [Spaces -> Patches \cup {NoPatch}]
          /\ mirror \in [Spaces -> Logs]
      BY <1>1, <1>2
    <2>6. /\ synced \in [Spaces -> BOOLEAN] /\ repair \in [Spaces -> BOOLEAN]
          /\ told \in [1..MaxAppends -> {"nothing", "success", "absent", "unknown", "raised"}]
      BY <1>1
    <2> QED BY <2>1, <2>2, <2>3, <2>4, <2>5, <2>6 DEF TypeOK
  <1>4. \A s \in Spaces : SpaceInv(s)
    BY <1>1, <1>2 DEF SpaceInv, Revision, Publishing, Awaiting
  <1>5. HolderInv /\ RepairInv
    BY <1>1 DEF HolderInv, RepairInv
  <1>6. IdInv
    <2>1. \A r \in Revisions : stage[r].patch = NoPatch
      BY <1>1 DEF Nothing
    <2>2. \A r \in Revisions : log[r] # NoPatch => log[r].id <= made
      BY <1>1, LogConstants
    <2>3. \A s \in Spaces : own[s] = NoPatch
      BY <1>1
    <2> QED BY <1>1, <2>1, <2>2, <2>3 DEF IdInv
  <1>7. ReportsAreTrue
    BY <1>1 DEF ReportsAreTrue
  <1> QED BY <1>1, <1>2, <1>3, <1>4, <1>5, <1>6, <1>7 DEF IInv

-----------------------------------------------------------------------------
(* The parts of the type invariant, one for each part of the state. *)

RemoteType ==
    /\ log \in Logs /\ derived \in Logs
    /\ stage \in [Revisions -> [patch : Patches \cup {NoPatch}, files : Logs \cup {NoPatch}]]

HolderType ==
    /\ lock \in Spaces \cup {Nobody} /\ conn \in BOOLEAN /\ target \in 0..MaxRevision
    /\ step \in {"none", "apply", "files", "ok", "present", "absent"}
    /\ lock = Nobody => step = "none"

PcType ==
    /\ pc \in [Spaces -> {"idle", "locking", "syncing", "checking", "staging", "sending",
                          "waiting", "lost", "relocking", "leaving"}]
    /\ want \in [Spaces -> [kind : Kinds, to : Spaces \cup {Nobody}, base : 0..MaxRevision]]

ServerType ==
    /\ own \in [Spaces -> Patches \cup {NoPatch}]
    /\ mirror \in [Spaces -> Logs]
    /\ synced \in [Spaces -> BOOLEAN] /\ repair \in [Spaces -> BOOLEAN]

CountType ==
    /\ told \in [1..MaxAppends -> {"nothing", "success", "absent", "unknown", "raised"}]
    /\ made \in 0..MaxAppends /\ faults \in 0..MaxFaults /\ crashes \in 0..MaxCrashes

LEMMA TypeParts ==
    /\ TypeOK <=> RemoteType /\ HolderType /\ PcType /\ ServerType /\ CountType
    /\ TypeOK' <=> RemoteType' /\ HolderType' /\ PcType' /\ ServerType' /\ CountType'
  BY DEF TypeOK, RemoteType, HolderType, PcType, ServerType, CountType

LEMMA EndsType ==
    ASSUME PcType, NEW s \in Spaces, Ends(s)
    PROVE  PcType' /\ pc'[s] = "idle" /\ \A t \in Spaces : t # s => pc'[t] = pc[t] /\ want'[t] = want[t]
  <1>1. pc' = [pc EXCEPT ![s] = "idle"] /\ want' = [want EXCEPT ![s] = Idle]
    BY DEF Ends
  <1>2. Idle \in [kind : Kinds, to : Spaces \cup {Nobody}, base : 0..MaxRevision]
    BY LogConstants DEF Idle, Kinds
  <1>3. want' \in [Spaces -> [kind : Kinds, to : Spaces \cup {Nobody}, base : 0..MaxRevision]]
    BY <1>1, <1>2 DEF PcType
  <1> QED BY <1>1, <1>3 DEF PcType

LEMMA ReleaseType ==
    ASSUME HolderType, NEW s \in Spaces, Release(s)
    PROVE  HolderType' /\ (step' = "none" \/ (UNCHANGED <<lock, conn, step, target>> /\ ~Owned(s)))
  <1>1. CASE Owned(s)
    <2>1. lock' = Nobody /\ conn' = FALSE /\ step' = "none" /\ target' = 0
      BY <1>1 DEF Release
    <2>2. MaxRevision \in Nat
      BY LogConstants
    <2>3. target' \in 0..MaxRevision
      BY <2>1, <2>2
    <2>4. conn' \in BOOLEAN
      BY <2>1
    <2> QED BY <2>1, <2>3, <2>4 DEF HolderType
  <1>2. CASE ~Owned(s)
    <2>1. UNCHANGED <<lock, conn, step, target>>
      BY <1>2 DEF Release, holderVars
    <2> QED BY <1>2, <2>1 DEF HolderType
  <1> QED BY <1>1, <1>2

-----------------------------------------------------------------------------
(* What a step leaves alone. *)

LEMMA SpaceKeeps ==
    ASSUME NEW t \in Spaces, SpaceInv(t), log' = log,
           pc'[t] = pc[t], want'[t] = want[t], own'[t] = own[t], mirror'[t] = mirror[t],
           synced'[t] = synced[t], made \in Nat, made' \in Nat, made <= made',
           crashes' = 0 => crashes = 0,
           pc[t] \in Publishing => told'[own[t].id] = told[own[t].id],
           pc[t] = "sending" => stage'[Revision(t)] = stage[Revision(t)]
    PROVE  SpaceInv(t)'
  <1>1. Revision(t)' = Revision(t)
    BY DEF Revision
  <1>2. PICK n : n = Revision(t)
    OBVIOUS
  <1>3. Fits(t) => Fits(t)'
    BY <1>1 DEF Fits
  <1>4. PublishInv(t) /\ pc[t] \in Publishing => PublishInv(t)'
    <2> SUFFICES ASSUME PublishInv(t), pc[t] \in Publishing PROVE PublishInv(t)'
      OBVIOUS
    <2>1. own[t].id \in 1..made' /\ told'[own[t].id] = "nothing"
      BY DEF PublishInv
    <2>2. own'[t] \in Patches /\ own'[t].id \in 1..made' /\ told'[own'[t].id] = "nothing"
      BY <2>1 DEF PublishInv
    <2> QED BY <1>1, <1>3, <2>2 DEF PublishInv
  <1> QED BY <1>1, <1>4 DEF SpaceInv

LEMMA HolderKeeps ==
    ASSUME HolderInv, UNCHANGED <<log, derived, lock, step, target>>,
           lock # Nobody /\ step # "none" =>
              /\ step = "apply" \/ log[target] # NoPatch => stage'[target] = stage[target]
              /\ pc'[lock] \in {"idle", "locking"} \cup Awaiting
              /\ pc'[lock] \in Awaiting =>
                    pc[lock] \in Awaiting /\ mirror'[lock] = mirror[lock] /\ own'[lock] = own[lock]
              /\ pc'[lock] \in Awaiting \/ crashes' # 0 \/ repair'[lock]
              /\ step = "apply" /\ log[target] = NoPatch => told'[stage[target].patch.id] # "absent"
    PROVE  HolderInv'
  <1> SUFFICES ASSUME lock # Nobody, step # "none" PROVE HolderInv'
    BY DEF HolderInv
  <1>1. pc'[lock] \in Awaiting => Revision(lock)' = Revision(lock)
    BY DEF Revision
  <1> QED BY <1>1 DEF HolderInv

LEMMA IdKeeps ==
    ASSUME TypeOK, IdInv, log' = log, made' = made,
           \A i \in 1..MaxAppends : told'[i] = told[i] \/ i <= made,
           \A r \in Revisions : stage'[r].patch \in {NoPatch, stage[r].patch},
           \A s \in Spaces : own'[s] = NoPatch \/ (own'[s] = own[s] /\ Revision(s)' = Revision(s))
    PROVE  IdInv'
  <1>1. \A i \in 1..MaxAppends : i > made' => told'[i] = "nothing"
    BY DEF IdInv, TypeOK
  <1>2. \A r \in Revisions : /\ log'[r] # NoPatch => log'[r].id <= made'
                             /\ stage'[r].patch # NoPatch => stage'[r].patch.id <= made'
    BY DEF IdInv
  <1>3. \A s, t \in Spaces : own'[s] # NoPatch /\ own'[t] # NoPatch /\ own'[s].id = own'[t].id => s = t
    BY DEF IdInv
  <1>4. \A s \in Spaces, r \in Revisions : own'[s] # NoPatch =>
          /\ log'[r] # NoPatch /\ log'[r].id = own'[s].id => log'[r] = own'[s] /\ r = Revision(s)'
          /\ stage'[r].patch # NoPatch /\ stage'[r].patch.id = own'[s].id =>
                stage'[r].patch = own'[s] /\ r = Revision(s)'
    BY DEF IdInv
  <1> QED BY <1>1, <1>2, <1>3, <1>4 DEF IdInv

LEMMA RepairKeeps ==
    ASSUME RepairInv, UNCHANGED <<log, derived>>, crashes' = 0 => crashes = 0,
           \A s \in Spaces : Owes(s) => Owes(s)'
    PROVE  RepairInv'
  BY DEF RepairInv

(* Facts a step starts from. *)
LEMMA Known ==
    ASSUME IInv, NEW s \in Spaces
    PROVE  /\ TypeOK /\ log \in Logs /\ Contiguous(log, LastRevision(log)) /\ LastRevision(log) \in 0..MaxRevision
           /\ SpaceInv(s) /\ mirror[s] \in Logs /\ Contiguous(mirror[s], Revision(s)) /\ Revision(s) \in 0..MaxRevision
           /\ HolderInv /\ IdInv /\ RepairInv /\ ReportsAreTrue
           /\ lock = s /\ step # "none" => pc[s] \in {"idle", "locking"} \cup Awaiting
           /\ pc[s] \in Publishing => PublishInv(s)
           /\ pc[s] \notin Publishing => own[s] = NoPatch
           /\ made \in Nat /\ crashes \in Nat /\ faults \in Nat /\ MaxFaults \in Nat
           /\ lock = Nobody => step = "none"
  <1>1. SpaceInv(s) /\ TypeOK /\ HolderInv /\ IdInv /\ RepairInv /\ ReportsAreTrue /\ Contiguous(log, LastRevision(log))
    BY DEF IInv
  <1>2. /\ log \in Logs /\ mirror[s] \in Logs /\ lock \in Spaces \cup {Nobody}
        /\ lock = Nobody => step = "none"
    BY <1>1 DEF TypeOK
  <1>3. made \in Nat /\ crashes \in Nat /\ faults \in Nat /\ MaxFaults \in Nat
    BY <1>1, LogConstants DEF TypeOK
  <1>4. Contiguous(mirror[s], Revision(s)) /\ (pc[s] \in Publishing => PublishInv(s)) /\ (pc[s] \notin Publishing => own[s] = NoPatch)
    BY <1>1 DEF SpaceInv
  <1>5. LastRevision(log) \in 0..MaxRevision /\ Revision(s) \in 0..MaxRevision
    BY <1>1, <1>4 DEF Contiguous
  <1>6. lock = s /\ step # "none" => pc[s] \in {"idle", "locking"} \cup Awaiting
    BY <1>1, LogConstants DEF HolderInv
  <1> QED BY <1>1, <1>2, <1>3, <1>4, <1>5, <1>6

(* A step of s beside the holder at work. *)
LEMMA HolderFrame ==
    ASSUME IInv, NEW s \in Spaces, UNCHANGED <<log, derived, lock, step, target>>,
           \A t \in Spaces : t # s => /\ pc'[t] = pc[t] /\ mirror'[t] = mirror[t] /\ own'[t] = own[t]
                                      /\ repair[t] => repair'[t],
           crashes # 0 => crashes' # 0,
           lock = s /\ step # "none" =>
              \/ pc[s] \in Awaiting /\ pc'[s] \in Awaiting /\ mirror'[s] = mirror[s] /\ own'[s] = own[s]
              \/ pc'[s] \in {"idle", "locking"} /\ (crashes' # 0 \/ repair'[s]),
           lock # Nobody /\ step # "none" /\ (step = "apply" \/ log[target] # NoPatch) =>
              stage'[target] = stage[target],
           lock # Nobody /\ step = "apply" /\ log[target] = NoPatch /\ told[stage[target].patch.id] # "absent" =>
              told'[stage[target].patch.id] # "absent"
    PROVE  HolderInv'
  <1> SUFFICES ASSUME lock # Nobody, step # "none" PROVE HolderInv'
    BY DEF HolderInv
  <1>1. lock \in Spaces /\ HolderInv
    BY Known DEF TypeOK
  <1>2. /\ pc[lock] \in {"idle", "locking"} \cup Awaiting
        /\ pc[lock] \in Awaiting \/ crashes # 0 \/ repair[lock]
        /\ step = "apply" /\ log[target] = NoPatch => told[stage[target].patch.id] # "absent"
    BY <1>1 DEF HolderInv
  <1>3. CASE lock = s
    <2>1. "idle" \notin Awaiting /\ "locking" \notin Awaiting
      BY DEF Awaiting
    <2> QED BY <1>1, <1>2, <1>3, <2>1, HolderKeeps
  <1>4. CASE lock # s
    <2>1. /\ pc'[lock] = pc[lock] /\ mirror'[lock] = mirror[lock] /\ own'[lock] = own[lock]
          /\ repair[lock] => repair'[lock]
      BY <1>1, <1>4
    <2> QED BY <1>1, <1>2, <2>1, HolderKeeps
  <1> QED BY <1>3, <1>4

(* A step of s that neither publishes nor concludes. *)
LEMMA QuietKeeps ==
    ASSUME IInv, NEW s \in Spaces, UNCHANGED <<log, derived, stage, own, told, made>>,
           TypeOK', crashes' = 0 => crashes = 0,
           \A t \in Spaces : t # s =>
              pc'[t] = pc[t] /\ want'[t] = want[t] /\ mirror'[t] = mirror[t] /\ synced'[t] = synced[t],
           own[s] # NoPatch => mirror'[s] = mirror[s],
           SpaceInv(s)', HolderInv', \A t \in Spaces : Owes(t) => Owes(t)'
    PROVE  IInv'
  <1>1. \A t \in Spaces : SpaceInv(t)'
    <2> SUFFICES ASSUME NEW t \in Spaces, t # s PROVE SpaceInv(t)'
      OBVIOUS
    <2> QED BY SpaceKeeps, Known
  <1>2. \A t \in Spaces : own'[t] = NoPatch \/ (own'[t] = own[t] /\ Revision(t)' = Revision(t))
    BY DEF Revision
  <1>3. IdInv'
    BY <1>2, IdKeeps, Known DEF IInv
  <1>4. RepairInv'
    BY RepairKeeps DEF IInv
  <1>5. ReportsAreTrue'
    BY DEF IInv, ReportsAreTrue, InLog
  <1>6. Contiguous(log, LastRevision(log))'
    BY DEF IInv
  <1> QED BY <1>1, <1>3, <1>4, <1>5, <1>6 DEF IInv

-----------------------------------------------------------------------------
(* transaction. *)

LEMMA BeginKeeps ==
    ASSUME IInv, NEW s \in Spaces, NEW kind \in Kinds, NEW to \in Spaces, Begin(s, kind, to)
    PROVE  IInv'
  <1>1. /\ UNCHANGED <<log, derived, stage, lock, conn, step, target, own, mirror, synced, repair>>
        /\ UNCHANGED <<told, made, faults, crashes>>
        /\ pc[s] = "idle" /\ pc' = [pc EXCEPT ![s] = "locking"]
        /\ want' = [want EXCEPT ![s] = [kind |-> kind, to |-> to, base |-> Revision(s)]]
        /\ kind \in {"claim", "edit", "repair"} => to = s
        /\ kind = "claim" => s \in Claimers
    BY DEF Begin, Goes, remoteVars, holderVars, countVars, Kinds
  <1>2. TypeOK'
    BY <1>1, Known DEF TypeOK
  <1>3. SpaceInv(s)'
    <2>1. /\ pc'[s] = "locking" /\ want'[s].to = to /\ want'[s].kind = kind
      BY <1>1, Known DEF TypeOK
    <2>2. Revision(s)' = Revision(s)
      BY <1>1 DEF Revision
    <2> QED BY <1>1, <2>1, <2>2, Known DEF SpaceInv, Publishing, Awaiting, Kinds
  <1>4. HolderInv'
    <2>1. pc'[s] = "locking" /\ \A t \in Spaces : t # s => pc'[t] = pc[t]
      BY <1>1, Known, TypeParts DEF PcType
    <2>2. lock # Nobody /\ step # "none" => lock \in Spaces
      BY Known DEF TypeOK
    <2> QED BY <1>1, <2>1, <2>2, HolderKeeps, Known DEF HolderInv, Awaiting
  <1>5. \A t \in Spaces : Owes(t) => Owes(t)'
    BY <1>1, Known DEF Owes, Awaiting, Revision, TypeOK
  <1> QED BY <1>1, <1>2, <1>3, <1>4, <1>5, QuietKeeps, Known DEF TypeOK

LEMMA LockKeeps ==
    ASSUME IInv, NEW s \in Spaces, _remote_advisory_lock(s)
    PROVE  IInv'
  <1>1. /\ UNCHANGED <<log, derived, stage, step, target, want, own, mirror, synced, repair>>
        /\ UNCHANGED <<told, made, faults, crashes>>
        /\ pc[s] = "locking" /\ pc' = [pc EXCEPT ![s] = "syncing"] /\ step = "none"
        /\ lock' = s /\ conn' = TRUE
    BY Known DEF _remote_advisory_lock, Goes, remoteVars, countVars
  <1>2. TypeOK'
    BY <1>1, Known, LogConstants DEF TypeOK
  <1>3. SpaceInv(s)'
    <2>1. pc'[s] = "syncing" /\ Revision(s)' = Revision(s)
      BY <1>1, Known DEF TypeOK, Revision
    <2> QED BY <1>1, <2>1, Known DEF SpaceInv, Publishing, Awaiting
  <1>4. HolderInv'
    BY <1>1 DEF HolderInv
  <1>5. \A t \in Spaces : Owes(t) => Owes(t)'
    BY <1>1, Known DEF Owes, Awaiting, Revision, TypeOK
  <1> QED BY <1>1, <1>2, <1>3, <1>4, <1>5, QuietKeeps, Known DEF TypeOK

LEMMA SyncKeeps ==
    ASSUME IInv, NEW s \in Spaces, _sync_remote_tree(s)
    PROVE  IInv'
  <1>1. /\ UNCHANGED <<log, derived, stage, lock, conn, step, target, want, own, repair>>
        /\ UNCHANGED <<told, made, faults, crashes>>
        /\ pc[s] = "syncing" /\ pc' = [pc EXCEPT ![s] = "checking"]
        /\ mirror' = [mirror EXCEPT ![s] = log] /\ synced' = [synced EXCEPT ![s] = TRUE]
    BY DEF _sync_remote_tree, Goes, remoteVars, holderVars, countVars
  <1>2. TypeOK'
    BY <1>1, Known DEF TypeOK
  <1>3. /\ pc'[s] = "checking" /\ mirror'[s] = log /\ synced'[s] /\ own[s] = NoPatch
        /\ \A t \in Spaces : t # s => pc'[t] = pc[t] /\ mirror'[t] = mirror[t] /\ synced'[t] = synced[t]
    BY <1>1, Known DEF TypeOK, Publishing, Awaiting
  <1>4. SpaceInv(s)'
    <2>1. Revision(s)' = LastRevision(log)
      BY <1>3 DEF Revision
    <2> QED BY <1>1, <1>3, <2>1, Known DEF SpaceInv, Publishing, Awaiting
  <1>5. HolderInv'
    <2>1. lock # Nobody /\ step # "none" => lock \in Spaces /\ lock # s
      BY <1>1, Known DEF TypeOK, Awaiting
    <2> QED BY <1>1, <1>3, <2>1, HolderKeeps, Known DEF HolderInv
  <1>6. \A t \in Spaces : Owes(t) => Owes(t)'
    BY <1>1, <1>3 DEF Owes, Awaiting, Revision
  <1> QED BY <1>1, <1>2, <1>3, <1>4, <1>5, <1>6, QuietKeeps

(* A transaction that ends before anything is written. *)
LEMMA EndKeeps ==
    ASSUME IInv, NEW s \in Spaces, pc[s] \in {"locking", "syncing", "checking"}, Ends(s), Release(s),
           UNCHANGED <<log, derived, stage, own, mirror, synced, repair, told, made, crashes>>,
           faults' \in 0..MaxFaults
    PROVE  IInv'
  <1>1. /\ RemoteType' /\ ServerType' /\ CountType' /\ PcType /\ HolderType
    BY Known, TypeParts DEF RemoteType, ServerType, CountType
  <1>2. TypeOK'
    BY <1>1, EndsType, ReleaseType, TypeParts
  <1>3. /\ pc'[s] = "idle" /\ own[s] = NoPatch
        /\ \A t \in Spaces : t # s => pc'[t] = pc[t] /\ want'[t] = want[t]
    BY <1>1, EndsType, Known DEF Publishing, Awaiting
  <1>4. SpaceInv(s)'
    <2>1. Revision(s)' = Revision(s)
      BY <1>1 DEF Revision
    <2> QED BY <1>1, <1>3, <2>1, Known DEF SpaceInv, Publishing, Awaiting
  <1>5. HolderInv'
    <2>1. CASE step' = "none"
      BY <2>1 DEF HolderInv
    <2>2. CASE UNCHANGED <<lock, conn, step, target>>
      <3>1. lock # Nobody /\ step # "none" => lock \in Spaces
        BY Known DEF TypeOK
      <3>2. lock = s /\ step # "none" => crashes' # 0 \/ repair'[s]
        BY Known, LogConstants DEF HolderInv, Awaiting
      <3> QED BY <1>3, <2>2, <3>2, HolderFrame
    <2> QED BY <1>1, <2>1, <2>2, ReleaseType
  <1>6. \A t \in Spaces : Owes(t) => Owes(t)'
    BY <1>1, <1>3 DEF Owes, Awaiting, Revision
  <1> QED BY <1>1, <1>2, <1>3, <1>4, <1>5, <1>6, QuietKeeps

LEMMA TransactionFailsKeeps ==
    ASSUME IInv, NEW s \in Spaces, TransactionFails(s)
    PROVE  IInv'
  <1>1. /\ pc[s] \in {"locking", "syncing", "checking"} /\ Ends(s) /\ Release(s)
        /\ UNCHANGED <<log, derived, stage, own, mirror, synced, repair, told, made, crashes>>
        /\ UNCHANGED faults \/ Fault
    BY DEF TransactionFails, remoteVars
  <1>2. faults' \in 0..MaxFaults
    BY <1>1, Known, TypeParts DEF Fault, CountType
  <1> QED BY <1>1, <1>2, EndKeeps

LEMMA RefusedKeeps ==
    ASSUME IInv, NEW s \in Spaces, Refused(s)
    PROVE  IInv'
  <1>1. /\ pc[s] = "checking" /\ Ends(s) /\ Release(s)
        /\ UNCHANGED <<log, derived, stage, own, mirror, synced, repair, told, made, crashes>>
        /\ UNCHANGED faults
    BY DEF Refused, remoteVars, countVars
  <1>2. faults' \in 0..MaxFaults
    BY <1>1, Known, TypeParts DEF CountType
  <1> QED BY <1>1, <1>2, EndKeeps

(* Who may write after the check knows the whole history. *)
LEMMA CheckedMirror ==
    ASSUME IInv, NEW s \in Spaces, pc[s] = "checking", Writable(mirror[s], want[s].kind, s)
    PROVE  mirror[s] = log /\ MayWrite(log, s) /\ own[s] = NoPatch
  <1>1. want[s].kind = "claim" => s \in Claimers
    BY Known DEF SpaceInv
  <1>2. MayWrite(mirror[s], s)
    BY <1>1 DEF MayWrite, Writable
  <1> QED BY <1>2, Known DEF SpaceInv, Publishing, Awaiting

LEMMA RepairedKeeps ==
    ASSUME IInv, NEW s \in Spaces, _repair_materializations_locked(s)
    PROVE  IInv'
  <1>1. /\ pc[s] = "checking" /\ Writable(mirror[s], want[s].kind, s) /\ lock = s /\ conn
        /\ derived' = mirror[s]
        /\ UNCHANGED <<log, stage, own, mirror, synced, told, made, crashes>>
        /\ repair' = [repair EXCEPT ![s] = FALSE] \/ UNCHANGED repair
        /\ UNCHANGED faults \/ Fault
        /\ Ends(s) \/ UNCHANGED <<pc, want>>
        /\ Release(s) \/ UNCHANGED <<lock, conn, step, target>>
                      \/ (conn' = FALSE /\ UNCHANGED <<lock, step, target>>)
    BY DEF _repair_materializations_locked, Owned, holderVars
  <1>2. mirror[s] = log /\ own[s] = NoPatch /\ step = "none"
    BY <1>1, CheckedMirror, Known DEF Awaiting
  <1>3. PcType' /\ PcType /\ (pc'[s] = "idle" \/ (pc'[s] = pc[s] /\ want'[s] = want[s]))
        /\ \A t \in Spaces : t # s => pc'[t] = pc[t] /\ want'[t] = want[t]
    <2>1. PcType
      BY Known, TypeParts
    <2>2. CASE Ends(s)
      BY <2>1, <2>2, EndsType
    <2>3. CASE UNCHANGED <<pc, want>>
      BY <2>1, <2>3 DEF PcType
    <2> QED BY <1>1, <2>2, <2>3
  <1>4. HolderType' /\ step' = "none"
    <2>1. HolderType
      BY Known, TypeParts
    <2>2. CASE Release(s)
      BY <1>2, <2>1, <2>2, ReleaseType
    <2>3. CASE UNCHANGED <<lock, step, target>> /\ conn' \in BOOLEAN
      BY <1>2, <2>1, <2>3 DEF HolderType
    <2>4. conn \in BOOLEAN
      BY <2>1 DEF HolderType
    <2> QED BY <1>1, <2>2, <2>3, <2>4
  <1>5. TypeOK'
    <2>1. RemoteType'
      BY <1>1, <1>2, Known, TypeParts DEF RemoteType
    <2>2. ServerType'
      BY <1>1, Known, TypeParts DEF ServerType
    <2>3. CountType'
      BY <1>1, Known, TypeParts DEF CountType, Fault
    <2> QED BY <1>3, <1>4, <2>1, <2>2, <2>3, TypeParts
  <1>6. \A t \in Spaces : SpaceInv(t)'
    <2> SUFFICES ASSUME NEW t \in Spaces PROVE SpaceInv(t)'
      OBVIOUS
    <2>1. CASE pc'[t] = pc[t] /\ want'[t] = want[t]
      BY <1>1, <2>1, SpaceKeeps, Known
    <2>2. CASE t = s /\ pc'[s] = "idle"
      <3>1. Revision(s)' = Revision(s)
        BY <1>1 DEF Revision
      <3>2. \A q \in Revisions : mirror[s][q] \in {NoPatch, log[q]}
        BY <1>2
      <3> QED BY <1>1, <1>2, <2>2, <3>1, <3>2, Known DEF SpaceInv, Publishing, Awaiting
    <2> QED BY <1>3, <2>1, <2>2
  <1>7. HolderInv' /\ RepairInv'
    BY <1>1, <1>2, <1>4 DEF HolderInv, RepairInv
  <1>8. IdInv'
    <2>1. \A t \in Spaces : own'[t] = own[t] /\ Revision(t)' = Revision(t)
      BY <1>1 DEF Revision
    <2> QED BY <1>1, <2>1, IdKeeps, Known
  <1>9. ReportsAreTrue' /\ Contiguous(log, LastRevision(log))'
    BY <1>1 DEF IInv, ReportsAreTrue, InLog
  <1> QED BY <1>5, <1>6, <1>7, <1>8, <1>9 DEF IInv

-----------------------------------------------------------------------------
(* append. *)

LEMMA AppendKeeps ==
    ASSUME IInv, NEW s \in Spaces, _append_locked(s)
    PROVE  IInv'
  <1>1. PICK p : p = [id |-> made + 1, kind |-> want[s].kind, by |-> s, home |-> want[s].to,
                      base |-> IF want[s].kind = "edit" THEN want[s].base ELSE Revision(s)]
    OBVIOUS
  <1>2. PICK n : n = LastRevision(log)
    OBVIOUS
  <1>3. /\ pc[s] = "checking" /\ pc' = [pc EXCEPT ![s] = "staging"]
        /\ want[s].kind # "repair" /\ Writable(mirror[s], want[s].kind, s) /\ ~repair[s]
        /\ want[s].kind = "edit" => want[s].base = Revision(s)
        /\ made < MaxAppends /\ Revision(s) < MaxRevision /\ made' = made + 1
        /\ own' = [own EXCEPT ![s] = p]
        /\ mirror' = [mirror EXCEPT ![s][Revision(s) + 1] = p]
        /\ UNCHANGED <<log, derived, stage, lock, conn, step, target, want, synced, repair, told, faults, crashes>>
    BY <1>1 DEF _append_locked, Goes, remoteVars, holderVars
  <1>4. mirror[s] = log /\ MayWrite(log, s) /\ own[s] = NoPatch
    BY <1>3, CheckedMirror
  <1>5. Revision(s) = n
    BY <1>2, <1>4 DEF Revision
  <1>6. /\ n \in 0..MaxRevision /\ n + 1 \in Revisions /\ log \in Logs /\ log[n + 1] = NoPatch
        /\ Contiguous(log, n) /\ made \in Nat /\ made + 1 \in 1..MaxAppends /\ MaxAppends \in Nat
    BY <1>2, <1>3, <1>5, Known, LogConstants DEF Contiguous, TypeOK
  <1>7. /\ want[s].kind \in {"claim", "edit", "transfer"} /\ want[s].to \in Spaces
        /\ want[s].kind # "transfer" => want[s].to = s
    BY <1>3, Known DEF TypeOK, Kinds, SpaceInv
  <1>8. /\ p \in Patches /\ p # NoPatch /\ p.id = made + 1 /\ p.base = n
        /\ p.kind = want[s].kind /\ p.by = s /\ p.home = want[s].to
    <2>1. (IF want[s].kind = "edit" THEN want[s].base ELSE Revision(s)) = n
      BY <1>3, <1>5
    <2>2. p = [id |-> made + 1, kind |-> want[s].kind, by |-> s, home |-> want[s].to, base |-> n]
      BY <1>1, <2>1
    <2>3. p \in Patches
      BY <1>6, <1>7, <2>2 DEF Patches
    <2> QED BY <2>2, <2>3, LogConstants
  <1>9. Admits(log, p)
    BY <1>2, <1>3, <1>4, <1>7, <1>8 DEF Admits
  <1>10. /\ pc'[s] = "staging" /\ own'[s] = p /\ mirror'[s] = [log EXCEPT ![n + 1] = p]
         /\ \A t \in Spaces : t # s => pc'[t] = pc[t] /\ own'[t] = own[t] /\ mirror'[t] = mirror[t]
    BY <1>3, <1>4, <1>5, Known DEF TypeOK
  <1>11. /\ mirror'[s] \in Logs /\ Revision(s)' = n + 1 /\ Contiguous(mirror'[s], n + 1)
    BY <1>2, <1>6, <1>8, <1>10, LogExtends DEF Revision
  <1>12. TypeOK'
    <2>1. RemoteType' /\ HolderType'
      BY <1>3, Known, TypeParts DEF RemoteType, HolderType
    <2>2. PcType'
      BY <1>3, Known, TypeParts DEF PcType
    <2>3. mirror' \in [Spaces -> Logs]
      <3>1. mirror \in [Spaces -> Logs]
        BY Known DEF TypeOK
      <3>2. mirror' = [mirror EXCEPT ![s] = mirror'[s]]
        BY <1>3, <3>1
      <3> QED BY <1>11, <3>1, <3>2
    <2>4. ServerType'
      BY <1>3, <1>8, <2>3, Known, TypeParts DEF ServerType
    <2>5. CountType'
      BY <1>3, <1>6, Known, TypeParts DEF CountType
    <2> QED BY <2>1, <2>2, <2>4, <2>5, TypeParts
  <1>13. SpaceInv(s)'
    <2>1. Fits(s)'
      <3>1. log = [mirror'[s] EXCEPT ![n + 1] = NoPatch]
        BY <1>6, <1>10 DEF Logs
      <3> QED BY <1>2, <1>3, <1>4, <1>9, <1>10, <1>11, <3>1 DEF Fits
    <2>2. PublishInv(s)'
      <3>1. own'[s] \in Patches /\ own'[s].id \in 1..made' /\ told'[own'[s].id] = "nothing"
        BY <1>3, <1>6, <1>8, <1>10, Known DEF IdInv
      <3>2. /\ Revision(s)' \in Revisions /\ mirror'[s][n + 1] = own'[s]
            /\ \A q \in Revisions : q # n + 1 => mirror'[s][q] \in {NoPatch, log'[q]}
        BY <1>3, <1>6, <1>10, <1>11 DEF Logs
      <3> QED BY <1>10, <1>11, <2>1, <3>1, <3>2 DEF PublishInv
    <2> QED BY <1>3, <1>10, <1>11, <2>2, Known DEF SpaceInv, Publishing, Awaiting
  <1>14. \A t \in Spaces : SpaceInv(t)'
    <2> SUFFICES ASSUME NEW t \in Spaces, t # s PROVE SpaceInv(t)'
      BY <1>13
    <2> QED BY <1>3, <1>6, <1>10, SpaceKeeps, Known
  <1>15. HolderInv'
    BY <1>3, <1>10, HolderFrame, Known DEF Awaiting
  <1>16. IdInv'
    <2>1. \A t \in Spaces : t # s /\ own'[t] # NoPatch => own[t].id \in 1..made /\ Revision(t)' = Revision(t)
      BY <1>10, Known DEF PublishInv, Revision
    <2>2. \A i \in 1..MaxAppends : i > made' => told'[i] = "nothing"
      BY <1>3, <1>6, Known DEF IdInv
    <2>3. \A r \in Revisions : /\ log'[r] # NoPatch => log'[r].id \in Int /\ log'[r].id <= made
                               /\ stage'[r].patch # NoPatch => stage'[r].patch.id \in Int /\ stage'[r].patch.id <= made
      <3>1. \A r \in Revisions : /\ log[r] # NoPatch => log[r] \in Patches
                                 /\ stage[r].patch # NoPatch => stage[r].patch \in Patches
        BY Known, TypeParts DEF RemoteType, Logs
      <3>2. \A x \in Patches : x.id \in Int
        BY <1>6 DEF Patches
      <3> QED BY <1>3, <3>1, <3>2, Known DEF IdInv
    <2>4. \A a, b \in Spaces : own'[a] # NoPatch /\ own'[b] # NoPatch /\ own'[a].id = own'[b].id => a = b
      BY <1>6, <1>8, <1>10, <2>1, Known DEF IdInv
    <2>5. \A a \in Spaces, r \in Revisions : own'[a] # NoPatch =>
             /\ log'[r] # NoPatch /\ log'[r].id = own'[a].id => log'[r] = own'[a] /\ r = Revision(a)'
             /\ stage'[r].patch # NoPatch /\ stage'[r].patch.id = own'[a].id =>
                   stage'[r].patch = own'[a] /\ r = Revision(a)'
      <3> SUFFICES ASSUME NEW a \in Spaces, NEW r \in Revisions, own'[a] # NoPatch
                   PROVE  /\ log'[r] # NoPatch /\ log'[r].id = own'[a].id => log'[r] = own'[a] /\ r = Revision(a)'
                          /\ stage'[r].patch # NoPatch /\ stage'[r].patch.id = own'[a].id =>
                                stage'[r].patch = own'[a] /\ r = Revision(a)'
        OBVIOUS
      <3>1. CASE a = s
        BY <1>6, <1>8, <1>10, <2>3, <3>1
      <3>2. CASE a # s
        BY <1>3, <1>10, <2>1, <3>2, Known DEF IdInv
      <3> QED BY <3>1, <3>2
    <2>6. \A r \in Revisions : /\ log'[r] # NoPatch => log'[r].id <= made'
                               /\ stage'[r].patch # NoPatch => stage'[r].patch.id <= made'
      BY <1>3, <1>6, <2>3
    <2> QED BY <2>2, <2>4, <2>5, <2>6 DEF IdInv
  <1>17. RepairInv'
    <2>1. \A t \in Spaces : Owes(t) => Owes(t)'
      BY <1>3, <1>10 DEF Owes, Awaiting, Revision
    <2> QED BY <1>3, <2>1, RepairKeeps, Known
  <1>18. ReportsAreTrue' /\ Contiguous(log, LastRevision(log))'
    BY <1>3 DEF IInv, ReportsAreTrue, InLog
  <1> QED BY <1>12, <1>14, <1>15, <1>16, <1>17, <1>18 DEF IInv

(* What fits is not in the log, and only one space has something that fits. *)
LEMMA Fitting ==
    ASSUME OneClaimer, IInv, NEW s \in Spaces, Fits(s)
    PROVE  /\ log[Revision(s)] = NoPatch
           /\ \A t \in Spaces : Fits(t) => t = s
           /\ lock # Nobody /\ step = "apply" /\ log[target] = NoPatch => lock = s
  <1>1. LastRevision(log) + 1 = Revision(s) /\ Contiguous(log, LastRevision(log)) /\ Revision(s) \in 0..MaxRevision
    BY Known DEF Fits
  <1>2. log[Revision(s)] = NoPatch
    BY <1>1, LogConstants DEF Contiguous
  <1>3. \A t \in Spaces : Fits(t) => t = s
    BY OneWriter DEF Fits
  <1>4. lock # Nobody /\ step = "apply" /\ log[target] = NoPatch => lock = s
    <2> SUFFICES ASSUME lock # Nobody, step = "apply", log[target] = NoPatch PROVE lock = s
      OBVIOUS
    <2>1. lock \in Spaces /\ MayWrite(log, lock)
      BY Known DEF TypeOK, HolderInv
    <2> QED BY <2>1, OneWriter DEF Fits
  <1> QED BY <1>2, <1>3, <1>4

(* A stage is only written beyond the log, by the one space whose patch fits. *)
LEMMA Staged ==
    ASSUME OneClaimer, IInv, NEW s \in Spaces, pc[s] = "staging",
           \/ stage' = stage
           \/ stage' = [stage EXCEPT ![Revision(s)] = [patch |-> own[s], files |-> mirror[s]]]
    PROVE  /\ stage' \in [Revisions -> [patch : Patches \cup {NoPatch}, files : Logs \cup {NoPatch}]]
           /\ \A t \in Spaces : t # s /\ pc[t] = "sending" => stage'[Revision(t)] = stage[Revision(t)]
           /\ lock # Nobody /\ step # "none" => lock # s
           /\ lock # Nobody /\ step # "none" /\ (step = "apply" \/ log[target] # NoPatch) =>
                 stage'[target] = stage[target]
           /\ \A r \in Revisions : stage'[r].patch = stage[r].patch \/ (r = Revision(s) /\ stage'[r].patch = own[s])
           /\ own[s] \in Patches /\ own[s].id \in 1..made /\ Fits(s)
  <1>1. PublishInv(s) /\ Fits(s) /\ own[s] \in Patches /\ own[s].id \in 1..made /\ Revision(s) \in Revisions
    BY Known DEF Publishing, PublishInv
  <1>2. stage \in [Revisions -> [patch : Patches \cup {NoPatch}, files : Logs \cup {NoPatch}]] /\ mirror[s] \in Logs
    BY Known, TypeParts DEF RemoteType
  <1>3. stage' \in [Revisions -> [patch : Patches \cup {NoPatch}, files : Logs \cup {NoPatch}]]
    BY <1>1, <1>2
  <1>4. /\ \A r \in Revisions : r # Revision(s) => stage'[r] = stage[r]
        /\ stage'[Revision(s)] = stage[Revision(s)] \/ stage'[Revision(s)].patch = own[s]
    BY <1>1, <1>2
  <1>5. \A t \in Spaces : t # s => pc[t] # "sending"
    BY <1>1, Fitting, Known DEF Publishing, PublishInv
  <1>6. lock # Nobody /\ step # "none" => lock # s
    BY Known DEF Awaiting
  <1>7. lock # Nobody /\ step # "none" /\ (step = "apply" \/ log[target] # NoPatch) =>
           target \in Revisions /\ target # Revision(s)
    BY <1>1, <1>6, Fitting, Known DEF HolderInv
  <1> QED BY <1>1, <1>3, <1>4, <1>5, <1>6, <1>7

LEMMA StageKeeps ==
    ASSUME OneClaimer, IInv, NEW s \in Spaces, StagePatch(s)
    PROVE  IInv'
  <1>1. /\ pc[s] = "staging" /\ pc' = [pc EXCEPT ![s] = "sending"]
        /\ stage' = [stage EXCEPT ![Revision(s)] = [patch |-> own[s], files |-> mirror[s]]]
        /\ UNCHANGED <<log, derived, lock, conn, step, target, want, own, mirror, synced, repair>>
        /\ UNCHANGED <<told, made, faults, crashes>>
    BY DEF StagePatch, Goes, holderVars, countVars
  <1>2. /\ stage' \in [Revisions -> [patch : Patches \cup {NoPatch}, files : Logs \cup {NoPatch}]]
        /\ \A t \in Spaces : t # s /\ pc[t] = "sending" => stage'[Revision(t)] = stage[Revision(t)]
        /\ lock # Nobody /\ step # "none" => lock # s
        /\ lock # Nobody /\ step # "none" /\ (step = "apply" \/ log[target] # NoPatch) =>
              stage'[target] = stage[target]
        /\ \A r \in Revisions : stage'[r].patch = stage[r].patch \/ (r = Revision(s) /\ stage'[r].patch = own[s])
        /\ own[s] \in Patches /\ own[s].id \in 1..made /\ Fits(s)
    BY <1>1, Staged
  <1>3. pc'[s] = "sending" /\ \A t \in Spaces : t # s => pc'[t] = pc[t]
    BY <1>1, Known DEF TypeOK
  <1>4. \A t \in Spaces : Revision(t)' = Revision(t)
    BY <1>1 DEF Revision
  <1>5. TypeOK'
    <2>1. RemoteType' /\ HolderType' /\ ServerType' /\ CountType'
      BY <1>1, <1>2, Known, TypeParts DEF RemoteType, HolderType, ServerType, CountType
    <2>2. PcType'
      BY <1>1, Known, TypeParts DEF PcType
    <2> QED BY <2>1, <2>2, TypeParts
  <1>6. SpaceInv(s)'
    <2>1. PublishInv(s) /\ Revision(s) \in Revisions
      BY <1>1, Known DEF Publishing, PublishInv
    <2>2. stage'[Revision(s)] = [patch |-> own[s], files |-> mirror[s]]
      BY <1>1, <2>1, Known DEF TypeOK
    <2>3. Fits(s)'
      BY <1>1, <1>2, <1>4 DEF Fits
    <2>4. PublishInv(s)'
      BY <1>1, <1>3, <1>4, <2>1, <2>2, <2>3 DEF PublishInv
    <2> QED BY <1>1, <1>3, <1>4, <2>4, Known DEF SpaceInv, Publishing, Awaiting
  <1>7. \A t \in Spaces : SpaceInv(t)'
    <2> SUFFICES ASSUME NEW t \in Spaces, t # s PROVE SpaceInv(t)'
      BY <1>6
    <2> QED BY <1>1, <1>2, <1>3, SpaceKeeps, Known
  <1>8. HolderInv'
    BY <1>1, <1>2, <1>3, HolderFrame, Known
  <1>9. IdInv'
    <2>1. \A r \in Revisions : stage'[r].patch # NoPatch => stage'[r].patch.id <= made'
      BY <1>1, <1>2, Known DEF IdInv
    <2>2. \A t \in Spaces, r \in Revisions :
             own'[t] # NoPatch /\ stage'[r].patch # NoPatch /\ stage'[r].patch.id = own'[t].id =>
                stage'[r].patch = own'[t] /\ r = Revision(t)'
      BY <1>1, <1>2, <1>4, Known, LogConstants DEF IdInv
    <2> QED BY <1>1, <1>4, <2>1, <2>2, Known DEF IdInv
  <1>10. RepairInv'
    <2>1. \A t \in Spaces : Owes(t) => Owes(t)'
      BY <1>1, <1>3, <1>4 DEF Owes, Awaiting
    <2> QED BY <1>1, <2>1, RepairKeeps, Known
  <1>11. ReportsAreTrue' /\ Contiguous(log, LastRevision(log))'
    BY <1>1 DEF IInv, ReportsAreTrue, InLog
  <1> QED BY <1>5, <1>7, <1>8, <1>9, <1>10, <1>11 DEF IInv

-----------------------------------------------------------------------------
(* The end of an append. *)

LEMMA ConcludeKeeps ==
    ASSUME IInv, NEW s \in Spaces, pc[s] \in Publishing,
           NEW a \in {"success", "absent", "unknown", "raised"}, Tell(s, a),
           UNCHANGED <<log, derived, synced, made, crashes>>, faults' \in 0..MaxFaults,
           \/ mirror' = mirror /\ log[Revision(s)] = own[s]
           \/ mirror' = [mirror EXCEPT ![s][Revision(s)] = NoPatch],
           repair' \in [Spaces -> BOOLEAN], \A t \in Spaces : repair[t] => repair'[t],
           pc[s] \in Awaiting /\ log[Revision(s)] # NoPatch => repair'[s],
           a = "success" => log[Revision(s)] = own[s], a = "absent" => log[Revision(s)] = NoPatch,
           stage' \in [Revisions -> [patch : Patches \cup {NoPatch}, files : Logs \cup {NoPatch}]],
           \A t \in Spaces : t # s /\ pc[t] = "sending" => stage'[Revision(t)] = stage[Revision(t)],
           \A r \in Revisions : stage'[r].patch = stage[r].patch \/ (r = Revision(s) /\ stage'[r].patch = own[s]),
           HolderType', HolderInv'
    PROVE  IInv'
  <1>1. /\ told' = [told EXCEPT ![own[s].id] = a] /\ own' = [own EXCEPT ![s] = NoPatch] /\ Ends(s)
    BY DEF Tell
  <1>2. /\ PublishInv(s) /\ own[s] \in Patches /\ own[s] # NoPatch /\ own[s].id \in 1..made
        /\ Revision(s) \in Revisions /\ made \in 0..MaxAppends /\ mirror[s] \in Logs
    BY Known, LogConstants DEF PublishInv, TypeOK
  <1>3. PICK i : i = own[s].id
    OBVIOUS
  <1>4. i \in 1..MaxAppends /\ i <= made /\ MaxAppends \in Nat
    BY <1>2, <1>3, LogConstants
  <1>5. /\ pc'[s] = "idle" /\ own'[s] = NoPatch /\ told'[i] = a
        /\ \A t \in Spaces : t # s => pc'[t] = pc[t] /\ want'[t] = want[t] /\ own'[t] = own[t]
        /\ \A j \in 1..MaxAppends : j # i => told'[j] = told[j]
    BY <1>1, <1>3, <1>4, EndsType, Known, TypeParts DEF TypeOK
  <1>6. /\ mirror'[s] \in Logs /\ Contiguous(mirror'[s], Revision(s)')
        /\ \A q \in Revisions : mirror'[s][q] \in {NoPatch, log[q]}
        /\ \A t \in Spaces : t # s => mirror'[t] = mirror[t]
        /\ mirror' \in [Spaces -> Logs]
    <2>1. mirror \in [Spaces -> Logs] /\ Contiguous(mirror[s], Revision(s))
      BY Known DEF TypeOK
    <2>2. CASE mirror' = mirror /\ log[Revision(s)] = own[s]
      <3>1. Revision(s)' = Revision(s)
        BY <2>2 DEF Revision
      <3> QED BY <1>2, <2>1, <2>2, <3>1 DEF PublishInv
    <2>3. CASE mirror' = [mirror EXCEPT ![s][Revision(s)] = NoPatch]
      <3>1. PICK g : g = [mirror[s] EXCEPT ![Revision(s)] = NoPatch]
        OBVIOUS
      <3>2. mirror'[s] = g /\ mirror' = [mirror EXCEPT ![s] = g] /\ \A t \in Spaces : t # s => mirror'[t] = mirror[t]
        BY <2>1, <2>3, <3>1
      <3>3. g \in Logs /\ Contiguous(g, LastRevision(g))
        BY <1>2, <2>1, <3>1, LogShortens DEF Revision
      <3>4. \A q \in Revisions : g[q] \in {NoPatch, log[q]}
        BY <1>2, <3>1 DEF PublishInv, Logs
      <3>5. mirror' \in [Spaces -> Logs]
        BY <2>1, <3>2, <3>3
      <3> QED BY <3>2, <3>3, <3>4, <3>5 DEF Revision
    <2> QED BY <2>2, <2>3
  <1>7. TypeOK'
    <2>1. RemoteType' /\ PcType'
      BY <1>1, EndsType, Known, TypeParts DEF RemoteType
    <2>2. ServerType'
      BY <1>1, <1>6, Known, TypeParts DEF ServerType
    <2>3. told' \in [1..MaxAppends -> {"nothing", "success", "absent", "unknown", "raised"}]
      BY <1>1, Known DEF TypeOK
    <2>4. CountType'
      BY <2>3, Known, TypeParts DEF CountType
    <2> QED BY <2>1, <2>2, <2>4, TypeParts
  <1>8. \A t \in Spaces : t # s /\ own[t] # NoPatch => own[t].id # i
    BY <1>2, <1>3, Known DEF IdInv
  <1>9. \A t \in Spaces : SpaceInv(t)'
    <2> SUFFICES ASSUME NEW t \in Spaces PROVE SpaceInv(t)'
      OBVIOUS
    <2>1. CASE t = s
      BY <1>5, <1>6, <2>1, Known DEF SpaceInv, Publishing, Awaiting
    <2>2. CASE t # s
      <3>1. pc[t] \in Publishing => told'[own[t].id] = told[own[t].id]
        <4> SUFFICES ASSUME pc[t] \in Publishing PROVE told'[own[t].id] = told[own[t].id]
          OBVIOUS
        <4>1. own[t] \in Patches /\ own[t].id \in 1..made
          BY Known DEF PublishInv
        <4>2. own[t] # NoPatch
          BY <4>1, LogConstants
        <4>3. own[t].id \in 1..MaxAppends /\ own[t].id # i
          BY <1>2, <1>4, <1>8, <2>2, <4>1, <4>2
        <4> QED BY <1>5, <4>3
      <3> QED BY <1>5, <1>6, <2>2, <3>1, SpaceKeeps, Known
    <2> QED BY <2>1, <2>2
  <1>10. \A t \in Spaces : t # s => Revision(t)' = Revision(t)
    BY <1>6 DEF Revision
  <1>11. IdInv'
    <2>1. \A j \in 1..MaxAppends : j > made' => told'[j] = "nothing"
      BY <1>2, <1>4, <1>5, Known DEF IdInv
    <2>2. \A r \in Revisions : stage'[r].patch # NoPatch => stage'[r].patch.id <= made'
      BY <1>2, Known DEF IdInv
    <2>3. \A t \in Spaces, r \in Revisions : own'[t] # NoPatch =>
             /\ log'[r] # NoPatch /\ log'[r].id = own'[t].id => log'[r] = own'[t] /\ r = Revision(t)'
             /\ stage'[r].patch # NoPatch /\ stage'[r].patch.id = own'[t].id =>
                   stage'[r].patch = own'[t] /\ r = Revision(t)'
      BY <1>2, <1>3, <1>5, <1>8, <1>10, Known DEF IdInv
    <2>4. \A t, u \in Spaces : own'[t] # NoPatch /\ own'[u] # NoPatch /\ own'[t].id = own'[u].id => t = u
      BY <1>5, Known DEF IdInv
    <2> QED BY <2>1, <2>2, <2>3, <2>4, Known DEF IdInv
  <1>12. RepairInv'
    <2>1. \A t \in Spaces : Owes(t) => Owes(t)'
      <3> SUFFICES ASSUME NEW t \in Spaces, Owes(t) PROVE Owes(t)'
        OBVIOUS
      <3>1. CASE t = s
        BY <3>1 DEF Owes
      <3>2. CASE t # s
        <4>1. pc'[t] = pc[t] /\ Revision(t)' = Revision(t) /\ (repair[t] => repair'[t])
          BY <1>5, <1>10, <3>2
        <4> QED BY <4>1 DEF Owes
      <3> QED BY <3>1, <3>2
    <2> QED BY <2>1, RepairKeeps, Known
  <1>13. ReportsAreTrue'
    <2>1. a = "success" => InLog(i)'
      BY <1>2, <1>3 DEF InLog
    <2>2. a = "absent" => ~InLog(i)'
      BY <1>2, <1>3, Known DEF InLog, IdInv
    <2>3. \A j \in 1..MaxAppends : InLog(j)' <=> InLog(j)
      BY DEF InLog
    <2> QED BY <1>5, <2>1, <2>2, <2>3, Known DEF ReportsAreTrue
  <1>14. Contiguous(log, LastRevision(log))'
    BY Known
  <1> QED BY <1>7, <1>9, <1>11, <1>12, <1>13, <1>14 DEF IInv

LEMMA Reconciled ==
    ASSUME IInv, NEW s \in Spaces, NEW status \in {"present", "absent", "unknown"}, Reconcile(s, status)
    PROVE  /\ repair' \in [Spaces -> BOOLEAN] /\ \A t \in Spaces : repair[t] => repair'[t]
           /\ status # "absent" => repair'[s]
           /\ status = "present" => mirror' = mirror
           /\ status # "present" => mirror' = [mirror EXCEPT ![s][Revision(s)] = NoPatch]
  <1>1. repair \in [Spaces -> BOOLEAN] /\ repair' = [repair EXCEPT ![s] = @ \/ status # "absent"]
    BY Known DEF TypeOK, Reconcile
  <1>2. repair' \in [Spaces -> BOOLEAN] /\ (repair'[s] <=> repair[s] \/ status # "absent")
    BY <1>1
  <1>3. \A t \in Spaces : t # s => (repair'[t] <=> repair[t])
    BY <1>1
  <1> QED BY <1>2, <1>3 DEF Reconcile

LEMMA FaultType ==
    ASSUME IInv, UNCHANGED faults \/ Fault, Spaces # {}
    PROVE  faults' \in 0..MaxFaults
  BY Known, TypeParts DEF Fault, CountType

(* Only an answer of absence makes what a holder is to commit reported absent. *)
LEMMA NotAbsent ==
    ASSUME IInv, NEW s \in Spaces, NEW a \in {"success", "unknown", "raised"}, Tell(s, a)
    PROVE  lock # Nobody /\ step = "apply" /\ log[target] = NoPatch /\ told[stage[target].patch.id] # "absent" =>
              told'[stage[target].patch.id] # "absent"
  <1>1. /\ told \in [1..MaxAppends -> {"nothing", "success", "absent", "unknown", "raised"}]
        /\ told' = [told EXCEPT ![own[s].id] = a]
    BY Known DEF TypeOK, Tell
  <1>2. lock # Nobody /\ step = "apply" /\ log[target] = NoPatch => stage[target].patch.id \in 1..MaxAppends
    BY Known DEF HolderInv
  <1> QED BY <1>1, <1>2

LEMMA StagingFailsKeeps ==
    ASSUME OneClaimer, IInv, NEW s \in Spaces, StagingFails(s)
    PROVE  IInv'
  <1>1. /\ pc[s] = "staging" /\ Fault /\ Release(s)
        /\ \/ stage' = stage
           \/ stage' = [stage EXCEPT ![Revision(s)] = [patch |-> own[s], files |-> mirror[s]]]
        /\ UNCHANGED <<log, derived, synced, made, crashes>>
    BY DEF StagingFails
  <1>2. PICK status \in {"absent", "unknown"} : Tell(s, status) /\ Reconcile(s, status)
    BY DEF StagingFails
  <1>3. /\ stage' \in [Revisions -> [patch : Patches \cup {NoPatch}, files : Logs \cup {NoPatch}]]
        /\ \A t \in Spaces : t # s /\ pc[t] = "sending" => stage'[Revision(t)] = stage[Revision(t)]
        /\ lock # Nobody /\ step # "none" => lock # s
        /\ lock # Nobody /\ step # "none" /\ (step = "apply" \/ log[target] # NoPatch) =>
              stage'[target] = stage[target]
        /\ \A r \in Revisions : stage'[r].patch = stage[r].patch \/ (r = Revision(s) /\ stage'[r].patch = own[s])
        /\ own[s] \in Patches /\ own[s].id \in 1..made /\ Fits(s)
    BY <1>1, Staged
  <1>4. /\ repair' \in [Spaces -> BOOLEAN] /\ \A t \in Spaces : repair[t] => repair'[t]
        /\ mirror' = [mirror EXCEPT ![s][Revision(s)] = NoPatch]
    BY <1>2, Reconciled
  <1>5. log[Revision(s)] = NoPatch
    BY <1>3, Fitting
  <1>6. HolderType' /\ (step' = "none" \/ UNCHANGED <<lock, conn, step, target>>)
    BY <1>1, ReleaseType, Known, TypeParts
  <1>7. HolderInv'
    <2>1. CASE step' = "none"
      BY <2>1 DEF HolderInv
    <2>2. CASE UNCHANGED <<lock, conn, step, target>>
      <3>1. lock # Nobody /\ step = "apply" => log[target] # NoPatch
        BY <1>3, Fitting
      <3>2. \A t \in Spaces : t # s => pc'[t] = pc[t] /\ own'[t] = own[t] /\ mirror'[t] = mirror[t]
        BY <1>2, <1>4, EndsType, Known, TypeParts DEF Tell, ServerType
      <3> QED BY <1>1, <1>3, <1>4, <2>2, <3>1, <3>2, HolderFrame, Known
    <2> QED BY <1>6, <2>1, <2>2
  <1>8. faults' \in 0..MaxFaults /\ pc[s] \in Publishing /\ pc[s] \notin Awaiting
    BY <1>1, FaultType DEF Publishing, Awaiting
  <1>9. status \in {"success", "absent", "unknown", "raised"} /\ status # "success"
    BY <1>2
  <1> QED BY <1>1, <1>2, <1>3, <1>4, <1>5, <1>6, <1>7, <1>8, <1>9, ConcludeKeeps

LEMMA PublicationRefusedKeeps ==
    ASSUME OneClaimer, IInv, NEW s \in Spaces, PublicationRefused(s)
    PROVE  IInv'
  <1>1. /\ pc[s] = "staging" /\ Tell(s, "unknown") /\ Reconcile(s, "unknown")
        /\ UNCHANGED <<log, derived, stage, lock, conn, step, target, synced, made, faults, crashes>>
    BY DEF PublicationRefused, remoteVars, holderVars
  <1>2. /\ repair' \in [Spaces -> BOOLEAN] /\ \A t \in Spaces : repair[t] => repair'[t]
        /\ mirror' = [mirror EXCEPT ![s][Revision(s)] = NoPatch]
    BY <1>1, Reconciled
  <1>3. HolderType' /\ stage' \in [Revisions -> [patch : Patches \cup {NoPatch}, files : Logs \cup {NoPatch}]]
    BY <1>1, Known, TypeParts DEF HolderType, RemoteType
  <1>4. faults' \in 0..MaxFaults /\ pc[s] \in Publishing /\ pc[s] \notin Awaiting
    BY <1>1, FaultType DEF Publishing, Awaiting
  <1>5. HolderInv'
    <2>1. \A t \in Spaces : t # s => pc'[t] = pc[t] /\ own'[t] = own[t] /\ mirror'[t] = mirror[t]
      BY <1>1, <1>2, EndsType, Known, TypeParts DEF Tell, ServerType
    <2>2. lock = s => step = "none"
      BY <1>1, Known DEF Awaiting
    <2>3. lock # Nobody /\ step = "apply" /\ log[target] = NoPatch /\ told[stage[target].patch.id] # "absent" =>
             told'[stage[target].patch.id] # "absent"
      BY <1>1, NotAbsent
    <2> QED BY <1>1, <1>2, <2>1, <2>2, <2>3, HolderFrame
  <1> QED BY <1>1, <1>2, <1>3, <1>4, <1>5, ConcludeKeeps

(* A server that still waits for the outcome goes on waiting. *)
LEMMA WaitKeeps ==
    ASSUME IInv, NEW s \in Spaces, pc[s] \in Awaiting, NEW next \in {"lost", "relocking"},
           pc' = [pc EXCEPT ![s] = next],
           UNCHANGED <<log, derived, stage, lock, step, target, want, own, mirror, synced, repair,
           told, made, crashes>>,
           conn' \in BOOLEAN, UNCHANGED faults \/ Fault
    PROVE  IInv'
  <1>1. pc'[s] = next /\ next \in Awaiting /\ \A t \in Spaces : t # s => pc'[t] = pc[t]
    BY Known DEF TypeOK, Awaiting
  <1>2. TypeOK'
    <2>1. RemoteType' /\ HolderType' /\ ServerType' /\ CountType'
      BY FaultType, Known, TypeParts DEF RemoteType, HolderType, ServerType, CountType
    <2>2. PcType'
      BY Known, TypeParts DEF PcType
    <2> QED BY <2>1, <2>2, TypeParts
  <1>3. \A t \in Spaces : Revision(t)' = Revision(t)
    BY DEF Revision
  <1>4. SpaceInv(s)'
    <2>1. PublishInv(s) /\ pc[s] \in Publishing /\ next \in Publishing
      BY <1>1, Known DEF Publishing
    <2>2. Fits(s) => Fits(s)'
      BY <1>3 DEF Fits
    <2>3. PublishInv(s)'
      BY <1>1, <1>3, <2>1, <2>2 DEF PublishInv, Awaiting
    <2> QED BY <1>1, <1>3, <2>1, <2>3, Known DEF SpaceInv, Awaiting
  <1>5. HolderInv'
    BY <1>1, HolderFrame
  <1>6. \A t \in Spaces : Owes(t) => Owes(t)'
    BY <1>1, <1>3 DEF Owes
  <1> QED BY <1>1, <1>2, <1>4, <1>5, <1>6, QuietKeeps

LEMMA CommandLostKeeps ==
    ASSUME IInv, NEW s \in Spaces, CommandLost(s)
    PROVE  IInv'
  <1>1. /\ pc[s] = "waiting" /\ pc' = [pc EXCEPT ![s] = "lost"]
        /\ UNCHANGED <<log, derived, stage, lock, step, target, want, own, mirror, synced, repair, told, made, crashes>>
        /\ conn' = FALSE \/ conn' = conn
        /\ UNCHANGED faults \/ Fault
    BY DEF CommandLost, Goes, remoteVars
  <1>2. conn' \in BOOLEAN /\ pc[s] \in Awaiting
    BY <1>1, Known DEF TypeOK, Awaiting
  <1> QED BY <1>1, <1>2, WaitKeeps

LEMMA RunKeeps ==
    ASSUME OneClaimer, IInv, NEW s \in Spaces, _run_owned_command(s)
    PROVE  IInv'
  <1>1. /\ pc[s] = "sending"
        /\ \/ Owned(s) /\ pc' = [pc EXCEPT ![s] = "waiting"] /\ step' = "apply" /\ target' = Revision(s)
           \/ pc' = [pc EXCEPT ![s] = "lost"] /\ UNCHANGED <<step, target>>
        /\ UNCHANGED <<log, derived, stage, lock, conn, want, own, mirror, synced, repair, told, made, faults, crashes>>
    BY DEF _run_owned_command, remoteVars, countVars
  <1>2. /\ PublishInv(s) /\ Fits(s) /\ Revision(s) \in Revisions /\ Revision(s) \in 0..MaxRevision
        /\ own[s] \in Patches /\ own[s].id \in 1..MaxAppends /\ told[own[s].id] = "nothing"
        /\ stage[Revision(s)] = [patch |-> own[s], files |-> mirror[s]]
    BY <1>1, Known, LogConstants DEF Publishing, PublishInv, TypeOK
  <1>3. pc'[s] \in {"waiting", "lost"} /\ \A t \in Spaces : t # s => pc'[t] = pc[t]
    BY <1>1, Known DEF TypeOK
  <1>4. TypeOK'
    <2>1. RemoteType' /\ ServerType' /\ CountType'
      BY <1>1, Known, TypeParts DEF RemoteType, ServerType, CountType
    <2>2. PcType'
      BY <1>1, Known, TypeParts DEF PcType
    <2>3. HolderType'
      BY <1>1, <1>2, Known, TypeParts, LogConstants DEF HolderType, Owned
    <2> QED BY <2>1, <2>2, <2>3, TypeParts
  <1>5. \A t \in Spaces : Revision(t)' = Revision(t)
    BY <1>1 DEF Revision
  <1>6. SpaceInv(s)'
    <2>1. Fits(s)'
      BY <1>1, <1>2, <1>5 DEF Fits
    <2>2. PublishInv(s)'
      BY <1>1, <1>2, <1>3, <1>5, <2>1 DEF PublishInv
    <2> QED BY <1>1, <1>3, <1>5, <2>2, Known DEF SpaceInv, Publishing, Awaiting
  <1>7. HolderInv'
    <2>1. CASE Owned(s) /\ step' = "apply" /\ target' = Revision(s) /\ pc'[s] = "waiting"
      <3>1. log[Revision(s)] = NoPatch
        BY <1>2, Fitting
      <3>2. mirror[s] = [log EXCEPT ![Revision(s)] = own[s]]
        BY <1>2, Known DEF Fits, PublishInv, Logs
      <3>3. lock' = s /\ pc'[lock'] \in Awaiting
        BY <1>1, <2>1 DEF Owned, Awaiting
      <3>4. PICK n : n = Revision(s)
        OBVIOUS
      <3>5. /\ n \in Revisions /\ target' = n /\ log' = log /\ log[n] = NoPatch /\ told' = told
            /\ own'[s] = own[s] /\ stage' = stage
        BY <1>1, <1>2, <2>1, <3>1, <3>4
      <3>6. stage'[n].patch = own[s] /\ stage'[n].files = [log EXCEPT ![n] = own[s]]
        <4>1. PICK st : st = stage[n]
          OBVIOUS
        <4>2. st = [patch |-> own[s], files |-> mirror[s]]
          BY <1>2, <3>4, <4>1
        <4>3. st.patch = own[s] /\ st.files = mirror[s]
          BY <4>2
        <4>4. mirror[s] = [log EXCEPT ![n] = own[s]]
          BY <3>2, <3>4
        <4> QED BY <3>5, <4>1, <4>3, <4>4
      <3>7. n = LastRevision(log) + 1 /\ Admits(log, own[s]) /\ MayWrite(log, s)
        BY <1>2, <3>4 DEF Fits
      <3>8. Revision(s)' = n
        BY <1>5, <3>4
      <3> QED BY <1>2, <2>1, <3>3, <3>5, <3>6, <3>7, <3>8 DEF HolderInv
    <2>2. CASE UNCHANGED <<step, target>>
      <3>1. lock = s => step = "none"
        BY <1>1, Known DEF Awaiting
      <3> QED BY <1>1, <1>3, <2>2, <3>1, HolderFrame
    <2> QED BY <1>1, <2>1, <2>2, Known DEF TypeOK
  <1>8. \A t \in Spaces : Owes(t) => Owes(t)'
    BY <1>1, <1>3, <1>5 DEF Owes, Awaiting
  <1> QED BY <1>1, <1>3, <1>4, <1>6, <1>7, <1>8, QuietKeeps

(* What is at the revision a server publishes is its own patch. *)
LEMMA SeenIsOwn ==
    ASSUME OneClaimer, IInv, NEW s \in Spaces, pc[s] \in Publishing, log[Revision(s)] # NoPatch
    PROVE  log[Revision(s)] = own[s]
  BY Fitting, Known DEF PublishInv

(* An append that ends without a stage of its own. *)
LEMMA PlainConclusion ==
    ASSUME OneClaimer, IInv, NEW s \in Spaces, pc[s] \in Publishing,
           NEW a \in {"success", "absent", "unknown", "raised"}, Tell(s, a),
           UNCHANGED <<log, derived, stage, synced, made, faults, crashes>>,
           \/ mirror' = mirror /\ log[Revision(s)] = own[s]
           \/ mirror' = [mirror EXCEPT ![s][Revision(s)] = NoPatch],
           repair' \in [Spaces -> BOOLEAN], \A t \in Spaces : repair[t] => repair'[t],
           pc[s] \in Awaiting => repair'[s] \/ log[Revision(s)] = NoPatch,
           a = "success" => log[Revision(s)] = own[s], a = "absent" => log[Revision(s)] = NoPatch,
           HolderType',
           \/ step' = "none"
           \/ UNCHANGED <<lock, step, target>> /\ a # "absent" /\ (pc[s] \in Awaiting => repair'[s])
    PROVE  IInv'
  <1>1. stage' \in [Revisions -> [patch : Patches \cup {NoPatch}, files : Logs \cup {NoPatch}]]
    BY Known, TypeParts DEF RemoteType
  <1>2. faults' \in 0..MaxFaults
    BY FaultType
  <1>3. HolderInv'
    <2>1. CASE step' = "none"
      BY <2>1 DEF HolderInv
    <2>2. CASE UNCHANGED <<lock, step, target>> /\ a # "absent" /\ (pc[s] \in Awaiting => repair'[s])
      <3>1. pc'[s] = "idle" /\ \A t \in Spaces : t # s => pc'[t] = pc[t]
        BY EndsType, Known, TypeParts DEF Tell
      <3>2. \A t \in Spaces : t # s => own'[t] = own[t] /\ mirror'[t] = mirror[t]
        BY Known, TypeParts DEF Tell, ServerType
      <3>3. lock = s /\ step # "none" => repair'[s]
        BY <2>2, Known DEF Publishing, Awaiting
      <3>4. a \in {"success", "unknown", "raised"}
        BY <2>2
      <3>5. lock # Nobody /\ step = "apply" /\ log[target] = NoPatch /\ told[stage[target].patch.id] # "absent" =>
               told'[stage[target].patch.id] # "absent"
        BY <3>4, NotAbsent
      <3> QED BY <2>2, <3>1, <3>2, <3>3, <3>5, HolderFrame
    <2> QED BY <2>1, <2>2
  <1> QED BY <1>1, <1>2, <1>3, ConcludeKeeps

LEMMA LeaveKeeps ==
    ASSUME OneClaimer, IInv, NEW s \in Spaces, LeaveTransaction(s)
    PROVE  IInv'
  <1>1. /\ pc[s] = "leaving" /\ (Tell(s, "success") \/ Tell(s, "raised")) /\ Release(s)
        /\ UNCHANGED <<log, derived, stage, mirror, synced, repair, made, faults, crashes>>
    BY DEF LeaveTransaction, remoteVars
  <1>2. pc[s] \in Publishing /\ pc[s] \notin Awaiting /\ log[Revision(s)] = own[s]
    BY <1>1, Known DEF Publishing, Awaiting, PublishInv
  <1>3. /\ repair' \in [Spaces -> BOOLEAN] /\ \A t \in Spaces : repair[t] => repair'[t]
    BY <1>1, Known DEF TypeOK
  <1>4. HolderType' /\ (step' = "none" \/ UNCHANGED <<lock, step, target>>)
    BY <1>1, ReleaseType, Known, TypeParts
  <1>5. CASE Tell(s, "success")
    BY <1>1, <1>2, <1>3, <1>4, <1>5, PlainConclusion
  <1>6. CASE Tell(s, "raised")
    BY <1>1, <1>2, <1>3, <1>4, <1>6, PlainConclusion
  <1> QED BY <1>1, <1>5, <1>6

(* The outcome is concluded by reconciliation. *)
LEMMA ReconcileKeeps ==
    ASSUME OneClaimer, IInv, NEW s \in Spaces, pc[s] \in Awaiting,
           NEW a \in {"absent", "unknown", "raised"}, NEW status \in {"present", "absent", "unknown"},
           Tell(s, a), Reconcile(s, status),
           status = "present" => log[Revision(s)] # NoPatch,
           status = "absent" => log[Revision(s)] = NoPatch, status = "absent" <=> a = "absent",
           HolderType', step' = "none" \/ (UNCHANGED <<lock, step, target>> /\ a # "absent"),
           UNCHANGED <<log, derived, stage, synced, made, faults, crashes>>
    PROVE  IInv'
  <1>1. pc[s] \in Publishing /\ (status = "present" => log[Revision(s)] = own[s])
    BY SeenIsOwn DEF Publishing
  <1>2. /\ repair' \in [Spaces -> BOOLEAN] /\ \A t \in Spaces : repair[t] => repair'[t]
        /\ status # "absent" => repair'[s]
        /\ status = "present" => mirror' = mirror
        /\ status # "present" => mirror' = [mirror EXCEPT ![s][Revision(s)] = NoPatch]
    BY Reconciled
  <1>3. a \in {"success", "absent", "unknown", "raised"} /\ a # "success"
    OBVIOUS
  <1> QED BY <1>1, <1>2, <1>3, PlainConclusion

LEMMA ProbeOutsideKeeps ==
    ASSUME OneClaimer, IInv, NEW s \in Spaces, ProbeOutsideLock(s)
    PROVE  IInv'
  <1>1. /\ pc[s] = "lost" /\ pc[s] \in Awaiting
        /\ UNCHANGED <<log, derived, stage, lock, conn, step, target, synced, made, crashes>>
    BY DEF ProbeOutsideLock, remoteVars, holderVars, Awaiting
  <1>2. CASE log[Revision(s)] # NoPatch /\ Tell(s, "raised") /\ Reconcile(s, "present") /\ UNCHANGED faults
    <2>1. HolderType'
      BY <1>1, Known, TypeParts DEF HolderType
    <2> QED BY <1>1, <1>2, <2>1, ReconcileKeeps
  <1>3. CASE /\ pc' = [pc EXCEPT ![s] = "relocking"] /\ UNCHANGED <<told, want, own, mirror, repair>>
             /\ UNCHANGED faults \/ Fault
    <2>1. conn' \in BOOLEAN
      BY <1>1, Known DEF TypeOK
    <2> QED BY <1>1, <1>3, <2>1, WaitKeeps
  <1> QED BY <1>2, <1>3 DEF ProbeOutsideLock

LEMMA ProbeUnderKeeps ==
    ASSUME OneClaimer, IInv, NEW s \in Spaces, ProbeUnderLock(s)
    PROVE  IInv'
  <1>1. /\ pc[s] = "relocking" /\ pc[s] \in Awaiting /\ step = "none"
        /\ UNCHANGED <<log, derived, stage, lock, conn, step, target, synced, made, faults, crashes>>
    BY Known DEF ProbeUnderLock, remoteVars, holderVars, Awaiting
  <1>2. HolderType' /\ step' = "none"
    BY <1>1, Known, TypeParts DEF HolderType
  <1>3. CASE log[Revision(s)] # NoPatch
    BY <1>1, <1>2, <1>3, ReconcileKeeps DEF ProbeUnderLock
  <1>4. CASE log[Revision(s)] = NoPatch
    BY <1>1, <1>2, <1>4, ReconcileKeeps DEF ProbeUnderLock
  <1> QED BY <1>3, <1>4

LEMMA GivenUpKeeps ==
    ASSUME OneClaimer, IInv, NEW s \in Spaces, ProbeGivenUp(s)
    PROVE  IInv'
  <1>1. /\ pc[s] \in Awaiting /\ Tell(s, "unknown") /\ Reconcile(s, "unknown")
        /\ UNCHANGED <<log, derived, stage, lock, conn, step, target, synced, made, faults, crashes>>
    BY DEF ProbeGivenUp, remoteVars, holderVars, Awaiting
  <1>2. HolderType'
    BY <1>1, Known, TypeParts DEF HolderType
  <1> QED BY <1>1, <1>2, ReconcileKeeps

(* The holder's answer settles the outcome: its server leaves. *)
LEMMA SettledKeeps ==
    ASSUME OneClaimer, IInv, NEW s \in Spaces, pc[s] = "waiting", lock = s, step \in {"ok", "present"},
           pc' = [pc EXCEPT ![s] = "leaving"], step' = "none", repair' \in [Spaces -> BOOLEAN],
           UNCHANGED <<log, derived, stage, lock, conn, target, told, want, own, mirror, synced, made,
           faults, crashes>>,
           \A t \in Spaces : repair[t] => repair'[t], step = "present" => repair'[s]
    PROVE  IInv'
  <1>1. /\ target = Revision(s) /\ log[target] # NoPatch /\ (step = "ok" => derived = log)
    BY Known, LogConstants DEF HolderInv, Awaiting
  <1>2. pc[s] \in Publishing /\ log[Revision(s)] = own[s]
    BY <1>1, SeenIsOwn DEF Publishing, Awaiting
  <1>3. pc'[s] = "leaving" /\ \A t \in Spaces : t # s => pc'[t] = pc[t]
    BY Known DEF TypeOK
  <1>4. \A t \in Spaces : Revision(t)' = Revision(t)
    BY DEF Revision
  <1>5. TypeOK'
    <2>1. RemoteType' /\ HolderType' /\ ServerType' /\ CountType'
      BY Known, TypeParts DEF RemoteType, HolderType, ServerType, CountType
    <2>2. PcType'
      BY Known, TypeParts DEF PcType
    <2> QED BY <2>1, <2>2, TypeParts
  <1>6. SpaceInv(s)'
    <2>1. PublishInv(s)'
      BY <1>2, <1>3, <1>4, Known DEF PublishInv
    <2> QED BY <1>3, <1>4, <2>1, Known DEF SpaceInv, Publishing, Awaiting
  <1>7. HolderInv'
    BY DEF HolderInv
  <1>8. \A t \in Spaces : SpaceInv(t)'
    <2> SUFFICES ASSUME NEW t \in Spaces, t # s PROVE SpaceInv(t)'
      BY <1>6
    <2> QED BY <1>3, SpaceKeeps, Known
  <1>9. IdInv'
    BY <1>4, IdKeeps, Known
  <1>10. RepairInv'
    <2>1. CASE step = "ok"
      BY <1>1, <2>1 DEF RepairInv
    <2>2. CASE step = "present"
      BY <2>2 DEF RepairInv, Owes
    <2> QED BY <2>1, <2>2
  <1>11. ReportsAreTrue' /\ Contiguous(log, LastRevision(log))'
    BY DEF IInv, ReportsAreTrue, InLog
  <1> QED BY <1>5, <1>7, <1>8, <1>9, <1>10, <1>11 DEF IInv

LEMMA AnsweredKeeps ==
    ASSUME OneClaimer, IInv, NEW s \in Spaces, Answered(s)
    PROVE  IInv'
  <1>1. /\ pc[s] = "waiting" /\ lock = s /\ pc[s] \in Awaiting
        /\ UNCHANGED <<log, derived, stage, synced, made, faults, crashes>>
    BY DEF Answered, Owned, remoteVars, Awaiting
  <1>2. repair \in [Spaces -> BOOLEAN]
    BY Known DEF TypeOK
  <1>3. CASE /\ step = "ok" /\ pc' = [pc EXCEPT ![s] = "leaving"] /\ step' = "none"
             /\ UNCHANGED <<lock, conn, target, told, want, own, mirror, repair>>
    BY <1>1, <1>2, <1>3, SettledKeeps
  <1>4. CASE /\ step = "present" /\ step' = "apply"
             /\ UNCHANGED <<pc, lock, conn, target, told, want, own, mirror, repair>>
    <2>1. TypeOK'
      <3>1. RemoteType' /\ PcType' /\ ServerType' /\ CountType'
        BY <1>1, <1>4, Known, TypeParts DEF RemoteType, PcType, ServerType, CountType
      <3>2. HolderType'
        BY <1>1, <1>4, Known, TypeParts, LogConstants DEF HolderType
      <3> QED BY <3>1, <3>2, TypeParts
    <2>2. \A t \in Spaces : Revision(t)' = Revision(t)
      BY <1>4 DEF Revision
    <2>3. HolderInv'
      BY <1>1, <1>4, <2>2, Known, LogConstants DEF HolderInv
    <2>4. SpaceInv(s)'
      BY <1>1, <1>4, SpaceKeeps, Known
    <2>5. \A t \in Spaces : Owes(t) => Owes(t)'
      BY <1>1, <1>4, <2>2 DEF Owes
    <2> QED BY <1>1, <1>4, <2>1, <2>3, <2>4, <2>5, QuietKeeps
  <1>5. CASE /\ step = "present" /\ pc' = [pc EXCEPT ![s] = "leaving"] /\ step' = "none"
             /\ Reconcile(s, "present") /\ UNCHANGED <<lock, conn, target, told, want, own>>
    <2>1. /\ repair' \in [Spaces -> BOOLEAN] /\ \A t \in Spaces : repair[t] => repair'[t]
          /\ repair'[s] /\ mirror' = mirror
      BY <1>5, Reconciled
    <2> QED BY <1>1, <1>5, <2>1, SettledKeeps
  <1>6. CASE step = "absent" /\ Tell(s, "absent") /\ Reconcile(s, "absent") /\ Release(s)
    <2>1. log[Revision(s)] = NoPatch
      BY <1>1, <1>6, Known, LogConstants DEF HolderInv
    <2>2. HolderType' /\ step' = "none"
      BY <1>6, ReleaseType, Known, TypeParts DEF Answered
    <2> QED BY <1>1, <1>6, <2>1, <2>2, ReconcileKeeps
  <1> QED BY <1>3, <1>4, <1>5, <1>6 DEF Answered

-----------------------------------------------------------------------------
(* Processes and holders. *)

LEMMA ProcessDiesKeeps ==
    ASSUME IInv, NEW s \in Spaces, ProcessDies(s)
    PROVE  IInv'
  <1>1. /\ crashes < MaxCrashes /\ crashes' = crashes + 1 /\ Ends(s)
        /\ own' = [own EXCEPT ![s] = NoPatch] /\ synced' = [synced EXCEPT ![s] = FALSE]
        /\ repair' = [repair EXCEPT ![s] = FALSE] /\ conn' = (conn /\ lock # s)
        /\ UNCHANGED <<log, derived, stage, lock, step, target, mirror, told, made, faults>>
    BY DEF ProcessDies, remoteVars
  <1>2. crashes' # 0 /\ crashes' \in 0..MaxCrashes
    BY <1>1, Known, LogConstants DEF TypeOK
  <1>3. /\ pc'[s] = "idle" /\ own'[s] = NoPatch /\ ~synced'[s]
        /\ \A t \in Spaces : t # s => /\ pc'[t] = pc[t] /\ want'[t] = want[t]
                                      /\ own'[t] = own[t] /\ synced'[t] = synced[t]
                                      /\ repair[t] => repair'[t]
    <2>1. pc'[s] = "idle" /\ \A t \in Spaces : t # s => pc'[t] = pc[t] /\ want'[t] = want[t]
      BY <1>1, EndsType, Known, TypeParts
    <2>2. own'[s] = NoPatch /\ \A t \in Spaces : t # s => own'[t] = own[t]
      BY <1>1, Known DEF TypeOK
    <2>3. ~synced'[s] /\ \A t \in Spaces : t # s => synced'[t] = synced[t]
      BY <1>1, Known DEF TypeOK
    <2>4. \A t \in Spaces : t # s => repair'[t] = repair[t]
      BY <1>1, Known DEF TypeOK
    <2> QED BY <2>1, <2>2, <2>3, <2>4
  <1>4. TypeOK'
    <2>1. RemoteType' /\ CountType'
      BY <1>1, <1>2, Known, TypeParts DEF RemoteType, CountType
    <2>2. PcType'
      BY <1>1, EndsType, Known, TypeParts
    <2>3. HolderType'
      <3>1. conn' \in BOOLEAN
        BY <1>1
      <3> QED BY <1>1, <3>1, Known, TypeParts DEF HolderType
    <2>4. ServerType'
      BY <1>1, Known, TypeParts DEF ServerType
    <2> QED BY <2>1, <2>2, <2>3, <2>4, TypeParts
  <1>5. \A t \in Spaces : Revision(t)' = Revision(t)
    BY <1>1 DEF Revision
  <1>6. \A t \in Spaces : SpaceInv(t)'
    <2> SUFFICES ASSUME NEW t \in Spaces PROVE SpaceInv(t)'
      OBVIOUS
    <2>1. CASE t = s
      BY <1>1, <1>2, <1>3, <1>5, <2>1, Known DEF SpaceInv, Publishing, Awaiting
    <2>2. CASE t # s
      <3>1. /\ pc'[t] = pc[t] /\ want'[t] = want[t] /\ own'[t] = own[t] /\ mirror'[t] = mirror[t]
            /\ synced'[t] = synced[t] /\ told' = told /\ stage' = stage /\ log' = log
        BY <1>1, <1>3, <2>2
      <3>2. made \in Nat /\ made' \in Nat /\ made <= made' /\ SpaceInv(t)
        BY <1>1, Known
      <3> QED BY <1>2, <3>1, <3>2, SpaceKeeps
    <2> QED BY <2>1, <2>2
  <1>7. HolderInv'
    BY <1>1, <1>2, <1>3, HolderFrame
  <1>8. IdInv'
    BY <1>1, <1>3, <1>5, IdKeeps, Known
  <1>9. RepairInv' /\ ReportsAreTrue' /\ Contiguous(log, LastRevision(log))'
    BY <1>1, <1>2 DEF IInv, RepairInv, ReportsAreTrue, InLog
  <1> QED BY <1>4, <1>6, <1>7, <1>8, <1>9 DEF IInv

(* A server at rest copies the log while nobody holds the lock. *)
LEMMA CopyKeeps ==
    ASSUME IInv, NEW s \in Spaces, pc[s] = "idle", lock = Nobody, mirror' = [mirror EXCEPT ![s] = log],
           UNCHANGED <<log, derived, stage, lock, conn, step, target, pc, want, own, told, made,
           faults, crashes>>,
           synced'[s], \A t \in Spaces : t # s => synced'[t] = synced[t],
           synced' \in [Spaces -> BOOLEAN],
           repair' \in [Spaces -> BOOLEAN], repair' = repair \/ crashes # 0
    PROVE  IInv'
  <1>1. step = "none" /\ own[s] = NoPatch
    BY Known DEF Publishing, Awaiting
  <1>2. mirror'[s] = log /\ (\A t \in Spaces : t # s => mirror'[t] = mirror[t]) /\ mirror' \in [Spaces -> Logs]
    BY Known DEF TypeOK
  <1>3. TypeOK'
    <2>1. RemoteType' /\ HolderType' /\ PcType' /\ CountType'
      BY Known, TypeParts DEF RemoteType, HolderType, PcType, CountType
    <2>2. ServerType'
      BY <1>2, Known, TypeParts DEF ServerType
    <2> QED BY <2>1, <2>2, TypeParts
  <1>4. \A t \in Spaces : SpaceInv(t)'
    <2> SUFFICES ASSUME NEW t \in Spaces PROVE SpaceInv(t)'
      OBVIOUS
    <2>1. CASE t = s
      <3>1. Revision(s)' = LastRevision(log)
        BY <1>2 DEF Revision
      <3> QED BY <1>1, <1>2, <2>1, <3>1, Known DEF SpaceInv, Publishing, Awaiting
    <2>2. CASE t # s
      BY <1>2, <2>2, SpaceKeeps, Known
    <2> QED BY <2>1, <2>2
  <1>5. HolderInv'
    BY <1>1 DEF HolderInv
  <1>6. \A t \in Spaces : own'[t] = NoPatch \/ (own'[t] = own[t] /\ Revision(t)' = Revision(t))
    BY <1>1, <1>2 DEF Revision
  <1>7. IdInv'
    BY <1>6, IdKeeps, Known
  <1>8. RepairInv'
    <2>1. CASE crashes # 0
      BY <2>1 DEF RepairInv
    <2>2. CASE repair' = repair
      <3>1. \A t \in Spaces : Owes(t) => Owes(t)'
        BY <1>2, <2>2 DEF Owes, Awaiting, Revision
      <3> QED BY <3>1, RepairKeeps, Known
    <2> QED BY <2>1, <2>2
  <1>9. ReportsAreTrue' /\ Contiguous(log, LastRevision(log))'
    BY DEF IInv, ReportsAreTrue, InLog
  <1> QED BY <1>3, <1>4, <1>5, <1>7, <1>8, <1>9 DEF IInv

LEMMA InitializeKeeps ==
    ASSUME IInv, NEW s \in Spaces, initialize(s)
    PROVE  IInv'
  <1>1. /\ pc[s] = "idle" /\ ~synced[s] /\ lock = Nobody /\ mirror' = [mirror EXCEPT ![s] = log]
        /\ synced' = [synced EXCEPT ![s] = TRUE]
        /\ repair' = [repair EXCEPT ![s] = derived # log /\ HomeOf(log) = s]
        /\ UNCHANGED <<log, derived, stage, lock, conn, step, target, pc, want, own, told, made, faults, crashes>>
    BY DEF initialize, remoteVars, holderVars, countVars
  <1>2. crashes # 0
    BY <1>1, Known DEF SpaceInv
  <1>3. synced'[s] /\ (\A t \in Spaces : t # s => synced'[t] = synced[t]) /\ synced' \in [Spaces -> BOOLEAN]
    BY <1>1, Known DEF TypeOK
  <1>4. repair' \in [Spaces -> BOOLEAN]
    BY <1>1, Known DEF TypeOK
  <1> QED BY <1>1, <1>2, <1>3, <1>4, CopyKeeps

LEMMA RefreshKeeps ==
    ASSUME IInv, NEW s \in Spaces, refresh_if_stale(s)
    PROVE  IInv'
  <1>1. /\ pc[s] = "idle" /\ synced[s] /\ lock = Nobody /\ mirror' = [mirror EXCEPT ![s] = log]
        /\ UNCHANGED <<log, derived, stage, lock, conn, step, target, pc, want, own, told, made, faults, crashes>>
        /\ UNCHANGED <<synced, repair>>
    BY DEF refresh_if_stale, remoteVars, holderVars, countVars
  <1>2. synced' \in [Spaces -> BOOLEAN] /\ repair' \in [Spaces -> BOOLEAN]
    BY <1>1, Known DEF TypeOK
  <1> QED BY <1>1, <1>2, CopyKeeps

(* A step of the holder that leaves the servers and the log alone. *)
LEMMA HolderSteps ==
    ASSUME OneClaimer, IInv, lock # Nobody,
           UNCHANGED <<log, pc, want, own, mirror, synced, repair, told, made, crashes>>,
           UNCHANGED faults \/ Fault, RemoteType', HolderType', HolderInv',
           \/ UNCHANGED <<derived, stage>>
           \/ /\ \A r \in Revisions : r # target => stage'[r] = stage[r]
              /\ stage'[target].patch = NoPatch /\ log[target] # NoPatch
              /\ derived' \in {derived, log}
    PROVE  IInv'
  <1>1. lock \in Spaces
    BY DEF IInv, TypeOK
  <1>2. TypeOK'
    <2>1. PcType' /\ ServerType'
      BY <1>1, Known, TypeParts DEF PcType, ServerType
    <2>2. CountType'
      BY <1>1, FaultType, Known, TypeParts DEF CountType
    <2> QED BY <2>1, <2>2, TypeParts
  <1>3. \A t \in Spaces : Revision(t)' = Revision(t)
    BY DEF Revision
  <1>4. \A t \in Spaces : SpaceInv(t)'
    <2> SUFFICES ASSUME NEW t \in Spaces PROVE SpaceInv(t)'
      OBVIOUS
    <2>1. pc[t] = "sending" => stage'[Revision(t)] = stage[Revision(t)]
      <3> SUFFICES ASSUME pc[t] = "sending" PROVE stage'[Revision(t)] = stage[Revision(t)]
        OBVIOUS
      <3>1. Revision(t) \in Revisions /\ Fits(t)
        BY Known DEF Publishing, PublishInv
      <3>2. log[Revision(t)] = NoPatch
        BY <3>1, Fitting
      <3> QED BY <3>1, <3>2
    <2> QED BY <2>1, SpaceKeeps, Known
  <1>5. \A r \in Revisions : stage'[r].patch \in {NoPatch, stage[r].patch}
    OBVIOUS
  <1>6. IdInv'
    BY <1>1, <1>3, <1>5, IdKeeps, Known
  <1>7. RepairInv'
    <2>1. CASE derived' = derived
      <3>1. \A t \in Spaces : Owes(t) => Owes(t)'
        BY <1>3 DEF Owes
      <3> QED BY <1>1, <2>1, <3>1, RepairKeeps, Known
    <2>2. CASE derived' = log
      BY <2>2 DEF RepairInv
    <2> QED BY <2>1, <2>2
  <1>8. ReportsAreTrue' /\ Contiguous(log, LastRevision(log))'
    BY DEF IInv, ReportsAreTrue, InLog
  <1> QED BY <1>2, <1>4, <1>6, <1>7, <1>8 DEF IInv

LEMMA DisconnectKeeps ==
    ASSUME OneClaimer, IInv, Disconnect
    PROVE  IInv'
  <1>1. /\ lock # Nobody /\ Fault /\ conn' = FALSE
        /\ UNCHANGED <<log, derived, stage, lock, step, target, pc, want, own, mirror, synced, repair, told, made, crashes>>
    BY DEF Disconnect, remoteVars, serverVars
  <1>2. lock \in Spaces
    BY <1>1 DEF IInv, TypeOK
  <1>3. RemoteType' /\ HolderType'
    BY <1>1, <1>2, Known, TypeParts DEF RemoteType, HolderType
  <1>4. HolderInv'
    BY <1>1, <1>2, HolderKeeps, Known DEF HolderInv
  <1> QED BY <1>1, <1>3, <1>4, HolderSteps

LEMMA HolderDiesKeeps ==
    ASSUME OneClaimer, IInv, HolderDies
    PROVE  IInv'
  <1>1. /\ lock # Nobody /\ (Fault \/ UNCHANGED faults)
        /\ lock' = Nobody /\ conn' = FALSE /\ step' = "none" /\ target' = 0
        /\ UNCHANGED <<log, derived, stage, pc, want, own, mirror, synced, repair, told, made, crashes>>
    BY DEF HolderDies, remoteVars, serverVars
  <1>2. lock \in Spaces
    BY <1>1 DEF IInv, TypeOK
  <1>3. RemoteType' /\ HolderInv'
    BY <1>1, <1>2, Known, TypeParts DEF RemoteType, HolderInv
  <1>4. HolderType'
    <2>1. target' \in 0..MaxRevision
      BY <1>1, LogConstants
    <2> QED BY <1>1, <2>1 DEF HolderType
  <1> QED BY <1>1, <1>3, <1>4, HolderSteps

LEMMA ApplyFailsKeeps ==
    ASSUME OneClaimer, IInv, ApplyFails
    PROVE  IInv'
  <1>1. /\ lock # Nobody /\ step \in {"apply", "files"} /\ Fault
        /\ step' = IF log[target] # NoPatch THEN "present" ELSE "absent"
        /\ UNCHANGED <<log, derived, stage, lock, conn, target, pc, want, own, mirror, synced, repair, told, made, crashes>>
    BY DEF ApplyFails, remoteVars, serverVars
  <1>2. lock \in Spaces
    BY <1>1 DEF IInv, TypeOK
  <1>3. RemoteType' /\ HolderType'
    BY <1>1, <1>2, Known, TypeParts DEF RemoteType, HolderType
  <1>4. Revision(lock)' = Revision(lock)
    BY <1>1 DEF Revision
  <1>5. HolderInv'
    BY <1>1, <1>2, <1>4, Known DEF HolderInv
  <1> QED BY <1>1, <1>3, <1>5, HolderSteps

LEMMA ApplyFilesKeeps ==
    ASSUME OneClaimer, IInv, ApplyFiles
    PROVE  IInv'
  <1>1. /\ lock # Nobody /\ step = "files" /\ step' = "ok"
        /\ derived' = (IF stage[target].files = NoPatch THEN derived ELSE stage[target].files)
        /\ stage' = [stage EXCEPT ![target] = Nothing]
        /\ UNCHANGED <<log, lock, conn, target, pc, want, own, mirror, synced, repair, told, made, faults, crashes>>
    BY DEF ApplyFiles, serverVars, countVars
  <1>2. lock \in Spaces
    BY <1>1 DEF IInv, TypeOK
  <1>3. target \in Revisions /\ log[target] # NoPatch /\ stage[target].files = log
    BY <1>1, <1>2, Known DEF HolderInv
  <1>4. derived' = log
    BY <1>1, <1>2, <1>3, Known, LogConstants
  <1>5. Nothing \in [patch : Patches \cup {NoPatch}, files : Logs \cup {NoPatch}] /\ Nothing.patch = NoPatch
    BY DEF Nothing
  <1>6. /\ stage' \in [Revisions -> [patch : Patches \cup {NoPatch}, files : Logs \cup {NoPatch}]]
        /\ stage'[target].patch = NoPatch /\ \A r \in Revisions : r # target => stage'[r] = stage[r]
    BY <1>1, <1>2, <1>3, <1>5, Known DEF TypeOK
  <1>7. RemoteType' /\ HolderType'
    BY <1>1, <1>2, <1>4, <1>6, Known, TypeParts DEF RemoteType, HolderType
  <1>8. Revision(lock)' = Revision(lock)
    BY <1>1 DEF Revision
  <1>9. HolderInv'
    BY <1>1, <1>2, <1>3, <1>4, <1>8, Known DEF HolderInv
  <1> QED BY <1>1, <1>3, <1>4, <1>6, <1>7, <1>9, HolderSteps

(* The holder finds its patch committed, by itself before its answer was lost. *)
LEMMA AgreedKeeps ==
    ASSUME OneClaimer, IInv, ApplyCommit, log[target] # NoPatch
    PROVE  IInv' /\ log' = log
  <1>1. lock # Nobody /\ step = "apply" /\ lock \in Spaces
    BY DEF ApplyCommit, IInv, TypeOK
  <1>2. target \in Revisions /\ stage[target].files = log /\ stage[target].patch \in {NoPatch, log[target]}
    BY <1>1, Known DEF HolderInv
  <1>3. /\ log' = log /\ step' = "files" /\ stage' = [stage EXCEPT ![target].patch = NoPatch]
        /\ UNCHANGED <<derived, lock, conn, target, pc, want, own, mirror, synced, repair, told, made, faults, crashes>>
    BY <1>2 DEF ApplyCommit, serverVars, countVars
  <1>4. stage \in [Revisions -> [patch : Patches \cup {NoPatch}, files : Logs \cup {NoPatch}]]
    BY <1>1, Known DEF TypeOK
  <1>5. /\ stage' \in [Revisions -> [patch : Patches \cup {NoPatch}, files : Logs \cup {NoPatch}]]
        /\ stage'[target].patch = NoPatch /\ stage'[target].files = log
        /\ \A r \in Revisions : r # target => stage'[r] = stage[r]
    BY <1>2, <1>3, <1>4
  <1>6. RemoteType' /\ HolderType'
    BY <1>1, <1>3, <1>5, Known, TypeParts DEF RemoteType, HolderType
  <1>7. Revision(lock)' = Revision(lock)
    BY <1>3 DEF Revision
  <1>8. HolderInv'
    BY <1>1, <1>2, <1>3, <1>5, <1>7, Known DEF HolderInv
  <1> QED BY <1>1, <1>3, <1>5, <1>6, <1>8, HolderSteps

(* The holder commits: what it stages fits the log, and nobody else has something that does. *)
LEMMA CommitFacts ==
    ASSUME IInv, ApplyCommit, log[target] = NoPatch
    PROVE  /\ lock # Nobody /\ lock \in Spaces /\ step = "apply" /\ step' = "files" /\ target \in Revisions
           /\ stage[target].patch \in Patches /\ target = LastRevision(log) + 1
           /\ Admits(log, stage[target].patch)
           /\ log' = [log EXCEPT ![target] = stage[target].patch]
           /\ stage' = [stage EXCEPT ![target].patch = NoPatch]
           /\ UNCHANGED <<derived, lock, conn, target, pc, want, own, mirror, synced, repair, told, made, faults, crashes>>
  <1>1. lock # Nobody /\ step = "apply" /\ lock \in Spaces
    BY DEF ApplyCommit, IInv, TypeOK
  <1>2. /\ target \in Revisions /\ stage[target].patch \in Patches /\ target = LastRevision(log) + 1
        /\ Admits(log, stage[target].patch)
    BY <1>1, Known DEF HolderInv
  <1>3. stage[target].patch # NoPatch
    BY <1>2, LogConstants
  <1> QED BY <1>1, <1>2, <1>3 DEF ApplyCommit, serverVars, countVars

LEMMA CommitKeeps ==
    ASSUME OneClaimer, IInv, ApplyCommit, log[target] = NoPatch
    PROVE  IInv'
  <1>1. PICK p : p = stage[target].patch
    OBVIOUS
  <1>2. PICK k : k = target
    OBVIOUS
  <1>3. /\ lock # Nobody /\ lock \in Spaces /\ step = "apply" /\ step' = "files" /\ k \in Revisions
        /\ p \in Patches /\ p # NoPatch /\ k = LastRevision(log) + 1 /\ log[k] = NoPatch
        /\ log' = [log EXCEPT ![k] = p] /\ stage' = [stage EXCEPT ![k].patch = NoPatch]
        /\ UNCHANGED <<derived, lock, conn, target, pc, want, own, mirror, synced, repair, told, made, faults, crashes>>
    BY <1>1, <1>2, CommitFacts, LogConstants
  <1>4. /\ pc[lock] \in {"idle", "locking"} \cup Awaiting
        /\ pc[lock] \in Awaiting => k = Revision(lock) /\ p = own[lock]
        /\ pc[lock] \in Awaiting \/ crashes # 0 \/ repair[lock]
        /\ MayWrite(log, lock) /\ p.id \in 1..MaxAppends /\ told[p.id] # "absent"
        /\ stage[k].files = [log EXCEPT ![k] = p]
    BY <1>1, <1>2, <1>3, Known DEF HolderInv
  <1>5. /\ log \in Logs /\ log'[k] = p /\ \A r \in Revisions : r # k => log'[r] = log[r]
    BY <1>3, Known DEF Logs
  <1>6. log' \in Logs /\ Contiguous(log', LastRevision(log'))
    BY <1>3, Known, LogExtends
  <1>7. /\ stage' \in [Revisions -> [patch : Patches \cup {NoPatch}, files : Logs \cup {NoPatch}]]
        /\ stage'[k].patch = NoPatch /\ stage'[k].files = stage[k].files
        /\ \A r \in Revisions : r # k => stage'[r] = stage[r]
    <2>1. stage \in [Revisions -> [patch : Patches \cup {NoPatch}, files : Logs \cup {NoPatch}]]
      BY <1>3, Known DEF TypeOK
    <2> QED BY <1>3, <2>1
  <1>8. \A t \in Spaces : Revision(t)' = Revision(t)
    BY <1>3 DEF Revision
  <1>9. TypeOK'
    <2>1. RemoteType'
      BY <1>3, <1>6, <1>7, Known, TypeParts DEF RemoteType
    <2>2. HolderType' /\ PcType' /\ ServerType' /\ CountType'
      BY <1>3, Known, TypeParts DEF HolderType, PcType, ServerType, CountType
    <2> QED BY <2>1, <2>2, TypeParts
  <1>10. \A t \in Spaces : SpaceInv(t)'
    <2> SUFFICES ASSUME NEW t \in Spaces PROVE SpaceInv(t)'
      OBVIOUS
    <2>1. \A x, q : q \in Revisions /\ x \in {NoPatch, log[q]} => x \in {NoPatch, log'[q]}
      BY <1>3, <1>5
    <2>2. pc[t] = "checking" => ~MayWrite(mirror[t], t)
      <3> SUFFICES ASSUME pc[t] = "checking", MayWrite(mirror[t], t) PROVE FALSE
        OBVIOUS
      <3>1. mirror[t] = log
        BY Known DEF SpaceInv
      <3>2. t = lock
        BY <1>3, <1>4, <3>1, OneWriter
      <3> QED BY <1>4, <3>2 DEF Awaiting
    <2>3. pc[t] \in Publishing => PublishInv(t)'
      <3> SUFFICES ASSUME pc[t] \in Publishing PROVE PublishInv(t)'
        OBVIOUS
      <3>1. PublishInv(t)
        BY Known
      <3>2. Fits(t) => t = lock /\ pc[t] \in Awaiting
        <4> SUFFICES ASSUME Fits(t) PROVE t = lock /\ pc[t] \in Awaiting
          OBVIOUS
        <4>1. t = lock
          BY <1>3, <1>4, OneWriter DEF Fits
        <4> QED BY <1>4, <4>1 DEF Publishing, Awaiting
      <3>3. log'[Revision(t)] = own[t]
        <4>1. CASE Fits(t)
          BY <1>4, <1>5, <3>2, <4>1
        <4>2. CASE log[Revision(t)] = own[t]
          BY <1>3, <1>5, <3>1, <4>2, LogConstants DEF PublishInv
        <4> QED BY <3>1, <4>1, <4>2 DEF PublishInv
      <3>4. pc[t] \notin {"staging", "sending"}
        BY <3>1, <3>2 DEF PublishInv, Awaiting
      <3> QED BY <1>3, <1>8, <2>1, <3>1, <3>3, <3>4 DEF PublishInv
    <2> QED BY <1>3, <1>8, <2>1, <2>2, <2>3, Known DEF SpaceInv
  <1>11. HolderInv'
    <2>1. stage'[k].files = log'
      BY <1>3, <1>4, <1>7
    <2>2. target' = k /\ step' = "files" /\ log'[k] # NoPatch /\ stage'[k].patch = NoPatch
      BY <1>2, <1>3, <1>5, <1>7
    <2>3. lock' = lock /\ pc' = pc /\ crashes' = crashes /\ repair' = repair /\ Revision(lock)' = Revision(lock)
      BY <1>3, <1>8
    <2> QED BY <1>3, <1>4, <2>1, <2>2, <2>3 DEF HolderInv
  <1>12. IdInv'
    <2>1. p.id <= made /\ \A t \in Spaces : own[t] # NoPatch /\ p.id = own[t].id => p = own[t] /\ k = Revision(t)
      BY <1>1, <1>2, <1>3, Known DEF IdInv
    <2>2. \A r \in Revisions : log'[r] = log[r] \/ (r = k /\ log'[r] = p)
      BY <1>5
    <2>3. \A r \in Revisions : stage'[r].patch \in {NoPatch, stage[r].patch}
      BY <1>7
    <2>4. \A r \in Revisions : /\ log'[r] # NoPatch => log'[r].id <= made'
                               /\ stage'[r].patch # NoPatch => stage'[r].patch.id <= made'
      BY <1>3, <2>1, <2>2, <2>3, Known DEF IdInv
    <2>5. \A t \in Spaces, r \in Revisions : own'[t] # NoPatch =>
             /\ log'[r] # NoPatch /\ log'[r].id = own'[t].id => log'[r] = own'[t] /\ r = Revision(t)'
             /\ stage'[r].patch # NoPatch /\ stage'[r].patch.id = own'[t].id =>
                   stage'[r].patch = own'[t] /\ r = Revision(t)'
      BY <1>3, <1>8, <2>1, <2>2, <2>3, Known DEF IdInv
    <2>6. /\ \A i \in 1..MaxAppends : i > made' => told'[i] = "nothing"
          /\ \A s, t \in Spaces : own'[s] # NoPatch /\ own'[t] # NoPatch /\ own'[s].id = own'[t].id => s = t
      BY <1>3, Known DEF IdInv
    <2> QED BY <2>4, <2>5, <2>6 DEF IdInv
  <1>13. RepairInv'
    <2>1. crashes' = 0 => Owes(lock)'
      <3>1. pc[lock] \in Awaiting => log'[Revision(lock)] # NoPatch
        BY <1>3, <1>4, <1>5
      <3> QED BY <1>3, <1>4, <1>8, <3>1 DEF Owes
    <2> QED BY <1>3, <2>1 DEF RepairInv
  <1>14. ReportsAreTrue'
    <2>1. \A i \in 1..MaxAppends : InLog(i) => InLog(i)'
      BY <1>3, <1>5 DEF InLog
    <2>2. \A i \in 1..MaxAppends : InLog(i)' => InLog(i) \/ i = p.id
      BY <1>5 DEF InLog
    <2> QED BY <1>3, <1>4, <2>1, <2>2, Known DEF ReportsAreTrue
  <1> QED BY <1>6, <1>9, <1>10, <1>11, <1>12, <1>13, <1>14 DEF IInv

-----------------------------------------------------------------------------
(* The steps together. *)

LEMMA StutterKeeps ==
    ASSUME IInv, UNCHANGED vars
    PROVE  IInv'
  <1>1. /\ UNCHANGED <<log, derived, stage, lock, conn, step, target, pc, want, own, mirror, synced, repair>>
        /\ UNCHANGED <<told, made, faults, crashes>>
    BY DEF vars, remoteVars, holderVars, serverVars, countVars
  <1>2. TypeOK' /\ HolderInv' /\ IdInv' /\ RepairInv' /\ ReportsAreTrue' /\ Contiguous(log, LastRevision(log))'
    BY <1>1 DEF IInv, TypeOK, HolderInv, IdInv, RepairInv, Owes, Revision, ReportsAreTrue, InLog
  <1>3. \A t \in Spaces : SpaceInv(t)'
    BY <1>1, SpaceKeeps, Known
  <1> QED BY <1>2, <1>3 DEF IInv

LEMMA PublishesKeeps ==
    ASSUME OneClaimer, IInv, NEW s \in Spaces, Publishes(s)
    PROVE  IInv'
  BY StageKeeps, StagingFailsKeeps, PublicationRefusedKeeps, RunKeeps, AnsweredKeeps, LeaveKeeps,
     CommandLostKeeps, ProbeOutsideKeeps, ProbeUnderKeeps, GivenUpKeeps DEF Publishes

LEMMA NextKeeps ==
    ASSUME OneClaimer, IInv, [Next]_vars
    PROVE  IInv'
  <1>1. CASE \E s \in Spaces :
                \/ \E k \in Kinds, to \in Spaces : Begin(s, k, to)
                \/ _remote_advisory_lock(s) \/ _sync_remote_tree(s) \/ TransactionFails(s)
                \/ Refused(s) \/ _repair_materializations_locked(s) \/ _append_locked(s)
                \/ Publishes(s)
                \/ ProcessDies(s) \/ initialize(s) \/ refresh_if_stale(s)
    BY <1>1, BeginKeeps, LockKeeps, SyncKeeps, TransactionFailsKeeps, RefusedKeeps, RepairedKeeps,
       AppendKeeps,
       PublishesKeeps, ProcessDiesKeeps, InitializeKeeps, RefreshKeeps
  <1>2. CASE ApplyCommit
    BY <1>2, AgreedKeeps, CommitKeeps
  <1>3. CASE ApplyFiles \/ ApplyFails \/ Disconnect \/ HolderDies
    BY <1>3, ApplyFilesKeeps, ApplyFailsKeeps, DisconnectKeeps, HolderDiesKeeps
  <1> QED BY <1>1, <1>2, <1>3, StutterKeeps DEF Next

(* The log grows by the patch the lock holder commits, and not otherwise. *)
LEMMA NextIsCommit ==
    ASSUME OneClaimer, IInv, [Next]_vars
    PROVE  [\E r \in Revisions : Commit(r)]_log
  <1>1. CASE ApplyCommit
    <2>1. CASE log[target] # NoPatch
      BY <1>1, <2>1, AgreedKeeps
    <2>2. CASE log[target] = NoPatch
      <3>1. PICK p : p = stage[target].patch
        OBVIOUS
      <3>2. /\ target \in Revisions /\ p \in Patches /\ target = LastRevision(log) + 1 /\ Admits(log, p)
            /\ log' = [log EXCEPT ![target] = p]
        BY <1>1, <2>2, <3>1, CommitFacts
      <3>3. log'[target] = p
        BY <3>2 DEF IInv, TypeOK, Logs
      <3>4. Commit(target)
        BY <3>2, <3>3 DEF Commit
      <3> QED BY <3>2, <3>4
    <2> QED BY <2>1, <2>2
  <1>2. CASE ~ApplyCommit
    <2>1. log' = log
      BY <1>2 DEF Next, vars, remoteVars, Begin, _remote_advisory_lock, _sync_remote_tree,
                  TransactionFails,
         Refused, _repair_materializations_locked, _append_locked, Publishes, StagePatch, StagingFails,
         PublicationRefused, _run_owned_command, Answered, LeaveTransaction, CommandLost,
         ProbeOutsideLock,
         ProbeUnderLock, ProbeGivenUp, ProcessDies, initialize, refresh_if_stale, ApplyFiles,
         ApplyFails,
         Disconnect, HolderDies
    <2> QED BY <2>1
  <1> QED BY <1>1, <1>2

LEMMA Invariance ==
    ASSUME OneClaimer
    PROVE  Spec => []IInv
  <1>1. Init => IInv
    BY InitHolds
  <1>2. IInv /\ [Next]_vars => IInv'
    BY NextKeeps
  <1> QED BY <1>1, <1>2, PTL DEF Spec

(***************************************************************************)
(* Whatever channels, holders and processes fail, a patch append returned  *)
(* is in the canonical history, and one it reported absent never gets      *)
(* there, as long as one space at most adopts an unclaimed project.        *)
(***************************************************************************)
THEOREM AppendReportsTheTruth ==
    ASSUME OneClaimer
    PROVE  Spec => []ReportsAreTrue
  <1>1. IInv => ReportsAreTrue
    BY DEF IInv
  <1> QED BY <1>1, Invariance, PTL

(***************************************************************************)
(* A mirror at rest replays committed patches only, and derived files left *)
(* behind the log are owed by some server while no process has died.       *)
(***************************************************************************)
THEOREM MirrorsAreKept ==
    ASSUME OneClaimer
    PROVE  Spec => []MirrorsAreSound
  <1>1. IInv => MirrorsAreSound
    <2> SUFFICES ASSUME IInv PROVE MirrorsAreSound
      OBVIOUS
    <2>1. TypeOK
      BY DEF IInv
    <2>2. MirrorIsCommitted
      BY DEF IInv, SpaceInv, MirrorIsCommitted, Publishing, Awaiting
    <2>3. RepairIsRemembered
      BY DEF IInv, RepairInv, Owes, RepairIsRemembered, Awaiting
    <2> QED BY <2>1, <2>2, <2>3 DEF MirrorsAreSound
  <1> QED BY <1>1, Invariance, PTL

(***************************************************************************)
(* The servers, their mirrors, the lock and its holders implement the      *)
(* canonical log: it grows by the next revision only, with a patch that    *)
(* was admitted against exactly the history it follows.                    *)
(***************************************************************************)
THEOREM HistoryIsCanonical ==
    ASSUME OneClaimer
    PROVE  Spec => LogSpec
  <1>1. Init => LogInit
    BY DEF Init
  <1>2. IInv /\ [Next]_vars => [\E r \in Revisions : Commit(r)]_log
    BY NextIsCommit
  <1> QED BY <1>1, <1>2, Invariance, PTL DEF Spec, LogSpec

-----------------------------------------------------------------------------
(* The branch and its merges. *)

(* Tasks past the look at the branch, and those that carry a candidate. *)
Merging == {"turn", "refreshing", "preparing", "appending"}
Located == Merging \cup {"receipt", "reported"}
Steps == Located \cup {"none", "admitting", "opening", "starting"}
Statuses == {"none", "running", "refused", "succeeded", "failed", "paused", "interrupted"}
Tasks == [status : Statuses, pc : Steps, head : Heads, rev : Nat, cand : Candidates,
          session : BOOLEAN, rebases : 0..MaxRebases, corrections : 0..MaxCorrections,
          receipt : Receipts]

-----------------------------------------------------------------------------
(* The histories. *)

HistType ==
    /\ main \in Seq([graph : Graphs, merge : Heads \cup {NoMerge}]) /\ Tip >= 1
    /\ branch \in Seq(Graphs) /\ BranchTip <= MaxWrites + 1
    /\ receipts \in [Heads -> Receipts]

(* Two patches of main never merge one head. *)
MergeUnique ==
    \A r, q \in 1..Tip : main[r].merge = main[q].merge /\ main[r].merge # NoMerge => r = q

(* Only what the branch has reached is merged or has a receipt. *)
HeadsReached ==
    /\ \A r \in 1..Tip : main[r].merge <= BranchTip
    /\ \A h \in Heads : receipts[h] # NoReceipt => h <= BranchTip

(* What a receipt says of a head is so. *)
Vouches(h, x) ==
    /\ x.outcome = "committed" => MergedAt(h) = x.revision
    /\ x.outcome = "no_change" =>
         /\ MergedAt(h) = 0
         /\ x.revision \in 1..Tip
         /\ Carries(main[x.revision].graph, h, Mandatory(h, x.revision))

ReceiptInv == \A h \in Heads : receipts[h] # NoReceipt => Vouches(h, receipts[h])

HistInv == HistType /\ MergeUnique /\ HeadsReached /\ ReceiptInv /\ MergeKeepsBothSides

(* How the merge of each head stands, and the steps that may change it. *)
Standing == [h \in Heads |->
    LET x == _read_branch_snapshot(h) IN
    [outcome |-> IF x = NoReceipt THEN "open" ELSE x.outcome, revision |-> x.revision]]
Undecided == [outcome |-> "open", revision |-> 0]
Decides ==
    \/ Standing' = Standing
    \/ \E h \in Heads :
         /\ Standing[h] = Undecided
         /\ Standing'[h] \in [outcome : {"committed", "no_change"}, revision : MainRevisions]
         /\ Standing' = [Standing EXCEPT ![h] = Standing'[h]]

-----------------------------------------------------------------------------
(* Publications: what one may write if it lands where the histories are now. *)

FitsMain(x) ==
    \E g \in Graphs, h \in 1..BranchTip :
        /\ x = Patch(g, h)
        /\ MergedAt(h) = 0 /\ receipts[h] = NoReceipt
        /\ Carries(g, h, Mandatory(h, Tip))
        /\ \A f \in Fields \ build_semantic_delta(h) : g[f] = main[Tip].graph[f]
FitsBranch(x) == branch # <<>> /\ \E g \in Graphs : x = BranchPatch(g)
FitsReceipt(x) ==
    \E h \in 1..BranchTip, y \in Receipts \ {NoReceipt} :
        x = Receipt(h, y) /\ receipts[h] = NoReceipt /\ Vouches(h, y)
FitsCreate(x) == x = BranchFile /\ branch = <<>> /\ base \in 1..Tip

FitsIn(x) == FitsMain(x) \/ FitsBranch(x) \/ FitsReceipt(x) \/ FitsCreate(x)

LateInv == late = NoPublication \/ FitsIn(late)

(* The branch has room for every write that is begun, on its way or still allowed. *)
Size == IF branch = <<>> THEN 1 ELSE BranchTip
Room ==
    Size + left["writes"]
      + (IF writer = "working" THEN 1 ELSE 0) + (IF late.what = "branch" THEN 1 ELSE 0)
      <= MaxWrites + 1

EpisodeInv ==
    /\ base \in 0..Tip
    /\ phase \in {"none", "reserved", "running", "failed", "ended"} /\ (phase # "none" => base >= 1)
    /\ phase \in {"running", "ended"} => branch # <<>>
    /\ writer \in {"none", "working", "wrote"}
    /\ writer # "none" => phase \in {"running", "ended"}
    /\ left \in [Events -> Nat] /\ Room

-----------------------------------------------------------------------------
(* A merge task: its head is one of the branch, the main it looked at one main had, a
   candidate that was accepted fits that main, and what it is about to put on record holds. *)
TaskInv(t) ==
    /\ t \in Tasks
    /\ t.pc # "none" => BranchTip >= 1 /\ t.status # "succeeded"
    /\ t.pc \in Located => t.head \in 1..BranchTip
    /\ t.pc \in Merging => t.rev \in 1..Tip
    /\ t.pc = "appending" => validate_branch_merge_candidate_conformance(t.head, t.rev, t.cand.ops)
    /\ t.pc = "receipt" =>
         /\ t.receipt # NoReceipt
         /\ t.receipt.outcome = "no_change" =>
              /\ t.receipt.revision \in 1..Tip
              /\ Carries(main[t.receipt.revision].graph, t.head, Mandatory(t.head, t.receipt.revision))
    /\ t.pc = "reported" \/ t.status = "succeeded" => receipts[t.head] # NoReceipt

RunInv == run \in [Merges -> Tasks] /\ \A m \in Merges : TaskInv(run[m])

MergeInv == HistInv /\ LateInv /\ EpisodeInv /\ RunInv

-----------------------------------------------------------------------------
(* What the proofs use of the constants. *)
LEMMA Constants ==
    /\ Values \subseteq Nat /\ 0 \in Values /\ AgentValues \subseteq Values
    /\ MaxMerges \in Nat /\ MaxRebases \in Nat /\ MaxCorrections \in Nat /\ MaxWrites \in Nat
    /\ Budgets \subseteq [Events -> Nat] /\ \A b \in Budgets : b["writes"] <= MaxWrites
  BY MergeAssumption

LEMMA MainType ==
    ASSUME HistType, NEW r \in 1..Tip
    PROVE  main[r].graph \in Graphs /\ main[r].merge \in Heads \cup {NoMerge}
  <1> DEFINE S == [graph : Graphs, merge : Heads \cup {NoMerge}]
  <1>1. main \in Seq(S) /\ r \in 1..Len(main)
    BY DEF HistType, Tip
  <1>2. main[r] \in S
    <2> HIDE DEF S
    <2> QED BY <1>1
  <1> QED BY <1>2

(* MergedAt of any sequence of patches, so that it can be said of main and of main'. *)
MergedIn(s, h) ==
    LET rs == {r \in 1..Len(s) : s[r].merge = h} IN IF rs = {} THEN 0 ELSE CHOOSE r \in rs : TRUE

LEMMA MergedInFound ==
    ASSUME NEW s, Len(s) \in Nat, NEW h
    PROVE  /\ MergedIn(s, h) \in 0..Len(s)
           /\ MergedIn(s, h) = 0 <=> \A r \in 1..Len(s) : s[r].merge # h
           /\ MergedIn(s, h) # 0 => s[MergedIn(s, h)].merge = h
  <1> DEFINE rs == {r \in 1..Len(s) : s[r].merge = h}
  <1>1. CASE rs = {}
    BY <1>1 DEF MergedIn
  <1>2. CASE rs # {}
    <2>1. (CHOOSE r \in rs : TRUE) \in rs
      BY <1>2
    <2>2. MergedIn(s, h) = CHOOSE r \in rs : TRUE
      BY <1>2 DEF MergedIn
    <2> QED BY <2>1, <2>2
  <1> QED BY <1>1, <1>2

LEMMA MergedAtIn ==
    ASSUME NEW h
    PROVE  MergedAt(h) = MergedIn(main, h) /\ MergedAt(h)' = MergedIn(main', h)
  BY DEF MergedAt, MergedIn, Tip

(* What MergedAt finds. *)
LEMMA MergedAtFound ==
    ASSUME HistType, NEW h
    PROVE  /\ MergedAt(h) \in 0..Tip
           /\ MergedAt(h) = 0 <=> \A r \in 1..Tip : main[r].merge # h
           /\ MergedAt(h) # 0 => main[MergedAt(h)].merge = h
  <1>1. Len(main) \in Nat
    BY DEF HistType
  <1> QED BY <1>1, MergedInFound, MergedAtIn DEF Tip

(* It finds the one patch that merged a head. *)
LEMMA MergedAtOnly ==
    ASSUME HistType, MergeUnique, NEW h, h # NoMerge, NEW r \in 1..Tip, main[r].merge = h
    PROVE  MergedAt(h) = r
  <1>1. MergedAt(h) \in 1..Tip /\ main[MergedAt(h)].merge = h
    BY MergedAtFound DEF HistType, Tip
  <1> QED BY <1>1 DEF MergeUnique

-----------------------------------------------------------------------------
(* Histories only grow. *)

Grows ==
    /\ Tip <= Tip' /\ \A r \in 1..Tip : main'[r] = main[r]
    /\ BranchTip <= BranchTip' /\ \A h \in 1..BranchTip : branch'[h] = branch[h]
    /\ \A h \in Heads : receipts[h] # NoReceipt => receipts'[h] = receipts[h]

(* What a head changes, and what main must take of it, stays the same. *)
LEMMA DeltaStable ==
    ASSUME HistType, Grows, NEW h \in 1..BranchTip
    PROVE  /\ branch'[h] = branch[h] /\ branch'[1] = branch[1]
           /\ build_semantic_delta(h)' = build_semantic_delta(h)
           /\ \A r \in 1..Tip : Mandatory(h, r)' = Mandatory(h, r)
  <1>1. branch'[h] = branch[h] /\ branch'[1] = branch[1]
    BY DEF Grows, HistType, BranchTip
  <1>2. build_semantic_delta(h)' = build_semantic_delta(h)
    BY <1>1 DEF build_semantic_delta
  <1>3. ASSUME NEW r \in 1..Tip PROVE Mandatory(h, r)' = Mandatory(h, r)
    <2>1. main'[r] = main[r]
      BY DEF Grows
    <2> QED BY <1>1, <1>2, <2>1 DEF Mandatory, detect_branch_merge_conflicts
  <1> QED BY <1>1, <1>2, <1>3

(* So does what was true of a main that carries a head. *)
LEMMA CarriesStable ==
    ASSUME HistType, Grows, NEW h \in 1..BranchTip, NEW r \in 1..Tip,
           Carries(main[r].graph, h, Mandatory(h, r))
    PROVE  Carries(main[r].graph, h, Mandatory(h, r))'
  <1>1. main'[r] = main[r]
    BY DEF Grows
  <1> QED BY <1>1, DeltaStable DEF Carries

(* A head that main has merged stays merged where it was. *)
LEMMA MergedStable ==
    ASSUME HistType, HistType', MergeUnique', Grows, NEW h, h # NoMerge,
           \A r \in (Tip + 1)..Tip' : main'[r].merge = h => MergedAt(h) # 0
    PROVE  MergedAt(h)' = MergedAt(h)
  <1>1. /\ Tip \in Nat /\ Tip' \in Nat /\ Tip <= Tip' /\ Tip' = Len(main')
        /\ \A r \in 1..Tip : main'[r] = main[r]
    BY DEF HistType, Tip, Grows
  <1>2. /\ MergedAt(h)' \in 0..Tip'
        /\ MergedAt(h)' = 0 <=> \A r \in 1..Tip' : main'[r].merge # h
        /\ MergedAt(h)' # 0 => main'[MergedAt(h)'].merge = h
    BY <1>1, MergedInFound, MergedAtIn
  <1>3. CASE MergedAt(h) = 0
    BY <1>1, <1>2, <1>3, MergedAtFound
  <1>4. CASE MergedAt(h) # 0
    <2>1. MergedAt(h) \in 1..Tip /\ main'[MergedAt(h)].merge = h
      BY <1>1, <1>4, MergedAtFound
    <2>2. MergedAt(h)' \in 1..Tip' /\ main'[MergedAt(h)'].merge = h
      BY <1>1, <1>2, <2>1
    <2> QED BY <1>1, <2>1, <2>2 DEF MergeUnique
  <1> QED BY <1>3, <1>4

(* A receipt that was true stays true. *)
LEMMA VouchesStable ==
    ASSUME HistType, Grows, NEW h \in 1..BranchTip, NEW x, Vouches(h, x), MergedAt(h)' = MergedAt(h)
    PROVE  Vouches(h, x)'
  <1>1. Tip \in Nat /\ Tip' \in Nat /\ Tip <= Tip'
    BY DEF HistType, Tip, Grows
  <1>2. ASSUME x.outcome = "no_change"
        PROVE  (MergedAt(h) = 0 /\ x.revision \in 1..Tip)'
               /\ Carries(main[x.revision].graph, h, Mandatory(h, x.revision))'
    <2>1. /\ MergedAt(h) = 0 /\ x.revision \in 1..Tip
          /\ Carries(main[x.revision].graph, h, Mandatory(h, x.revision))
      BY <1>2 DEF Vouches
    <2>2. Carries(main[x.revision].graph, h, Mandatory(h, x.revision))'
      BY <2>1, CarriesStable
    <2> QED BY <1>1, <2>1, <2>2
  <1> QED BY <1>2 DEF Vouches

(* What MergeKeepsBothSides asks of one patch. *)
KeepsBoth(r, h) ==
    /\ Carries(main[r].graph, h, Mandatory(h, r - 1))
    /\ \A f \in Fields \ build_semantic_delta(h) : main[r].graph[f] = main[r - 1].graph[f]

LEMMA KeepsStable ==
    ASSUME HistType, Grows, NEW h \in 1..BranchTip, NEW r \in 2..Tip, KeepsBoth(r, h)
    PROVE  KeepsBoth(r, h)'
  <1>1. main'[r] = main[r] /\ main'[r - 1] = main[r - 1] /\ r - 1 \in 1..Tip
    BY DEF Grows, HistType, Tip
  <1>2. /\ branch'[h] = branch[h]
        /\ build_semantic_delta(h)' = build_semantic_delta(h)
        /\ Mandatory(h, r - 1)' = Mandatory(h, r - 1)
    BY <1>1, DeltaStable
  <1> QED BY <1>1, <1>2 DEF KeepsBoth, Carries

LEMMA AllKeepBoth ==
    /\ MergeKeepsBothSides <=>
         \A r \in 2..Tip : main[r].merge # NoMerge => KeepsBoth(r, main[r].merge)
    /\ (\A r \in 2..Tip' : \A h : main'[r].merge = h /\ h # NoMerge => KeepsBoth(r, h)')
         => MergeKeepsBothSides'
  BY DEF MergeKeepsBothSides, KeepsBoth, Carries

(* What is so of a task stays so. *)
LEMMA TaskStable ==
    ASSUME HistType, HistType', Grows, NEW t, TaskInv(t)
    PROVE  TaskInv(t)'
  <1>1. /\ t \in Tasks
        /\ Tip \in Nat /\ Tip' \in Nat /\ Tip <= Tip'
        /\ BranchTip \in Nat /\ BranchTip' \in Nat /\ BranchTip <= BranchTip'
    BY DEF TaskInv, HistType, Tip, BranchTip, Grows
  <1>2. /\ t.pc # "none" => BranchTip' >= 1 /\ t.status # "succeeded"
        /\ t.pc \in Located => t.head \in 1..BranchTip'
        /\ t.pc \in Merging => t.rev \in 1..Tip'
    BY <1>1 DEF TaskInv
  <1>3. t.pc = "appending" => validate_branch_merge_candidate_conformance(t.head, t.rev, t.cand.ops)'
    <2> SUFFICES ASSUME t.pc = "appending"
        PROVE  validate_branch_merge_candidate_conformance(t.head, t.rev, t.cand.ops)'
      OBVIOUS
    <2>1. t.head \in 1..BranchTip /\ t.rev \in 1..Tip
          /\ validate_branch_merge_candidate_conformance(t.head, t.rev, t.cand.ops)
      BY DEF TaskInv, Located, Merging
    <2>2. main'[t.rev] = main[t.rev]
      BY <2>1 DEF Grows
    <2>3. /\ branch'[t.head] = branch[t.head]
          /\ build_semantic_delta(t.head)' = build_semantic_delta(t.head)
          /\ Mandatory(t.head, t.rev)' = Mandatory(t.head, t.rev)
      BY <2>1, DeltaStable
    <2> QED BY <2>1, <2>2, <2>3 DEF validate_branch_merge_candidate_conformance, Carries, Result
  <1>4. t.pc = "receipt" =>
           /\ t.receipt # NoReceipt
           /\ t.receipt.outcome = "no_change" =>
                /\ t.receipt.revision \in 1..Tip'
                /\ Carries(main[t.receipt.revision].graph, t.head, Mandatory(t.head, t.receipt.revision))'
    <2> SUFFICES ASSUME t.pc = "receipt", t.receipt.outcome = "no_change"
        PROVE  /\ t.receipt.revision \in 1..Tip'
               /\ Carries(main[t.receipt.revision].graph, t.head, Mandatory(t.head, t.receipt.revision))'
      BY DEF TaskInv
    <2>1. /\ t.head \in 1..BranchTip /\ t.receipt.revision \in 1..Tip
          /\ Carries(main[t.receipt.revision].graph, t.head, Mandatory(t.head, t.receipt.revision))
      BY DEF TaskInv, Located
    <2> QED BY <1>1, <2>1, CarriesStable
  <1>5. t.pc = "reported" \/ t.status = "succeeded" => receipts'[t.head] # NoReceipt
    BY <1>1 DEF TaskInv, Grows, Tasks
  <1> QED BY <1>1, <1>2, <1>3, <1>4, <1>5 DEF TaskInv

-----------------------------------------------------------------------------
(* What one more record does to the histories. *)

(* A patch of main: an edit, or a merge that fits. *)
LEMMA MainGrows ==
    ASSUME HistInv, NEW g \in Graphs, NEW k \in Heads \cup {NoMerge},
           Tip' = Tip + 1, main'[Tip'].graph = g, main'[Tip'].merge = k,
           \A r \in 1..Tip : main'[r] = main[r], HistType',
           branch' = branch, receipts' = receipts,
           k # NoMerge => /\ k <= BranchTip /\ MergedAt(k) = 0 /\ receipts[k] = NoReceipt
                          /\ Carries(g, k, Mandatory(k, Tip))
                          /\ \A f \in Fields \ build_semantic_delta(k) : g[f] = main[Tip].graph[f]
    PROVE  HistInv' /\ Grows
  <1>1. HistType /\ Tip \in Nat /\ Tip >= 1 /\ BranchTip \in Nat /\ MaxWrites \in Nat
    BY Constants DEF HistInv, HistType, Tip, BranchTip
  <1>2. BranchTip' = BranchTip /\ \A r \in 1..Tip' : r \in 1..Tip \/ r = Tip'
    BY <1>1 DEF BranchTip
  <1>3. Grows
    BY <1>1, <1>2 DEF Grows
  <1>4. MergeUnique'
    <2>1. k # NoMerge => \A r \in 1..Tip : main[r].merge # k
      BY <1>1, MergedAtFound
    <2> QED BY <1>1, <1>2, <2>1 DEF HistInv, MergeUnique
  <1>5. HeadsReached'
    <2>1. k <= BranchTip
      BY <1>1 DEF NoMerge
    <2> QED BY <1>1, <1>2, <2>1 DEF HistInv, HeadsReached
  <1>6. ReceiptInv'
    <2> SUFFICES ASSUME NEW h \in Heads, receipts[h] # NoReceipt
        PROVE  Vouches(h, receipts[h])'
      BY DEF ReceiptInv
    <2>1. h \in 1..BranchTip /\ Vouches(h, receipts[h]) /\ h # NoMerge
      BY <1>1 DEF HistInv, HeadsReached, ReceiptInv, Heads, NoMerge
    <2>2. \A r \in (Tip + 1)..Tip' : main'[r].merge # h
      BY <1>1, <2>1
    <2>3. MergedAt(h)' = MergedAt(h)
      BY <1>1, <1>3, <1>4, <2>1, <2>2, MergedStable
    <2>4. \A x : Vouches(h, x) => Vouches(h, x)'
      BY <1>1, <1>3, <2>1, <2>3, VouchesStable
    <2> QED BY <2>1, <2>4
  <1>7. MergeKeepsBothSides'
    <2> SUFFICES ASSUME NEW r \in 2..Tip', NEW h, h = main'[r].merge, h # NoMerge
        PROVE  KeepsBoth(r, h)'
      BY AllKeepBoth
    <2>1. CASE r \in 2..Tip
      <3>1. r \in 1..Tip /\ main[r].merge \in Heads \cup {NoMerge} /\ h = main[r].merge
        BY <1>1, <2>1, MainType
      <3>2. h \in 1..BranchTip /\ KeepsBoth(r, h)
        BY <1>1, <2>1, <3>1, AllKeepBoth DEF HistInv, HeadsReached, Heads
      <3> QED BY <1>1, <1>3, <2>1, <3>2, KeepsStable
    <2>2. CASE r = Tip + 1
      <3>1. h = k /\ k \in 1..BranchTip /\ r - 1 = Tip /\ Tip \in 1..Tip
        BY <1>1, <1>2, <2>2 DEF Heads
      <3>2. /\ branch'[h] = branch[h]
            /\ build_semantic_delta(h)' = build_semantic_delta(h)
            /\ Mandatory(h, r - 1)' = Mandatory(h, r - 1)
        BY <1>1, <1>3, <3>1, DeltaStable
      <3>3. main'[r].graph = g /\ main'[r - 1] = main[Tip]
        BY <1>1, <1>2, <2>2
      <3> QED BY <3>1, <3>2, <3>3 DEF KeepsBoth, Carries
    <2> QED BY <1>1, <1>2, <2>1, <2>2
  <1> QED BY <1>3, <1>4, <1>5, <1>6, <1>7 DEF HistInv

(* A patch of the branch, its base, or a receipt. *)
LEMMA SidesGrow ==
    ASSUME HistInv, HistType', main' = main, BranchTip <= BranchTip',
           \A h \in 1..BranchTip : branch'[h] = branch[h],
           \A h \in Heads : receipts[h] # NoReceipt => receipts'[h] = receipts[h],
           \A h \in Heads : receipts'[h] # NoReceipt /\ receipts[h] = NoReceipt =>
               h <= BranchTip /\ Vouches(h, receipts'[h])
    PROVE  HistInv' /\ Grows
  <1>1. /\ HistType /\ Tip \in Nat /\ Tip >= 1 /\ BranchTip \in Nat /\ BranchTip' \in Nat
        /\ MaxWrites \in Nat /\ Tip' = Tip
    BY Constants DEF HistInv, HistType, Tip, BranchTip
  <1>2. Grows
    BY <1>1 DEF Grows
  <1>3. MergeUnique'
    BY <1>1 DEF HistInv, MergeUnique
  <1>4. HeadsReached'
    <2>1. \A r \in 1..Tip : main[r].merge \in Nat
      BY <1>1, MainType DEF Heads, NoMerge
    <2> QED BY <1>1, <2>1 DEF HistInv, HeadsReached, Heads
  <1>5. ReceiptInv'
    <2> SUFFICES ASSUME NEW h \in Heads, receipts'[h] # NoReceipt
        PROVE  Vouches(h, receipts[h])'
      BY DEF ReceiptInv
    <2>1. h \in 1..BranchTip /\ Vouches(h, receipts'[h])
      BY <1>1 DEF HistInv, HeadsReached, ReceiptInv, Heads
    <2>2. MergedAt(h)' = MergedAt(h)
      BY MergedAtIn
    <2>3. \A x : Vouches(h, x) => Vouches(h, x)'
      BY <1>1, <1>2, <2>1, <2>2, VouchesStable
    <2> QED BY <2>1, <2>3
  <1>6. MergeKeepsBothSides'
    <2> SUFFICES ASSUME NEW r \in 2..Tip', NEW h, h = main'[r].merge, h # NoMerge
        PROVE  KeepsBoth(r, h)'
      BY AllKeepBoth
    <2>1. r \in 1..Tip /\ main[r].merge \in Heads \cup {NoMerge} /\ h = main[r].merge
      BY <1>1, MainType
    <2>2. h \in 1..BranchTip /\ KeepsBoth(r, h)
      BY <1>1, <2>1, AllKeepBoth DEF HistInv, HeadsReached, Heads
    <2> QED BY <1>1, <1>2, <2>1, <2>2, KeepsStable
  <1> QED BY <1>2, <1>3, <1>4, <1>5, <1>6 DEF HistInv

(* One more patch of main, as the code appends it. *)
LEMMA MainAppend ==
    ASSUME HistType, NEW g \in Graphs, NEW k \in Heads \cup {NoMerge},
           main' = Append(main, [graph |-> g, merge |-> k]), branch' = branch, receipts' = receipts
    PROVE  /\ Tip' = Tip + 1 /\ main'[Tip'].graph = g /\ main'[Tip'].merge = k
           /\ \A r \in 1..Tip : main'[r] = main[r]
           /\ HistType'
  <1> DEFINE S == [graph : Graphs, merge : Heads \cup {NoMerge}]
  <1> DEFINE p == [graph |-> g, merge |-> k]
  <1>1. main \in Seq(S) /\ p \in S /\ main' = Append(main, p) /\ p.graph = g /\ p.merge = k
    BY DEF HistType
  <1>2. /\ main' \in Seq(S) /\ Len(main') = Len(main) + 1 /\ main'[Len(main')] = p
        /\ \A r \in 1..Len(main) : main'[r] = main[r] /\ Len(main) \in Nat
    <2> HIDE DEF S, p
    <2> QED BY <1>1
  <1>3. BranchTip' = BranchTip
    BY DEF BranchTip
  <1> QED BY <1>1, <1>2, <1>3 DEF Tip, HistType

(* One more patch of the branch. *)
LEMMA BranchAppend ==
    ASSUME HistType, NEW g \in Graphs, branch' = Append(branch, g),
           main' = main, receipts' = receipts, BranchTip <= MaxWrites
    PROVE  /\ BranchTip' = BranchTip + 1 /\ \A h \in 1..BranchTip : branch'[h] = branch[h]
           /\ HistType'
  <1>1. /\ branch' \in Seq(Graphs) /\ Len(branch') = Len(branch) + 1
        /\ \A r \in 1..Len(branch) : branch'[r] = branch[r] /\ Len(branch) \in Nat
    BY DEF HistType
  <1>2. Tip' = Tip
    BY DEF Tip
  <1> QED BY <1>1, <1>2, Constants DEF BranchTip, HistType

(* How a head stands. *)
LEMMA StandingAt ==
    ASSUME HistType, NEW h \in Heads
    PROVE  /\ MergedAt(h) # 0 => Standing[h] = [outcome |-> "committed", revision |-> MergedAt(h)]
           /\ MergedAt(h) = 0 /\ receipts[h] = NoReceipt => Standing[h] = Undecided
           /\ MergedAt(h) = 0 /\ receipts[h] # NoReceipt =>
                Standing[h] = [outcome |-> receipts[h].outcome, revision |-> receipts[h].revision]
  BY DEF Standing, _read_branch_snapshot, Committed, NoReceipt, Undecided

LEMMA StandingAtNext ==
    ASSUME HistType', NEW h \in Heads
    PROVE  /\ MergedAt(h)' # 0 => Standing'[h] = [outcome |-> "committed", revision |-> MergedAt(h)']
           /\ MergedAt(h)' = 0 /\ receipts'[h] = NoReceipt => Standing'[h] = Undecided
           /\ MergedAt(h)' = 0 /\ receipts'[h] # NoReceipt =>
                Standing'[h] = [outcome |-> receipts'[h].outcome, revision |-> receipts'[h].revision]
  BY DEF Standing, _read_branch_snapshot, Committed, NoReceipt, Undecided

LEMMA StandingSame ==
    ASSUME HistType, main' = main, receipts' = receipts
    PROVE  Decides
  <1>1. Tip' = Tip
    BY DEF Tip
  <1>2. \A h : MergedAt(h)' = MergedAt(h)
    BY <1>1 DEF MergedAt
  <1> QED BY <1>2 DEF Decides, Standing, _read_branch_snapshot

(* One head may change if it was open and is decided. *)
LEMMA OneDecides ==
    ASSUME NEW k, \A h \in Heads : h # k => Standing'[h] = Standing[h],
           k \in Heads => Standing[k] = Undecided
               /\ Standing'[k] \in [outcome : {"committed", "no_change"}, revision : MainRevisions]
    PROVE  Decides
  <1>1. Standing = [h \in Heads |-> Standing[h]] /\ Standing' = [h \in Heads |-> Standing'[h]]
    BY DEF Standing
  <1>2. CASE k \in Heads
    <2>1. Standing' = [Standing EXCEPT ![k] = Standing'[k]]
      BY <1>1, <1>2
    <2> QED BY <1>2, <2>1 DEF Decides
  <1>3. CASE k \notin Heads
    <2>1. \A h \in Heads : Standing'[h] = Standing[h]
      BY <1>3
    <2>2. Standing' = Standing
      BY <1>1, <2>1
    <2> QED BY <2>2 DEF Decides
  <1> QED BY <1>2, <1>3

LEMMA MainDecides ==
    ASSUME HistInv, HistInv', Grows, receipts' = receipts, NEW k \in Heads \cup {NoMerge},
           Tip' = Tip + 1, main'[Tip'].merge = k,
           k # NoMerge => MergedAt(k) = 0 /\ receipts[k] = NoReceipt
    PROVE  Decides
  <1>1. /\ HistType /\ HistType' /\ MergeUnique' /\ Tip \in Nat /\ MaxWrites \in Nat
        /\ \A h \in Heads : h # NoMerge
    BY Constants DEF HistInv, HistType, Tip, Heads, NoMerge
  <1>2. ASSUME NEW h \in Heads, h # k
        PROVE  Standing'[h] = Standing[h]
    <2>1. \A r \in (Tip + 1)..Tip' : main'[r].merge # h
      BY <1>1, <1>2
    <2>2. MergedAt(h)' = MergedAt(h)
      BY <1>1, <2>1, MergedStable
    <2> QED BY <1>1, <2>2, StandingAt, StandingAtNext
  <1>3. ASSUME k \in Heads
        PROVE  /\ Standing[k] = Undecided
               /\ Standing'[k] \in [outcome : {"committed", "no_change"}, revision : MainRevisions]
    <2>1. Standing[k] = Undecided
      BY <1>1, <1>3, StandingAt
    <2>2. Len(main') \in Nat /\ Tip' = Len(main')
      BY <1>1 DEF HistType, Tip
    <2>3. MergedAt(k)' \in 1..Tip'
      <3>1. Tip' \in 1..Len(main') /\ main'[Tip'].merge = k
        BY <1>1, <2>2
      <3>2. MergedIn(main', k) # 0 /\ MergedIn(main', k) \in 0..Len(main')
        BY <2>2, <3>1, MergedInFound
      <3> QED BY <2>2, <3>2, MergedAtIn
    <2>4. MergedAt(k)' \in MainRevisions /\ MergedAt(k)' # 0
      BY <2>2, <2>3 DEF MainRevisions
    <2>5. Standing'[k] = [outcome |-> "committed", revision |-> MergedAt(k)']
      BY <1>1, <1>3, <2>4, StandingAtNext
    <2> QED BY <2>1, <2>4, <2>5
  <1> QED BY <1>2, <1>3, OneDecides

LEMMA ReceiptDecides ==
    ASSUME HistInv, HistType', main' = main, NEW k \in Heads, NEW y \in Receipts \ {NoReceipt},
           receipts[k] = NoReceipt, Vouches(k, y), receipts' = [receipts EXCEPT ![k] = y]
    PROVE  Decides
  <1>1. HistType /\ \A h : MergedAt(h)' = MergedAt(h)
    BY MergedAtIn DEF HistInv
  <1>2. \A h \in Heads : receipts'[h] = IF h = k THEN y ELSE receipts[h]
    BY <1>1 DEF HistType
  <1>3. ASSUME NEW h \in Heads, h # k PROVE Standing'[h] = Standing[h]
    <2>1. receipts'[h] = receipts[h] /\ MergedAt(h)' = MergedAt(h)
      BY <1>1, <1>2, <1>3
    <2>2. CASE MergedAt(h) # 0
      BY <1>1, <2>1, <2>2, StandingAt, StandingAtNext
    <2>3. CASE MergedAt(h) = 0 /\ receipts[h] = NoReceipt
      BY <1>1, <2>1, <2>3, StandingAt, StandingAtNext
    <2>4. CASE MergedAt(h) = 0 /\ receipts[h] # NoReceipt
      <3>1. Standing[h] = [outcome |-> receipts[h].outcome, revision |-> receipts[h].revision]
        BY <1>1, <2>4, StandingAt
      <3>2. Standing'[h] = [outcome |-> receipts'[h].outcome, revision |-> receipts'[h].revision]
        BY <2>1, <2>4, StandingAtNext
      <3> QED BY <2>1, <3>1, <3>2, Zenon
    <2> QED BY <2>2, <2>3, <2>4
  <1>4. CASE MergedAt(k) # 0
    <2>1. Standing'[k] = Standing[k]
      BY <1>1, <1>4, StandingAt, StandingAtNext
    <2>2. \A h \in Heads : Standing'[h] = Standing[h]
      BY <1>3, <2>1
    <2>3. Standing = [h \in Heads |-> Standing[h]] /\ Standing' = [h \in Heads |-> Standing'[h]]
      BY DEF Standing
    <2>4. Standing' = Standing
      BY <2>2, <2>3
    <2> QED BY <2>4 DEF Decides
  <1>5. CASE MergedAt(k) = 0
    <2>1. Standing[k] = Undecided
      BY <1>1, <1>5, StandingAt
    <2>2. /\ y.outcome \in {"committed", "no_change"} /\ y.revision \in MainRevisions
          /\ Standing'[k] = [outcome |-> y.outcome, revision |-> y.revision]
      <3>1. receipts'[k] = y /\ y # NoReceipt /\ MergedAt(k)' = 0
        BY <1>1, <1>2, <1>5
      <3>2. Standing'[k] = [outcome |-> y.outcome, revision |-> y.revision]
        BY <3>1, StandingAtNext
      <3> QED BY <3>2 DEF Receipts
    <2>3. Standing'[k] \in [outcome : {"committed", "no_change"}, revision : MainRevisions]
      BY <2>2
    <2> QED BY <1>3, <2>1, <2>3, OneDecides
  <1> QED BY <1>4, <1>5

(* A publication that fits keeps the histories right wherever it lands. *)
LEMMA Landing ==
    ASSUME HistInv, NEW x, FitsIn(x), Lands(x),
           x.what = "branch" => BranchTip <= MaxWrites
    PROVE  /\ HistInv' /\ Grows /\ Size' = Size + (IF x.what = "branch" THEN 1 ELSE 0)
           /\ x.what = "create" => branch' # <<>>
           /\ Decides
  <1>1. /\ HistType /\ Tip \in Nat /\ Tip >= 1 /\ BranchTip \in Nat /\ BranchTip <= MaxWrites + 1
        /\ MaxWrites \in Nat
    BY Constants DEF HistInv, HistType, Tip, BranchTip
  <1>2. CASE FitsMain(x)
    <2>1. PICK g \in Graphs, h \in 1..BranchTip :
             /\ x = Patch(g, h)
             /\ MergedAt(h) = 0 /\ receipts[h] = NoReceipt
             /\ Carries(g, h, Mandatory(h, Tip))
             /\ \A f \in Fields \ build_semantic_delta(h) : g[f] = main[Tip].graph[f]
      BY <1>2 DEF FitsMain
    <2>2. x.what = "main" /\ x.graph = g /\ x.merge = h
      BY <2>1 DEF Patch
    <2>3. main' = Append(main, [graph |-> g, merge |-> h]) /\ branch' = branch /\ receipts' = receipts
      BY <2>2 DEF Lands
    <2>4. h \in Heads \cup {NoMerge} /\ h <= BranchTip
      BY <1>1 DEF Heads
    <2>5. /\ Tip' = Tip + 1 /\ main'[Tip'].graph = g /\ main'[Tip'].merge = h
          /\ \A r \in 1..Tip : main'[r] = main[r]
          /\ HistType'
      BY <1>1, <2>3, <2>4, MainAppend
    <2>6. Size' = Size /\ x.what \notin {"branch", "create"} /\ Size \in Nat
      <3>1. Size' = Size
        BY <2>3 DEF Size, BranchTip
      <3> QED BY <1>1, <2>2, <3>1 DEF Size
    <2>7. HistInv' /\ Grows
      BY <2>1, <2>3, <2>4, <2>5, MainGrows
    <2>8. Decides
      BY <2>1, <2>3, <2>4, <2>5, <2>7, MainDecides
    <2> QED BY <2>6, <2>7, <2>8
  <1>3. CASE FitsBranch(x)
    <2>1. PICK g \in Graphs : x = BranchPatch(g)
      BY <1>3 DEF FitsBranch
    <2>2. x.what = "branch" /\ x.graph = g
      BY <2>1 DEF BranchPatch
    <2>3. branch' = Append(branch, g) /\ main' = main /\ receipts' = receipts
      BY <2>2 DEF Lands
    <2>4. BranchTip' = BranchTip + 1 /\ HistType' /\ \A h \in 1..BranchTip : branch'[h] = branch[h]
      BY <1>1, <2>2, <2>3, BranchAppend
    <2>5. BranchTip <= BranchTip' /\ \A k \in Heads : receipts'[k] = receipts[k]
      BY <1>1, <2>3, <2>4
    <2>6. Size' = Size + 1 /\ x.what = "branch"
      BY <1>1, <1>3, <2>2, <2>4 DEF Size, FitsBranch, BranchTip
    <2> QED BY <1>1, <2>3, <2>4, <2>5, <2>6, SidesGrow, StandingSame
  <1>4. CASE FitsReceipt(x)
    <2>1. PICK h \in 1..BranchTip, y \in Receipts \ {NoReceipt} :
             x = Receipt(h, y) /\ receipts[h] = NoReceipt /\ Vouches(h, y)
      BY <1>4 DEF FitsReceipt
    <2>2. x.what = "receipt" /\ x.head = h /\ x.receipt = y
      BY <2>1 DEF Receipt
    <2>3. receipts' = [receipts EXCEPT ![h] = y] /\ main' = main /\ branch' = branch
      BY <2>2 DEF Lands
    <2>4. h \in Heads
      BY <1>1 DEF Heads
    <2>5. HistType' /\ BranchTip' = BranchTip
      BY <1>1, <2>3, <2>4 DEF HistType, Tip, BranchTip
    <2>6. \A k \in Heads : receipts'[k] = IF k = h THEN y ELSE receipts[k]
      BY <1>1, <2>3, <2>4 DEF HistType
    <2>7. /\ BranchTip <= BranchTip' /\ \A k \in 1..BranchTip : branch'[k] = branch[k]
          /\ \A k \in Heads : receipts[k] # NoReceipt => receipts'[k] = receipts[k]
      BY <1>1, <2>1, <2>3, <2>5, <2>6
    <2>8. \A k \in Heads : receipts'[k] # NoReceipt /\ receipts[k] = NoReceipt =>
               k <= BranchTip /\ Vouches(k, receipts'[k])
      BY <1>1, <2>1, <2>6
    <2>9. Size' = Size /\ x.what \notin {"branch", "create"} /\ Size \in Nat
      BY <1>1, <2>2, <2>3 DEF Size, BranchTip
    <2>10. Decides
      BY <2>1, <2>3, <2>4, <2>5, ReceiptDecides
    <2> QED BY <2>3, <2>5, <2>7, <2>8, <2>9, <2>10, SidesGrow
  <1>5. CASE FitsCreate(x)
    <2>1. branch = <<>> /\ base \in 1..Tip /\ x.what = "create"
      BY <1>5 DEF FitsCreate, BranchFile
    <2>2. branch' = <<main[base].graph>> /\ main' = main /\ receipts' = receipts
      BY <2>1 DEF Lands
    <2>3. main[base].graph \in Graphs
      BY <1>1, <2>1, MainType
    <2>4. BranchTip = 0 /\ BranchTip' = 1 /\ HistType'
      BY <1>1, <2>1, <2>2, <2>3 DEF HistType, Tip, BranchTip
    <2>5. Size = 1 /\ Size' = 1 /\ branch' # <<>>
      BY <2>1, <2>2, <2>4 DEF Size
    <2> QED BY <1>1, <2>1, <2>2, <2>4, <2>5, SidesGrow, StandingSame
  <1> QED BY <1>2, <1>3, <1>4, <1>5 DEF FitsIn

(* A publication still fits while nothing lands. *)
LEMMA FitsSame ==
    ASSUME UNCHANGED <<main, branch, receipts>>, base' = base \/ base' \in 1..Tip, NEW x, FitsIn(x)
    PROVE  FitsIn(x)'
  <1>1. Tip' = Tip /\ BranchTip' = BranchTip
    BY DEF Tip, BranchTip
  <1>2. /\ \A h : MergedAt(h)' = MergedAt(h)
        /\ \A h : build_semantic_delta(h)' = build_semantic_delta(h)
        /\ \A h, r : Mandatory(h, r)' = Mandatory(h, r)
    BY <1>1 DEF MergedAt, build_semantic_delta, Mandatory, detect_branch_merge_conflicts
  <1>3. CASE FitsMain(x)
    <2>1. FitsMain(x)'
      BY <1>1, <1>2, <1>3 DEF FitsMain, Carries
    <2> QED BY <2>1 DEF FitsIn
  <1>4. CASE FitsBranch(x)
    BY <1>4 DEF FitsIn, FitsBranch
  <1>5. CASE FitsReceipt(x)
    <2>1. FitsReceipt(x)'
      BY <1>1, <1>2, <1>5 DEF FitsReceipt, Vouches, Carries
    <2> QED BY <2>1 DEF FitsIn
  <1>6. CASE FitsCreate(x)
    BY <1>1, <1>6 DEF FitsIn, FitsCreate
  <1> QED BY <1>3, <1>4, <1>5, <1>6 DEF FitsIn

LEMMA HistSame ==
    ASSUME HistInv, UNCHANGED <<main, branch, receipts>>
    PROVE  /\ HistInv' /\ Grows /\ Size' = Size /\ Tip' = Tip /\ BranchTip' = BranchTip
           /\ Decides
  <1>1. HistType /\ HistType' /\ Tip' = Tip /\ BranchTip' = BranchTip
    BY DEF HistInv, HistType, Tip, BranchTip
  <1>2. BranchTip <= BranchTip' /\ \A k \in Heads : receipts'[k] = receipts[k]
    BY <1>1 DEF HistType, BranchTip
  <1> QED BY <1>1, <1>2, SidesGrow, StandingSame DEF Size

-----------------------------------------------------------------------------
(* The tasks. *)

LEMMA RunSame ==
    ASSUME HistType, HistType', Grows, RunInv, run' = run
    PROVE  RunInv'
  BY TaskStable DEF RunInv

LEMMA RunMoves ==
    ASSUME HistType, HistType', Grows, RunInv, NEW m \in Merges, NEW t, TaskInv(t)',
           run' = [run EXCEPT ![m] = t]
    PROVE  RunInv'
  <1>1. t \in Tasks
    BY DEF TaskInv
  <1>2. run' \in [Merges -> Tasks]
    BY <1>1 DEF RunInv
  <1>3. ASSUME NEW n \in Merges PROVE TaskInv(run[n])'
    <2>1. run'[n] = IF n = m THEN t ELSE run[n]
      BY DEF RunInv
    <2>2. TaskInv(run[n])
      BY DEF RunInv
    <2>3. \A u : TaskInv(u) => TaskInv(u)'
      BY TaskStable
    <2> QED BY <2>1, <2>2, <2>3
  <1> QED BY <1>2, <1>3 DEF RunInv

(* A step of one task that publishes nothing. *)
LEMMA TaskMoves ==
    ASSUME MergeInv, UNCHANGED <<history, episode, left>>, NEW m \in Merges, NEW t, TaskInv(t),
           run' = [run EXCEPT ![m] = t]
    PROVE  MergeInv' /\ Decides
  <1>1. UNCHANGED <<main, branch, receipts, late, base, phase, writer, left>>
    BY DEF history, episode
  <1>2. HistInv' /\ Grows /\ Size' = Size /\ Tip' = Tip /\ BranchTip' = BranchTip /\ Decides
    BY <1>1, HistSame DEF MergeInv
  <1>3. HistType /\ HistType'
    BY <1>2 DEF MergeInv, HistInv
  <1>4. LateInv'
    BY <1>1, FitsSame DEF MergeInv, LateInv
  <1>5. EpisodeInv'
    BY <1>1, <1>2 DEF MergeInv, EpisodeInv, Room
  <1>6. TaskInv(t)'
    BY <1>2, <1>3, TaskStable
  <1>7. RunInv'
    BY <1>2, <1>3, <1>6, RunMoves DEF MergeInv
  <1> QED BY <1>2, <1>4, <1>5, <1>7 DEF MergeInv

(* A task that has ended. *)
LEMMA EndedInv ==
    ASSUME NEW h \in Heads, NEW status \in Statuses,
           status = "succeeded" => receipts[h] # NoReceipt
    PROVE  TaskInv(Ended(status, h)) /\ TaskInv(NoRun)
  <1>1. 1 \in Heads /\ Problem \in Candidates /\ NoReceipt \in Receipts /\ 0 \in 0..MaxRebases
        /\ 0 \in 0..MaxCorrections /\ "none" \in Statuses /\ "none" \in Steps
    BY Constants DEF Heads, Candidates, Receipts, Statuses, Steps
  <1>2. NoRun \in Tasks
    BY <1>1 DEF NoRun, Tasks
  <1>3. Ended(status, h) \in Tasks
    BY <1>2 DEF Ended, Tasks
  <1>4. /\ NoRun.pc = "none" /\ NoRun.status = "none"
        /\ Ended(status, h).pc = "none" /\ Ended(status, h).status = status
        /\ Ended(status, h).head = h
    BY DEF NoRun, Ended
  <1> QED BY <1>2, <1>3, <1>4 DEF TaskInv, Located, Merging

LEMMA Basics ==
    ASSUME MergeInv
    PROVE  /\ HistInv /\ HistType /\ RunInv
           /\ Tip \in Nat /\ Tip >= 1 /\ BranchTip \in Nat /\ BranchTip <= MaxWrites + 1
           /\ MaxWrites \in Nat /\ MaxRebases \in Nat /\ MaxCorrections \in Nat
           /\ 1 \in Heads /\ \A h \in 1..BranchTip : h \in Heads
           /\ run \in [Merges -> Tasks] /\ \A m \in Merges : TaskInv(run[m])
  <1>1. HistInv /\ HistType /\ RunInv
    BY DEF MergeInv, HistInv
  <1>2. /\ Tip \in Nat /\ Tip >= 1 /\ BranchTip \in Nat /\ BranchTip <= MaxWrites + 1
        /\ MaxWrites \in Nat /\ MaxRebases \in Nat /\ MaxCorrections \in Nat
    BY <1>1, Constants DEF HistType, Tip, BranchTip
  <1> QED BY <1>1, <1>2 DEF Heads, RunInv

LEMMA EndsTask ==
    ASSUME MergeInv, UNCHANGED <<history, episode, left>>, NEW m \in Merges,
           NEW status \in Statuses \ {"succeeded"}, run' = [run EXCEPT ![m] = Ended(status, 1)]
    PROVE  MergeInv' /\ Decides
  <1>1. TaskInv(Ended(status, 1))
    BY Basics, EndedInv
  <1> QED BY <1>1, TaskMoves

LEMMA AskStep ==
    ASSUME MergeInv, NEW m \in Merges, merge_episode_branch(m)
    PROVE  MergeInv' /\ Decides
  <1>1. PICK t : t = [run[m] EXCEPT !.pc = "admitting"]
    OBVIOUS
  <1>2. run[m] \in Tasks /\ run[m].status = "none" /\ BranchTip > 1
    BY Basics DEF merge_episode_branch
  <1>3. t \in Tasks /\ t.pc = "admitting" /\ t.status = "none"
    BY <1>1, <1>2 DEF Tasks, Steps
  <1>4. TaskInv(t)
    BY <1>2, <1>3, Basics DEF TaskInv, Located, Merging
  <1>5. run' = [run EXCEPT ![m] = t] /\ UNCHANGED <<history, episode, left>>
    BY <1>1 DEF merge_episode_branch, RunGoes
  <1> QED BY <1>4, <1>5, TaskMoves

LEMMA AdmitStep ==
    ASSUME MergeInv, NEW m \in Merges, create_branch_merge_task(m)
    PROVE  MergeInv' /\ Decides
  <1>1. BranchTip >= 1 /\ UNCHANGED <<history, episode, left>>
    BY Basics DEF create_branch_merge_task, TaskInv
  <1>2. CASE run' = [run EXCEPT ![m] = Ended("refused", 1)]
    BY <1>1, <1>2, EndsTask DEF Statuses
  <1>3. CASE run' = [run EXCEPT ![m] = [NoRun EXCEPT !.status = "running", !.pc = "opening"]]
    <2>1. PICK t : t = [NoRun EXCEPT !.status = "running", !.pc = "opening"]
      OBVIOUS
    <2>2. NoRun \in Tasks
      <3>1. "none" \in Statuses /\ "none" # "succeeded"
        BY DEF Statuses
      <3>2. TaskInv(NoRun)
        BY <3>1, Basics, EndedInv
      <3> QED BY <3>2 DEF TaskInv
    <2>3. t \in Tasks /\ t.pc = "opening" /\ t.status = "running"
      BY <2>1, <2>2 DEF Tasks, Steps, Statuses
    <2>4. TaskInv(t)
      BY <1>1, <2>3 DEF TaskInv, Located, Merging
    <2> QED BY <1>1, <1>3, <2>1, <2>4, TaskMoves
  <1> QED BY <1>2, <1>3 DEF create_branch_merge_task

LEMMA OpenStep ==
    ASSUME MergeInv, NEW m \in Merges, reconcile_merge_receipt(m)
    PROVE  MergeInv' /\ Decides
  <1>1. BranchTip >= 1 /\ BranchTip \in Heads /\ run[m] \in Tasks /\ run[m].status # "succeeded"
        /\ UNCHANGED <<history, episode, left>>
    BY Basics DEF reconcile_merge_receipt, TaskInv
  <1>2. CASE Fails(m)
    BY <1>1, <1>2, EndsTask DEF Fails, Statuses
  <1>3. CASE ~Fails(m)
    <2> DEFINE x == IF receipts[BranchTip] = NoReceipt /\ MergedAt(BranchTip) # 0
                      THEN Committed(MergedAt(BranchTip)) ELSE NoReceipt
    <2> DEFINE at == IF receipts[BranchTip] # NoReceipt THEN "reported"
                     ELSE IF MergedAt(BranchTip) # 0 THEN "receipt" ELSE "starting"
    <2>1. PICK t : t = [run[m] EXCEPT !.head = BranchTip, !.pc = at, !.receipt = x]
      OBVIOUS
    <2>2. run' = [run EXCEPT ![m] = t]
      BY <1>3, <2>1 DEF reconcile_merge_receipt
    <2>3. /\ x \in Receipts /\ x.outcome # "no_change"
          /\ at = "receipt" => x # NoReceipt
      BY Basics, MergedAtFound DEF Committed, NoReceipt, Receipts, MainRevisions
    <2>4. at \in {"reported", "receipt", "starting"} /\ (at = "reported" => receipts[BranchTip] # NoReceipt)
      OBVIOUS
    <2>5. /\ t \in Tasks /\ t.pc = at /\ t.head = BranchTip /\ t.receipt = x
          /\ t.status = run[m].status
      <3> HIDE DEF x, at
      <3> QED BY <1>1, <2>1, <2>3, <2>4 DEF Tasks, Steps, Located
    <2>6. TaskInv(t)
      <3> HIDE DEF x, at
      <3> QED BY <1>1, <2>3, <2>4, <2>5, Basics DEF TaskInv, Located, Merging
    <2> QED BY <1>1, <2>2, <2>6, TaskMoves
  <1> QED BY <1>2, <1>3

(* What main must take is part of what the branch changed. *)
LEMMA MandatoryInDelta ==
    ASSUME NEW h, NEW r, semantic_delta_is_subsumed(h, r)
    PROVE  Carries(main[r].graph, h, Mandatory(h, r))
  BY DEF semantic_delta_is_subsumed, Carries, Mandatory

LEMMA ContextStep ==
    ASSUME MergeInv, NEW m \in Merges, TakeContext(m)
    PROVE  MergeInv' /\ Decides
  <1>1. BranchTip >= 1 /\ BranchTip \in Heads /\ run[m] \in Tasks /\ run[m].status # "succeeded"
        /\ UNCHANGED <<history, episode, left>>
    BY Basics DEF TakeContext, TaskInv
  <1>2. CASE Fails(m)
    BY <1>1, <1>2, EndsTask DEF Fails, Statuses
  <1>3. CASE ~Fails(m) /\ semantic_delta_is_subsumed(BranchTip, Tip)
    <2>1. PICK t : t = [run[m] EXCEPT !.pc = "receipt", !.head = BranchTip, !.receipt = NoChange(Tip)]
      OBVIOUS
    <2>2. run' = [run EXCEPT ![m] = t]
      BY <1>3, <2>1 DEF TakeContext
    <2>3. NoChange(Tip) \in Receipts /\ NoChange(Tip) # NoReceipt /\ NoChange(Tip).revision = Tip
      BY Basics DEF NoChange, NoReceipt, Receipts, MainRevisions
    <2>4. /\ t \in Tasks /\ t.pc = "receipt" /\ t.head = BranchTip /\ t.receipt = NoChange(Tip)
          /\ t.status = run[m].status
      BY <1>1, <2>1, <2>3 DEF Tasks, Steps, Located
    <2>5. Carries(main[t.receipt.revision].graph, t.head, Mandatory(t.head, t.receipt.revision))
      BY <1>3, <2>3, <2>4, MandatoryInDelta
    <2>6. TaskInv(t)
      BY <1>1, <2>3, <2>4, <2>5, Basics DEF TaskInv, Located, Merging
    <2> QED BY <1>1, <2>2, <2>6, TaskMoves
  <1>4. CASE ~Fails(m) /\ ~semantic_delta_is_subsumed(BranchTip, Tip)
    <2>1. PICK t : t = [run[m] EXCEPT !.pc = "turn", !.head = BranchTip, !.rev = Tip]
      OBVIOUS
    <2>2. run' = [run EXCEPT ![m] = t]
      BY <1>4, <2>1 DEF TakeContext
    <2>3. /\ t \in Tasks /\ t.pc = "turn" /\ t.head = BranchTip /\ t.rev = Tip
          /\ t.status = run[m].status
      BY <1>1, <2>1, Basics DEF Tasks, Steps, Located, Merging
    <2>4. TaskInv(t)
      BY <1>1, <2>3, Basics DEF TaskInv, Located, Merging
    <2> QED BY <1>1, <2>2, <2>4, TaskMoves
  <1> QED BY <1>2, <1>3, <1>4

LEMMA TurnStep ==
    ASSUME MergeInv, NEW m \in Merges, _provider_turn(m)
    PROVE  MergeInv' /\ Decides
  <1>1. /\ run[m] \in Tasks /\ TaskInv(run[m]) /\ run[m].pc = "turn"
        /\ UNCHANGED <<history, episode, left>>
    BY Basics DEF _provider_turn, TaskInv
  <1>2. ASSUME NEW c \in Candidates, NEW s \in BOOLEAN,
               run' = [run EXCEPT ![m].pc = "refreshing", ![m].cand = c, ![m].session = s]
        PROVE  MergeInv' /\ Decides
    <2>1. PICK t : t = [run[m] EXCEPT !.pc = "refreshing", !.cand = c, !.session = s]
      OBVIOUS
    <2>2. run' = [run EXCEPT ![m] = t]
      BY <1>2, <2>1
    <2>3. /\ t \in Tasks /\ t.pc = "refreshing" /\ t.head = run[m].head /\ t.rev = run[m].rev
          /\ t.status = run[m].status
      BY <1>1, <2>1 DEF Tasks, Steps, Located, Merging
    <2>4. TaskInv(t)
      BY <1>1, <2>3 DEF TaskInv, Located, Merging
    <2> QED BY <1>1, <2>2, <2>4, TaskMoves
  <1>3. ASSUME NEW status \in {"paused", "failed"}, run' = [run EXCEPT ![m] = Ended(status, 1)]
        PROVE  MergeInv' /\ Decides
    BY <1>1, <1>3, EndsTask DEF Statuses
  <1> QED BY <1>2, <1>3 DEF _provider_turn

(* Another turn of the agent, for a correction or at a new head of main. *)
LEMMA AgainStep ==
    ASSUME MergeInv, NEW m \in Merges, run[m].pc \in Merging, Correct(m) \/ Rebase(m),
           UNCHANGED <<history, episode, left>>
    PROVE  MergeInv' /\ Decides
  <1>1. /\ run[m] \in Tasks /\ TaskInv(run[m]) /\ run[m].head \in 1..BranchTip /\ run[m].rev \in 1..Tip
        /\ BranchTip >= 1 /\ run[m].status # "succeeded"
    BY Basics DEF TaskInv, Located, Merging
  <1>2. CASE Fails(m)
    BY <1>2, EndsTask DEF Fails, Statuses
  <1>3. Problem \in Candidates
    BY DEF Candidates
  <1>4. CASE ~Fails(m) /\ Correct(m)
    <2>1. PICK t : t = [[run[m] EXCEPT !.pc = "turn", !.corrections = @ + 1] EXCEPT !.cand = Problem]
      OBVIOUS
    <2>2. run' = [run EXCEPT ![m] = t] /\ run[m].corrections < MaxCorrections
      BY <1>4, <2>1 DEF Correct, Continue
    <2>3. run[m].corrections + 1 \in 0..MaxCorrections
      BY <1>1, <2>2, Basics DEF Tasks
    <2>4. /\ t \in Tasks /\ t.pc = "turn" /\ t.head = run[m].head /\ t.rev = run[m].rev
          /\ t.status = run[m].status
      BY <1>1, <1>3, <2>1, <2>3 DEF Tasks, Steps, Located, Merging
    <2>5. TaskInv(t)
      BY <1>1, <2>4 DEF TaskInv, Located, Merging
    <2> QED BY <2>2, <2>5, TaskMoves
  <1>5. CASE ~Fails(m) /\ Rebase(m)
    <2>1. PICK t : t = [[run[m] EXCEPT !.pc = "turn", !.rev = Tip, !.rebases = @ + 1] EXCEPT !.cand = Problem]
      OBVIOUS
    <2>2. run' = [run EXCEPT ![m] = t] /\ run[m].rebases < MaxRebases
      BY <1>5, <2>1 DEF Rebase, Continue
    <2>3. run[m].rebases + 1 \in 0..MaxRebases
      BY <1>1, <2>2, Basics DEF Tasks
    <2>4. /\ t \in Tasks /\ t.pc = "turn" /\ t.head = run[m].head /\ t.rev = Tip
          /\ t.status = run[m].status
      BY <1>1, <1>3, <2>1, <2>3, Basics DEF Tasks, Steps, Located, Merging
    <2>5. TaskInv(t)
      BY <1>1, <2>4, Basics DEF TaskInv, Located, Merging
    <2> QED BY <2>2, <2>5, TaskMoves
  <1> QED BY <1>2, <1>4, <1>5

(* A task that knows how its merge was resolved. *)
Resolved(t, x) ==
    [t EXCEPT !.pc = "receipt", !.rev = 0, !.receipt = x, !.cand = Problem, !.session = FALSE,
              !.rebases = 0, !.corrections = 0]

LEMMA ResolvedInv ==
    ASSUME MergeInv, NEW m \in Merges, run[m].pc \in Merging, NEW x \in Receipts \ {NoReceipt}
    PROVE  /\ Resolves(m, x) => run' = [run EXCEPT ![m] = Resolved(run[m], x)]
           /\ Resolved(run[m], x) \in Tasks
           /\ Resolved(run[m], x).pc = "receipt" /\ Resolved(run[m], x).receipt = x
           /\ Resolved(run[m], x).head = run[m].head /\ Resolved(run[m], x).status # "succeeded"
           /\ run[m].head \in 1..BranchTip /\ BranchTip >= 1
  <1>1. /\ run[m] \in Tasks /\ run[m].status # "succeeded"
        /\ run[m].head \in 1..BranchTip /\ BranchTip >= 1
    BY Basics DEF TaskInv, Located, Merging
  <1>2. Problem \in Candidates /\ 0 \in 0..MaxRebases /\ 0 \in 0..MaxCorrections
    BY Basics DEF Candidates
  <1>3. Resolves(m, x) => run' = [run EXCEPT ![m] = Resolved(run[m], x)]
    BY Basics DEF Resolves, Resolved
  <1>4. Resolved(run[m], x) \in Tasks
    BY <1>1, <1>2 DEF Resolved, Tasks, Steps, Located
  <1> QED BY <1>1, <1>3, <1>4 DEF Resolved, Tasks

LEMMA ResolvesStep ==
    ASSUME MergeInv, NEW m \in Merges, run[m].pc \in Merging, NEW x \in Receipts \ {NoReceipt}, Resolves(m, x),
           x.outcome = "no_change" =>
               x.revision \in 1..Tip
               /\ Carries(main[x.revision].graph, run[m].head, Mandatory(run[m].head, x.revision)),
           UNCHANGED <<history, episode, left>>
    PROVE  MergeInv' /\ Decides
  <1>1. PICK t : t = Resolved(run[m], x)
    OBVIOUS
  <1>2. /\ run' = [run EXCEPT ![m] = t] /\ t \in Tasks /\ t.pc = "receipt" /\ t.receipt = x
        /\ t.head = run[m].head /\ t.status # "succeeded"
        /\ run[m].head \in 1..BranchTip /\ BranchTip >= 1
    BY <1>1, ResolvedInv
  <1>3. TaskInv(t)
    BY <1>2 DEF TaskInv, Located, Merging
  <1> QED BY <1>2, <1>3, TaskMoves

(* Only the place of the task changes. *)
LEMMA GoesStep ==
    ASSUME MergeInv, NEW m \in Merges, run[m].pc \in Located, NEW at \in Located \ {"receipt"},
           run' = [run EXCEPT ![m].pc = at], UNCHANGED <<history, episode, left>>,
           at \in Merging => run[m].pc \in Merging,
           at = "appending" =>
               validate_branch_merge_candidate_conformance(run[m].head, run[m].rev, run[m].cand.ops),
           at = "reported" => receipts[run[m].head] # NoReceipt
    PROVE  MergeInv' /\ Decides
  <1>1. PICK t : t = [run[m] EXCEPT !.pc = at]
    OBVIOUS
  <1>2. run[m] \in Tasks /\ TaskInv(run[m]) /\ run[m].pc # "none"
    BY Basics DEF Located, Merging
  <1>3. /\ t \in Tasks /\ t.pc = at /\ t.head = run[m].head /\ t.rev = run[m].rev
        /\ t.status = run[m].status /\ t.cand = run[m].cand
    BY <1>1, <1>2 DEF Tasks, Steps
  <1>4. TaskInv(t)
    BY <1>2, <1>3 DEF TaskInv, Located, Merging
  <1>5. run' = [run EXCEPT ![m] = t]
    BY <1>1
  <1> QED BY <1>4, <1>5, TaskMoves

LEMMA RefreshStep ==
    ASSUME MergeInv, NEW m \in Merges, classify_refreshed_context(m)
    PROVE  MergeInv' /\ Decides
  <1>1. run[m].pc \in Merging /\ run[m].pc \in Located /\ UNCHANGED <<history, episode, left>>
    BY DEF classify_refreshed_context, Located, Merging
  <1>2. CASE Fails(m)
    BY <1>1, <1>2, EndsTask DEF Fails, Statuses
  <1>3. CASE Correct(m) \/ Rebase(m)
    BY <1>1, <1>3, AgainStep
  <1>4. CASE /\ BranchTip = run[m].head /\ Resolves(m, NoChange(Tip))
             /\ semantic_delta_is_subsumed(BranchTip, Tip) \/ EmptyResolves(m, Tip)
    <2>1. /\ NoChange(Tip) \in Receipts \ {NoReceipt} /\ NoChange(Tip).revision = Tip
          /\ Tip \in 1..Tip
      BY Basics DEF NoChange, NoReceipt, Receipts, MainRevisions
    <2>2. Carries(main[Tip].graph, run[m].head, Mandatory(run[m].head, Tip))
      BY <1>4, MandatoryInDelta DEF EmptyResolves, branch_merge_can_resolve_without_patch
    <2> QED BY <1>1, <1>4, <2>1, <2>2, ResolvesStep
  <1>5. CASE run' = [run EXCEPT ![m].pc = "preparing"]
    BY <1>1, <1>5, GoesStep DEF Located, Merging
  <1> QED BY <1>2, <1>3, <1>4, <1>5 DEF classify_refreshed_context

LEMMA PrepareStep ==
    ASSUME MergeInv, NEW m \in Merges, prepare_branch_merge_with_history(m)
    PROVE  MergeInv' /\ Decides
  <1>1. run[m].pc \in Merging /\ run[m].pc \in Located /\ UNCHANGED <<history, episode, left>>
    BY DEF prepare_branch_merge_with_history, Located, Merging
  <1>2. CASE Fails(m)
    BY <1>1, <1>2, EndsTask DEF Fails, Statuses
  <1>3. CASE Correct(m)
    BY <1>1, <1>3, AgainStep
  <1>4. CASE RunGoes(m, "preparing", "refreshing")
    BY <1>1, <1>4, GoesStep DEF RunGoes, Located, Merging
  <1>5. CASE /\ RunGoes(m, "preparing", "appending") /\ Tip = run[m].rev
             /\ validate_branch_merge_candidate_conformance(run[m].head, Tip, run[m].cand.ops)
    BY <1>1, <1>5, GoesStep DEF RunGoes, Located, Merging
  <1> QED BY <1>2, <1>3, <1>4, <1>5 DEF prepare_branch_merge_with_history

(* What a merge task publishes, seen to land or not. *)
LEMMA ConfirmedStep ==
    ASSUME MergeInv, late = NoPublication, NEW x, FitsIn(x), x.what \in {"main", "receipt"}, Lands(x),
           UNCHANGED <<late, left, episode>>, NEW m \in Merges, NEW t,
           run' = [run EXCEPT ![m] = t], TaskInv(t)'
    PROVE  MergeInv' /\ Decides
  <1>1. HistInv' /\ Grows /\ Size' = Size /\ Decides
    <2>1. Size \in Nat /\ x.what # "branch"
      BY Basics DEF Size
    <2> QED BY <2>1, Basics, Landing
  <1>2. HistType /\ HistType' /\ Tip' \in Nat /\ Tip' >= Tip /\ BranchTip' >= BranchTip
        /\ (branch # <<>> => branch' # <<>>)
    BY <1>1, Basics DEF HistInv, HistType, Tip, BranchTip, Grows
  <1>3. LateInv'
    BY DEF LateInv
  <1>4. EpisodeInv'
    BY <1>1, <1>2, Basics DEF MergeInv, EpisodeInv, Room, episode
  <1>5. RunInv'
    BY <1>1, <1>2, Basics, RunMoves
  <1> QED BY <1>1, <1>3, <1>4, <1>5 DEF MergeInv

LEMMA UnseenStep ==
    ASSUME MergeInv, late = NoPublication, NEW x, FitsIn(x), x.what \in {"main", "receipt"},
           Spend("faults"), UNCHANGED <<main, branch, receipts, episode>>, late' \in {NoPublication, x},
           NEW m \in Merges, Fails(m)
    PROVE  MergeInv' /\ Decides
  <1>1. HistInv' /\ Grows /\ Size' = Size /\ Tip' = Tip /\ BranchTip' = BranchTip /\ Decides
    BY Basics, HistSame
  <1>2. HistType /\ HistType'
    BY <1>1, Basics DEF HistInv
  <1>3. LateInv'
    <2>1. \A y : FitsIn(y) => FitsIn(y)'
      BY FitsSame DEF episode
    <2> QED BY <2>1 DEF LateInv
  <1>4. left' \in [Events -> Nat] /\ left'["writes"] = left["writes"]
    BY DEF MergeInv, EpisodeInv, Spend, Events
  <1>5. late'.what # "branch" /\ late.what # "branch"
    BY DEF NoPublication
  <1>6. EpisodeInv'
    BY <1>1, <1>4, <1>5 DEF MergeInv, EpisodeInv, Room, episode
  <1>7. PICK t : t = Ended("failed", 1)
    OBVIOUS
  <1>8. TaskInv(t)
    BY <1>7, Basics, EndedInv DEF Statuses
  <1>9. TaskInv(t)'
    BY <1>1, <1>2, <1>8, TaskStable
  <1>10. RunInv'
    BY <1>1, <1>2, <1>7, <1>9, Basics, RunMoves DEF Fails
  <1> QED BY <1>1, <1>3, <1>6, <1>10 DEF MergeInv

(* A candidate that was checked at this head of main is a patch that fits. *)
LEMMA CandidateFits ==
    ASSUME MergeInv, NEW m \in Merges, run[m].pc = "appending", Tip = run[m].rev,
           MergedAt(run[m].head) = 0, receipts[run[m].head] = NoReceipt
    PROVE  FitsIn(Patch(Result(main[Tip].graph, run[m].cand.ops), run[m].head))
  <1> DEFINE h == run[m].head
  <1> DEFINE ops == run[m].cand.ops
  <1> DEFINE g == Result(main[Tip].graph, ops)
  <1>1. /\ h \in 1..BranchTip /\ run[m].cand \in Candidates
        /\ validate_branch_merge_candidate_conformance(h, Tip, ops)
    BY Basics DEF TaskInv, Located, Merging, Tasks
  <1>2. ops \in AgentPatches
    <2>1. Empty \in AgentPatches
      BY DEF Empty, AgentPatches
    <2>2. \A c \in Candidates : c.ops \in AgentPatches
      <3>1. \A c \in [ok : {TRUE}, ops : AgentPatches] : c.ops \in AgentPatches
        BY Zenon
      <3>2. Problem.ops = Empty
        BY DEF Problem
      <3> QED BY <2>1, <3>1, <3>2, Zenon DEF Candidates
    <2> QED BY <1>1, <2>2
  <1>3. main[Tip].graph \in Graphs
    BY Basics, MainType
  <1>4. g \in Graphs
    BY <1>2, <1>3, Constants DEF Result, Graphs, AgentPatches
  <1>5. Carries(g, h, Mandatory(h, Tip))
    BY <1>1 DEF validate_branch_merge_candidate_conformance
  <1>6. \A f \in Fields \ build_semantic_delta(h) : g[f] = main[Tip].graph[f]
    BY <1>1 DEF validate_branch_merge_candidate_conformance, Result
  <1>7. FitsMain(Patch(g, h))
    <2> SUFFICES ASSUME NEW a, a = g, NEW b, b = h PROVE FitsMain(Patch(a, b))
      OBVIOUS
    <2>1. /\ a \in Graphs /\ b \in 1..BranchTip /\ MergedAt(b) = 0 /\ receipts[b] = NoReceipt
          /\ Carries(a, b, Mandatory(b, Tip))
          /\ \A f \in Fields \ build_semantic_delta(b) : a[f] = main[Tip].graph[f]
      BY <1>1, <1>4, <1>5, <1>6
    <2> HIDE DEF g, h
    <2> QED BY <2>1 DEF FitsMain
  <1> QED BY <1>7 DEF FitsIn

LEMMA CommitStep ==
    ASSUME MergeInv, NEW m \in Merges, commit_branch_merge_with_history(m)
    PROVE  MergeInv' /\ Decides
  <1>1. /\ run[m].pc = "appending" /\ run[m].pc \in Merging /\ run[m].pc \in Located
        /\ late = NoPublication /\ UNCHANGED episode
        /\ run[m].head \in 1..BranchTip /\ run[m].head \in Heads
    BY Basics DEF commit_branch_merge_with_history, Unlocked, Located, Merging, TaskInv
  <1>2. CASE MergedAt(run[m].head) # 0 \/ receipts[run[m].head] # NoReceipt
    <2>1. PICK x : x = _read_branch_snapshot(run[m].head)
      OBVIOUS
    <2>2. Resolves(m, x) /\ UNCHANGED <<history, left>>
      BY <1>2, <2>1 DEF commit_branch_merge_with_history
    <2>3. MergedAt(run[m].head) # 0 => x \in Receipts \ {NoReceipt} /\ x.outcome = "committed"
      BY <2>1, Basics, MergedAtFound DEF _read_branch_snapshot, Committed, NoReceipt, Receipts,
                                         MainRevisions
    <2>4. MergedAt(run[m].head) = 0 =>
             x \in Receipts \ {NoReceipt} /\ Vouches(run[m].head, x)
      BY <1>1, <1>2, <2>1, Basics DEF _read_branch_snapshot, HistType, HistInv, ReceiptInv
    <2>5. x.outcome = "no_change" =>
               x.revision \in 1..Tip
               /\ Carries(main[x.revision].graph, run[m].head, Mandatory(run[m].head, x.revision))
      BY <2>3, <2>4 DEF Vouches
    <2> QED BY <1>1, <2>2, <2>3, <2>4, <2>5, ResolvesStep
  <1>3. CASE MergedAt(run[m].head) = 0 /\ receipts[run[m].head] = NoReceipt /\ Tip # run[m].rev
    <2>1. UNCHANGED <<history, left>> /\ (RunGoes(m, "appending", "refreshing") \/ Fails(m))
      BY <1>3 DEF commit_branch_merge_with_history
    <2>2. CASE Fails(m)
      BY <1>1, <2>1, <2>2, EndsTask DEF Fails, Statuses
    <2>3. CASE RunGoes(m, "appending", "refreshing")
      BY <1>1, <2>1, <2>3, GoesStep DEF RunGoes, Located, Merging
    <2> QED BY <2>1, <2>2, <2>3
  <1>4. CASE MergedAt(run[m].head) = 0 /\ receipts[run[m].head] = NoReceipt /\ Tip = run[m].rev
    <2>1. PICK x : x = Patch(Result(main[Tip].graph, run[m].cand.ops), run[m].head)
      OBVIOUS
    <2>2. FitsIn(x) /\ x.what = "main"
      BY <1>1, <1>4, <2>1, CandidateFits DEF Patch
    <2>3. Publish(x, Resolves(m, Committed(Tip + 1)), Fails(m))
      BY <1>4, <2>1 DEF commit_branch_merge_with_history, Appends
    <2>4. CASE Lands(x) /\ Resolves(m, Committed(Tip + 1)) /\ UNCHANGED <<late, left>>
      <3>1. PICK y : y = Committed(Tip + 1)
        OBVIOUS
      <3>2. y \in Receipts \ {NoReceipt} /\ y.outcome = "committed"
        BY <3>1, Basics DEF Committed, Receipts, NoReceipt, MainRevisions
      <3>3. PICK t : t = Resolved(run[m], y)
        OBVIOUS
      <3>4. /\ run' = [run EXCEPT ![m] = t] /\ t \in Tasks /\ t.pc = "receipt" /\ t.receipt = y
            /\ t.head = run[m].head /\ t.status # "succeeded" /\ BranchTip >= 1
        BY <1>1, <2>4, <3>1, <3>2, <3>3, ResolvedInv
      <3>5. TaskInv(t)
        BY <1>1, <3>2, <3>4 DEF TaskInv, Located, Merging
      <3>6. HistInv' /\ Grows
        BY <2>2, <2>4, Basics, Landing
      <3>7. TaskInv(t)'
        BY <3>5, <3>6, Basics, TaskStable DEF HistInv
      <3> QED BY <1>1, <2>2, <2>4, <3>4, <3>7, ConfirmedStep
    <2>5. CASE Spend("faults") /\ Fails(m) /\ late' \in {NoPublication, x} /\ UNCHANGED <<main, branch, receipts>>
      BY <1>1, <2>2, <2>5, UnseenStep
    <2> QED BY <2>3, <2>4, <2>5 DEF Publish
  <1> QED BY <1>2, <1>3, <1>4

LEMMA ReceiptStep ==
    ASSUME MergeInv, NEW m \in Merges, write_merge_receipt(m)
    PROVE  MergeInv' /\ Decides
  <1> DEFINE h == run[m].head
  <1>1. /\ run[m].pc = "receipt" /\ run[m].pc \in Located
        /\ late = NoPublication /\ UNCHANGED episode
        /\ h \in 1..BranchTip /\ h \in Heads
        /\ run[m] \in Tasks /\ TaskInv(run[m]) /\ run[m].status # "succeeded"
    BY Basics DEF write_merge_receipt, Unlocked, Located, TaskInv
  <1>2. PICK x : x = IF MergedAt(h) # 0 THEN Committed(MergedAt(h)) ELSE run[m].receipt
    OBVIOUS
  <1>3. CASE Fails(m) /\ UNCHANGED <<history, left>>
    BY <1>1, <1>3, EndsTask DEF Fails, Statuses
  <1>4. CASE receipts[h] # NoReceipt /\ RunGoes(m, "receipt", "reported") /\ UNCHANGED <<history, left>>
    BY <1>1, <1>4, GoesStep DEF RunGoes, Located, Merging
  <1>5. CASE /\ receipts[h] = NoReceipt /\ (x.outcome = "committed" => MergedAt(h) = x.revision)
             /\ Publish(Receipt(h, x), RunGoes(m, "receipt", "reported"), Fails(m))
    <2>1. x \in Receipts \ {NoReceipt} /\ Vouches(h, x)
      <3>1. CASE MergedAt(h) # 0
        <4>1. x \in Receipts \ {NoReceipt} /\ x.outcome = "committed"
          BY <1>2, <3>1, Basics, MergedAtFound DEF Committed, NoReceipt, Receipts, MainRevisions
        <4> QED BY <1>5, <4>1 DEF Vouches
      <3>2. CASE MergedAt(h) = 0
        BY <1>1, <1>2, <1>5, <3>2 DEF Vouches, TaskInv, Tasks
      <3> QED BY <3>1, <3>2
    <2>2. PICK y : y = Receipt(h, x)
      OBVIOUS
    <2>3. y.what = "receipt" /\ y.head = h /\ y.receipt = x
      BY <2>2 DEF Receipt
    <2>4. FitsIn(y)
      BY <1>1, <1>5, <2>1, <2>2 DEF FitsIn, FitsReceipt
    <2>5. CASE Lands(y) /\ RunGoes(m, "receipt", "reported") /\ UNCHANGED <<late, left>>
      <3>1. PICK t : t = [run[m] EXCEPT !.pc = "reported"]
        OBVIOUS
      <3>2. run' = [run EXCEPT ![m] = t]
        BY <2>5, <3>1 DEF RunGoes
      <3>3. t \in Tasks /\ t.pc = "reported" /\ t.head = h /\ t.status # "succeeded"
        BY <1>1, <3>1 DEF Tasks, Steps, Located
      <3>4. HistInv' /\ Grows
        BY <2>3, <2>4, <2>5, Basics, Landing
      <3>5. receipts' = [receipts EXCEPT ![h] = x]
        BY <2>3, <2>5 DEF Lands
      <3>6. receipts'[h] # NoReceipt
        BY <1>1, <2>1, <3>5, Basics DEF HistType
      <3>7. BranchTip' >= 1 /\ t.head \in 1..BranchTip'
        BY <1>1, <3>3, <3>4, Basics DEF Grows, HistInv, HistType, BranchTip
      <3>8. TaskInv(t)'
        BY <3>3, <3>6, <3>7 DEF TaskInv, Located, Merging
      <3> QED BY <1>1, <2>3, <2>4, <2>5, <3>2, <3>8, ConfirmedStep
    <2>6. CASE Spend("faults") /\ Fails(m) /\ late' \in {NoPublication, y} /\ UNCHANGED <<main, branch, receipts>>
      BY <1>1, <2>3, <2>4, <2>6, UnseenStep
    <2> QED BY <1>5, <2>2, <2>5, <2>6 DEF Publish
  <1> QED BY <1>2, <1>3, <1>4, <1>5 DEF write_merge_receipt

LEMMA SucceedStep ==
    ASSUME MergeInv, NEW m \in Merges, TaskSucceeds(m)
    PROVE  MergeInv' /\ Decides
  <1>1. run[m].head \in Heads /\ receipts[run[m].head] # NoReceipt
    BY Basics DEF TaskSucceeds, TaskInv, Tasks
  <1>2. TaskInv(Ended("succeeded", run[m].head))
    BY <1>1, EndedInv DEF Statuses
  <1> QED BY <1>2, TaskMoves DEF TaskSucceeds, Succeeds

-----------------------------------------------------------------------------
(* The episode, main, and the publications that were not seen to land. *)

LEMMA LateStep ==
    ASSUME MergeInv, LateSettles
    PROVE  MergeInv' /\ Decides
  <1>1. /\ late # NoPublication /\ late' = NoPublication /\ FitsIn(late)
        /\ UNCHANGED <<base, phase, writer, run, left>>
    BY DEF LateSettles, MergeInv, LateInv, episode
  <1>2. LateInv' /\ late'.what # "branch"
    BY <1>1 DEF LateInv, NoPublication
  <1>3. Size \in Nat /\ left["writes"] \in Nat
    BY Basics DEF Size, MergeInv, EpisodeInv, Events
  <1>4. /\ HistInv' /\ Grows /\ Decides
        /\ Size' = Size \/ (late.what = "branch" /\ Size' = Size + 1)
    <2>1. CASE UNCHANGED <<main, branch, receipts>>
      BY <2>1, Basics, HistSame
    <2>2. CASE Lands(late)
      <3>1. late.what = "branch" => BranchTip <= MaxWrites
        <4> SUFFICES ASSUME late.what = "branch" PROVE BranchTip <= MaxWrites
          OBVIOUS
        <4>1. branch # <<>>
          BY <1>1 DEF FitsIn, FitsMain, FitsReceipt, FitsCreate, FitsBranch, Patch, Receipt, BranchFile
        <4>2. Size = BranchTip
          BY <4>1 DEF Size
        <4>3. Room
          BY DEF MergeInv, EpisodeInv
        <4> QED BY <1>3, <4>2, <4>3, Basics DEF Room
      <3>2. PICK x : x = late
        OBVIOUS
      <3>3. FitsIn(x) /\ Lands(x) /\ (x.what = "branch" => BranchTip <= MaxWrites)
        BY <1>1, <2>2, <3>1, <3>2
      <3>4. HistInv' /\ Grows /\ Decides /\ Size' = Size + (IF x.what = "branch" THEN 1 ELSE 0)
        BY <3>3, Basics, Landing
      <3> QED BY <1>3, <3>2, <3>4
    <2> QED BY <2>1, <2>2 DEF LateSettles
  <1>5. HistType /\ HistType' /\ Tip' \in Nat /\ Tip' >= Tip /\ BranchTip' >= BranchTip
        /\ (branch # <<>> => branch' # <<>>)
    BY <1>4, Basics DEF HistInv, HistType, Tip, BranchTip, Grows
  <1>6. Room'
    BY <1>1, <1>2, <1>3, <1>4, Basics DEF MergeInv, EpisodeInv, Room
  <1>7. EpisodeInv'
    BY <1>1, <1>5, <1>6, Basics DEF MergeInv, EpisodeInv
  <1>8. RunInv'
    BY <1>1, <1>4, <1>5, Basics, RunSame
  <1> QED BY <1>2, <1>4, <1>7, <1>8 DEF MergeInv

LEMMA EditStep ==
    ASSUME MergeInv, NEW f \in Fields, NEW v \in Values, Edit(f, v)
    PROVE  MergeInv' /\ Decides
  <1>1. /\ late = NoPublication /\ UNCHANGED <<branch, receipts, late, base, phase, writer, run>>
        /\ Spend("edits")
    BY DEF Edit, Unlocked, episode
  <1>2. PICK g : g = [main[Tip].graph EXCEPT ![f] = v]
    OBVIOUS
  <1>3. g \in Graphs
    <2>1. main[Tip].graph \in Graphs
      BY Basics, MainType
    <2> QED BY <1>2, <2>1 DEF Graphs
  <1>4. main' = Append(main, [graph |-> g, merge |-> NoMerge])
    BY <1>2 DEF Edit
  <1>5. /\ Tip' = Tip + 1 /\ main'[Tip'].graph = g /\ main'[Tip'].merge = NoMerge
        /\ \A r \in 1..Tip : main'[r] = main[r]
        /\ HistType'
    BY <1>1, <1>3, <1>4, Basics, MainAppend
  <1>6. HistInv' /\ Grows
    BY <1>1, <1>3, <1>5, Basics, MainGrows
  <1>7. Decides
    BY <1>1, <1>5, <1>6, Basics, MainDecides
  <1>8. left' \in [Events -> Nat] /\ left'["writes"] = left["writes"]
    BY <1>1 DEF MergeInv, EpisodeInv, Spend, Events
  <1>9. Size' = Size
    BY <1>1 DEF Size, BranchTip
  <1>10. EpisodeInv'
    BY <1>1, <1>5, <1>8, <1>9, Basics DEF MergeInv, EpisodeInv, Room
  <1>11. LateInv'
    BY <1>1 DEF LateInv
  <1>12. RunInv'
    BY <1>1, <1>5, <1>6, Basics, RunSame
  <1> QED BY <1>6, <1>7, <1>10, <1>11, <1>12 DEF MergeInv

(* Steps of the episode that publish nothing. *)
LEMMA EpisodeSteps ==
    ASSUME MergeInv, reserve_auto_research \/ WriterStarts \/ WriterEnds \/ EpisodeEnds
    PROVE  MergeInv' /\ Decides
  <1>1. UNCHANGED <<main, branch, receipts, late, run>>
    BY DEF reserve_auto_research, WriterStarts, WriterEnds, EpisodeEnds, history
  <1>2. HistInv' /\ Grows /\ Size' = Size /\ Tip' = Tip /\ BranchTip' = BranchTip /\ Decides
    BY <1>1, Basics, HistSame
  <1>3. RunInv'
    BY <1>1, <1>2, Basics, RunSame DEF HistInv
  <1>4. Size \in Nat /\ left["writes"] \in Nat
    BY Basics DEF Size, MergeInv, EpisodeInv, Events
  <1>5. CASE reserve_auto_research
    <2>1. LateInv'
      <3>1. base' \in 1..Tip
        BY <1>5, Basics DEF reserve_auto_research
      <3> QED BY <1>1, <3>1, FitsSame DEF MergeInv, LateInv
    <2>2. EpisodeInv'
      BY <1>1, <1>2, <1>5, Basics DEF MergeInv, EpisodeInv, Room, reserve_auto_research
    <2> QED BY <1>2, <1>3, <2>1, <2>2 DEF MergeInv
  <1>6. CASE WriterStarts
    <2>1. left' \in [Events -> Nat] /\ left'["writes"] = left["writes"] - 1
      BY <1>6 DEF MergeInv, EpisodeInv, WriterStarts, Spend, Events
    <2>2. LateInv'
      BY <1>1, <1>6, FitsSame DEF MergeInv, LateInv, WriterStarts
    <2>3. EpisodeInv'
      BY <1>1, <1>2, <1>4, <1>6, <2>1, Basics DEF MergeInv, EpisodeInv, Room, WriterStarts
    <2> QED BY <1>2, <1>3, <2>2, <2>3 DEF MergeInv
  <1>7. CASE WriterEnds \/ EpisodeEnds
    <2>1. LateInv'
      BY <1>1, <1>7, FitsSame DEF MergeInv, LateInv, WriterEnds, EpisodeEnds
    <2>2. EpisodeInv'
      BY <1>1, <1>2, <1>4, <1>7, Basics DEF MergeInv, EpisodeInv, Room, WriterEnds, EpisodeEnds
    <2> QED BY <1>2, <1>3, <2>1, <2>2 DEF MergeInv
  <1> QED BY <1>5, <1>6, <1>7

LEMMA CreateStep ==
    ASSUME MergeInv, create_auto_research_branch
    PROVE  MergeInv' /\ Decides
  <1>1. late = NoPublication /\ phase = "reserved" /\ UNCHANGED <<base, writer, run>>
        /\ base >= 1 /\ base \in 1..Tip /\ late.what # "branch"
    BY Basics DEF create_auto_research_branch, Unlocked, MergeInv, EpisodeInv, NoPublication
  <1>2. Size \in Nat /\ left["writes"] \in Nat
    BY Basics DEF Size, MergeInv, EpisodeInv, Events
  <1>3. CASE phase' \in {"running", "failed"} /\ (phase' = "running" => branch # <<>>)
             /\ UNCHANGED <<history, left>>
    <2>1. UNCHANGED <<main, branch, receipts, late, left>>
      BY <1>3 DEF history
    <2>2. HistInv' /\ Grows /\ Size' = Size /\ Tip' = Tip /\ BranchTip' = BranchTip /\ Decides
      BY <2>1, Basics, HistSame
    <2>3. RunInv'
      BY <1>1, <2>2, Basics, RunSame DEF HistInv
    <2>4. LateInv'
      BY <1>1, <2>1 DEF LateInv
    <2>5. EpisodeInv'
      BY <1>1, <1>3, <2>1, <2>2 DEF MergeInv, EpisodeInv, Room
    <2> QED BY <2>2, <2>3, <2>4, <2>5 DEF MergeInv
  <1>4. CASE branch = <<>> /\ Lands(BranchFile) /\ phase' \in {"running", "reserved"} /\ UNCHANGED <<late, left>>
    <2>1. PICK x : x = BranchFile
      OBVIOUS
    <2>2. FitsIn(x) /\ x.what = "create" /\ Lands(x)
      BY <1>1, <1>4, <2>1 DEF FitsIn, FitsCreate, BranchFile
    <2>3. /\ HistInv' /\ Grows /\ Decides /\ Size' = Size + 0 /\ branch' # <<>>
      BY <2>2, Basics, Landing
    <2>4. HistType' /\ Tip' \in Nat /\ Tip' >= Tip /\ Size' = Size
      BY <1>2, <2>3, Basics DEF HistInv, HistType, Tip, Grows
    <2>5. RunInv'
      BY <1>1, <2>3, <2>4, Basics, RunSame
    <2>6. LateInv'
      BY <1>1, <1>4 DEF LateInv
    <2>7. EpisodeInv'
      BY <1>1, <1>4, <2>3, <2>4, Basics DEF MergeInv, EpisodeInv, Room
    <2> QED BY <2>3, <2>5, <2>6, <2>7 DEF MergeInv
  <1>5. CASE /\ branch = <<>> /\ Spend("faults") /\ phase' = "failed" /\ late' \in {NoPublication, BranchFile}
             /\ UNCHANGED <<main, branch, receipts>>
    <2>1. HistInv' /\ Grows /\ Size' = Size /\ Tip' = Tip /\ BranchTip' = BranchTip /\ Decides
      BY <1>5, Basics, HistSame
    <2>2. RunInv'
      BY <1>1, <2>1, Basics, RunSame DEF HistInv
    <2>3. LateInv' /\ late'.what # "branch"
      BY <1>1, <1>5, <2>1 DEF LateInv, FitsIn, FitsCreate, BranchFile, NoPublication
    <2>4. left' \in [Events -> Nat] /\ left'["writes"] = left["writes"]
      BY <1>5 DEF MergeInv, EpisodeInv, Spend, Events
    <2>5. EpisodeInv'
      BY <1>1, <1>5, <2>1, <2>3, <2>4 DEF MergeInv, EpisodeInv, Room
    <2> QED BY <2>1, <2>2, <2>3, <2>5 DEF MergeInv
  <1> QED BY <1>3, <1>4, <1>5 DEF create_auto_research_branch, Publish

LEMMA WriteStep ==
    ASSUME MergeInv, NEW g \in [Fields -> AgentValues], branch_append(g)
    PROVE  MergeInv' /\ Decides
  <1>1. /\ late = NoPublication /\ late.what = "nothing" /\ writer = "working" /\ writer' = "wrote"
        /\ UNCHANGED <<base, phase, run>> /\ branch # <<>> /\ phase \in {"running", "ended"}
    BY DEF branch_append, Unlocked, Publish, MergeInv, EpisodeInv, NoPublication
  <1>2. Size \in Nat /\ left["writes"] \in Nat /\ Size = BranchTip /\ Size + left["writes"] + 1 <= MaxWrites + 1
    BY <1>1, Basics DEF Size, MergeInv, EpisodeInv, Events, Room
  <1>3. PICK x : x = BranchPatch(g)
    OBVIOUS
  <1>4. g \in Graphs
    BY Constants DEF Graphs
  <1>5. FitsIn(x) /\ x.what = "branch"
    BY <1>1, <1>3, <1>4 DEF FitsIn, FitsBranch, BranchPatch
  <1>6. BranchTip <= MaxWrites
    BY <1>2, Basics
  <1>7. CASE Lands(x) /\ UNCHANGED <<late, left>>
    <2>1. HistInv' /\ Grows /\ Decides /\ Size' = Size + 1
      BY <1>5, <1>6, <1>7, Basics, Landing
    <2>2. HistType' /\ Tip' \in Nat /\ Tip' >= Tip /\ (branch # <<>> => branch' # <<>>)
      BY <2>1, Basics DEF HistInv, HistType, Tip, BranchTip, Grows
    <2>3. RunInv'
      BY <1>1, <2>1, <2>2, Basics, RunSame
    <2>4. LateInv'
      BY <1>1, <1>7 DEF LateInv
    <2>5. Room'
      BY <1>1, <1>2, <1>7, <2>1, Basics DEF Room
    <2>6. EpisodeInv'
      BY <1>1, <1>7, <2>2, <2>5, Basics DEF MergeInv, EpisodeInv
    <2> QED BY <2>1, <2>3, <2>4, <2>6 DEF MergeInv
  <1>8. CASE Spend("faults") /\ late' \in {NoPublication, x} /\ UNCHANGED <<main, branch, receipts>>
    <2>1. HistInv' /\ Grows /\ Size' = Size /\ Tip' = Tip /\ BranchTip' = BranchTip /\ Decides
      BY <1>8, Basics, HistSame
    <2>2. RunInv'
      BY <1>1, <2>1, Basics, RunSame DEF HistInv
    <2>3. LateInv'
      <3>1. FitsIn(x)'
        BY <1>1, <1>5, <1>8, FitsSame
      <3> QED BY <1>8, <3>1 DEF LateInv
    <2>4. left' \in [Events -> Nat] /\ left'["writes"] = left["writes"]
      BY <1>8 DEF MergeInv, EpisodeInv, Spend, Events
    <2>5. Room'
      BY <1>1, <1>2, <2>1, <2>4, Basics DEF Room
    <2>6. EpisodeInv'
      BY <1>1, <1>8, <2>1, <2>4, <2>5 DEF MergeInv, EpisodeInv
    <2> QED BY <2>1, <2>2, <2>3, <2>6 DEF MergeInv
  <1> QED BY <1>3, <1>7, <1>8 DEF branch_append, Publish

LEMMA CrashStep ==
    ASSUME MergeInv, Crash
    PROVE  MergeInv' /\ Decides
  <1>1. UNCHANGED <<main, branch, receipts, late, base, phase>> /\ writer' = "none" /\ Spend("crashes")
    BY DEF Crash, history
  <1>2. HistInv' /\ Grows /\ Size' = Size /\ Tip' = Tip /\ BranchTip' = BranchTip /\ Decides
    BY <1>1, Basics, HistSame
  <1>3. HistType /\ HistType'
    BY <1>2, Basics DEF HistInv
  <1>4. Size \in Nat /\ left["writes"] \in Nat
    BY Basics DEF Size, MergeInv, EpisodeInv, Events
  <1>5. left' \in [Events -> Nat] /\ left'["writes"] = left["writes"]
    BY <1>1 DEF MergeInv, EpisodeInv, Spend, Events
  <1>6. LateInv'
    BY <1>1, FitsSame DEF MergeInv, LateInv
  <1>7. EpisodeInv'
    BY <1>1, <1>2, <1>4, <1>5, Basics DEF MergeInv, EpisodeInv, Room
  <1>8. ASSUME NEW m \in Merges PROVE run'[m] \in Tasks /\ TaskInv(run[m])'
    <2>1. run'[m] \in {Ended("interrupted", 1), NoRun, run[m]}
      BY DEF Crash
    <2>2. TaskInv(Ended("interrupted", 1)) /\ TaskInv(NoRun) /\ TaskInv(run[m])
      BY Basics, EndedInv DEF Statuses
    <2>3. TaskInv(run'[m])
      BY <2>1, <2>2
    <2>4. \A u : TaskInv(u) => TaskInv(u)' /\ u \in Tasks
      BY <1>2, <1>3, TaskStable DEF TaskInv
    <2> QED BY <2>3, <2>4
  <1>9. RunInv'
    <2>1. run' \in [Merges -> Tasks]
      BY <1>8 DEF Crash
    <2> QED BY <1>8, <2>1 DEF RunInv
  <1> QED BY <1>2, <1>6, <1>7, <1>9 DEF MergeInv

-----------------------------------------------------------------------------
LEMMA InvInit == BMInit => MergeInv /\ Standing = [h \in Heads |-> Undecided]
  <1> SUFFICES ASSUME BMInit PROVE MergeInv /\ Standing = [h \in Heads |-> Undecided]
    OBVIOUS
  <1> DEFINE g0 == [f \in Fields |-> 0]
  <1> DEFINE S == [graph : Graphs, merge : Heads \cup {NoMerge}]
  <1> DEFINE p0 == [graph |-> g0, merge |-> NoMerge]
  <1>1. p0 \in S /\ main = <<p0>> /\ p0.merge = NoMerge
    BY Constants DEF Graphs, BMInit
  <1>2. main \in Seq(S) /\ Tip = 1 /\ main[1] = p0
    <2> HIDE DEF p0, S
    <2> QED BY <1>1 DEF Tip
  <1>3. /\ branch = <<>> /\ BranchTip = 0 /\ receipts = [h \in Heads |-> NoReceipt] /\ late = NoPublication
        /\ Size = 1 /\ NoReceipt \in Receipts /\ MaxWrites \in Nat /\ late.what = "nothing"
    BY Constants DEF BMInit, BranchTip, Size, Receipts, NoPublication
  <1>4. \A r \in 1..Tip : r = 1 /\ main[r].merge = NoMerge
    BY <1>1, <1>2
  <1>5. HistType
    BY <1>2, <1>3 DEF HistType
  <1>6. MergeUnique /\ HeadsReached /\ ReceiptInv /\ MergeKeepsBothSides
    BY <1>2, <1>3, <1>4 DEF MergeUnique, HeadsReached, ReceiptInv, MergeKeepsBothSides, NoMerge
  <1>7. LateInv
    BY <1>3 DEF LateInv
  <1>8. left \in [Events -> Nat] /\ left["writes"] <= MaxWrites
    BY Constants DEF BMInit
  <1>9. EpisodeInv
    BY <1>2, <1>3, <1>8 DEF EpisodeInv, Room, BMInit, Events
  <1>10. RunInv
    <2>1. TaskInv(NoRun) /\ NoRun \in Tasks
      <3>1. "none" \in Statuses /\ 1 \in Heads
        BY Constants DEF Statuses, Heads
      <3> QED BY <3>1, EndedInv DEF TaskInv
    <2> QED BY <2>1 DEF RunInv, BMInit
  <1>11. Standing = [h \in Heads |-> Undecided]
    <2>1. \A h \in Heads : Standing[h] = Undecided
      <3> SUFFICES ASSUME NEW h \in Heads PROVE Standing[h] = Undecided
        OBVIOUS
      <3>1. MergedAt(h) = 0
        BY <1>3, <1>4, <1>5, MergedAtFound DEF Heads, NoMerge
      <3> QED BY <1>3, <1>5, <3>1, StandingAt
    <2> QED BY <2>1 DEF Standing
  <1> QED BY <1>5, <1>6, <1>7, <1>9, <1>10, <1>11 DEF MergeInv, HistInv

LEMMA InvStep == MergeInv /\ [BMNext]_bmVars => MergeInv' /\ Decides
  <1> SUFFICES ASSUME MergeInv, [BMNext]_bmVars PROVE MergeInv' /\ Decides
    OBVIOUS
  <1>1. CASE LateSettles
    BY <1>1, LateStep
  <1>2. CASE \E f \in Fields, v \in Values : Edit(f, v)
    BY <1>2, EditStep
  <1>3. CASE reserve_auto_research \/ WriterStarts \/ WriterEnds \/ EpisodeEnds
    BY <1>3, EpisodeSteps
  <1>4. CASE create_auto_research_branch
    BY <1>4, CreateStep
  <1>5. CASE \E g \in [Fields -> AgentValues] : branch_append(g)
    BY <1>5, WriteStep
  <1>6. CASE \E m \in Merges : merge_episode_branch(m) \/ Task(m)
    BY <1>6, AskStep, AdmitStep, OpenStep, ContextStep, TurnStep, RefreshStep, PrepareStep,
       CommitStep, ReceiptStep, SucceedStep DEF Task
  <1>7. CASE Crash
    BY <1>7, CrashStep
  <1>8. CASE UNCHANGED bmVars
    <2>1. UNCHANGED <<main, branch, receipts, late, base, phase, writer, run, left>>
      BY <1>8 DEF bmVars, history, episode
    <2>2. HistInv' /\ Grows /\ Size' = Size /\ Tip' = Tip /\ BranchTip' = BranchTip /\ Decides
      BY <2>1, Basics, HistSame
    <2>3. RunInv'
      BY <2>1, <2>2, Basics, RunSame DEF HistInv
    <2>4. LateInv'
      BY <2>1, FitsSame DEF MergeInv, LateInv
    <2>5. EpisodeInv'
      BY <2>1, <2>2 DEF MergeInv, EpisodeInv, Room
    <2> QED BY <2>2, <2>3, <2>4, <2>5 DEF MergeInv
  <1> QED BY <1>1, <1>2, <1>3, <1>4, <1>5, <1>6, <1>7, <1>8 DEF BMNext

LEMMA InvAlways == BMSpec => []MergeInv
  BY InvInit, InvStep, PTL DEF BMSpec

-----------------------------------------------------------------------------
(* Whatever publications are lost or land late, wherever the process dies and
   however main moves in between: a head of the branch is merged by at most one
   patch, every receipt on disk is true, and a merge reported as done is on
   record (HistoryManager._append_locked, write_merge_receipt,
   stream_branch_merge_task). *)
THEOREM RecordsAgree == BMSpec => []MergesAreOnRecord
  <1>1. MergeInv => MergesAreOnRecord
    <2> SUFFICES ASSUME MergeInv PROVE MergesAreOnRecord
      OBVIOUS
    <2>1. BMTypeOK
      <3>1. \A r \in 1..Tip : main[r].graph \in Graphs /\ main[r].merge \in Heads \cup {NoMerge}
        BY Basics, MainType
      <3>2. Tip \in MainRevisions /\ BranchTip \in Heads \cup {0} /\ \A h \in 1..BranchTip : branch[h] \in Graphs
        BY Basics DEF MainRevisions, Heads, HistType, BranchTip
      <3>3. receipts \in [Heads -> Receipts] /\ base \in 0..Tip
            /\ phase \in {"none", "reserved", "running", "failed", "ended"}
            /\ writer \in {"none", "working", "wrote"}
        BY Basics DEF HistType, MergeInv, EpisodeInv
      <3>4. \A m \in Merges : run[m] \in Tasks
        BY Basics
      <3> QED BY <3>1, <3>2, <3>3, <3>4 DEF BMTypeOK, Tasks, Statuses
    <2>2. MergedOnce
      <3> SUFFICES ASSUME NEW h \in Heads
          PROVE  Cardinality({r \in 1..Tip : main[r].merge = h}) <= 1
        BY DEF MergedOnce
      <3> DEFINE rs == {r \in 1..Tip : main[r].merge = h}
      <3>1. rs = {} \/ \E r \in rs : rs = {r}
        <4>1. \A r, q \in rs : r = q
          BY Basics DEF HistInv, MergeUnique, Heads, NoMerge
        <4> QED BY <4>1
      <3>2. Cardinality({}) = 0
        BY FS_EmptySet
      <3>3. \A r : Cardinality({r}) = 1
        BY FS_Singleton
      <3>4. Cardinality(rs) = 0 \/ Cardinality(rs) = 1
        BY <3>1, <3>2, <3>3
      <3> QED BY <3>4
    <2>3. ReceiptsAreTrue
      <3> SUFFICES ASSUME NEW h \in Heads
          PROVE  /\ receipts[h].outcome = "committed" => MergedAt(h) = receipts[h].revision
                 /\ receipts[h].outcome = "no_change" =>
                      /\ MergedAt(h) = 0
                      /\ Carries(main[receipts[h].revision].graph, h, Mandatory(h, receipts[h].revision))
        BY DEF ReceiptsAreTrue
      <3>1. CASE receipts[h] = NoReceipt
        BY <3>1 DEF NoReceipt
      <3>2. CASE receipts[h] # NoReceipt
        BY <3>2, Basics DEF HistInv, ReceiptInv, Vouches
      <3> QED BY <3>1, <3>2
    <2>4. SuccessIsOnRecord
      BY Basics DEF SuccessIsOnRecord, TaskInv
    <2> QED BY <2>1, <2>2, <2>3, <2>4 DEF MergesAreOnRecord
  <1> QED BY <1>1, InvAlways, PTL

(* Although branch and main are read without a lock, a merge patch takes every
   change of the branch that main does not contradict and leaves alone what the
   branch did not change (validate_branch_merge_candidate_conformance). *)
THEOREM MergesKeepBothSides == BMSpec => []MergeKeepsBothSides
  <1>1. MergeInv => MergeKeepsBothSides
    BY DEF MergeInv, HistInv
  <1> QED BY <1>1, InvAlways, PTL

(* The merge of a head is decided once and the decision stands: what a reader
   of the branch is told of it only ever goes from open to one outcome
   (_read_branch_snapshot, commit_branch_merge_with_history). *)
THEOREM MergesAreDecidedOnce == BMSpec => ResolutionSpec
  <1>1. BMInit => Resolution!ResolutionInit
    BY InvInit DEF Resolution!ResolutionInit, Resolution!Open, Standing, Undecided
  <1>2. MergeInv /\ [BMNext]_bmVars =>
          [Resolution!ResolutionNext]_([h \in Heads |->
             LET x == _read_branch_snapshot(h) IN
             [outcome |-> IF x = NoReceipt THEN "open" ELSE x.outcome, revision |-> x.revision]])
    <2> SUFFICES ASSUME Decides
        PROVE  [Resolution!ResolutionNext]_([h \in Heads |->
                  LET x == _read_branch_snapshot(h) IN
                  [outcome |-> IF x = NoReceipt THEN "open" ELSE x.outcome, revision |-> x.revision]])
      BY InvStep
    <2>1. CASE Standing' = Standing
      BY <2>1 DEF Standing
    <2>2. ASSUME NEW h \in Heads, Standing[h] = Undecided,
                 Standing'[h] \in [outcome : {"committed", "no_change"}, revision : MainRevisions],
                 Standing' = [Standing EXCEPT ![h] = Standing'[h]]
          PROVE  Resolution!ResolutionNext
      <3>1. Resolution!Decide(h)
        BY <2>2 DEF Resolution!Decide, Resolution!Open, Resolution!Decisions, Standing, Undecided
      <3> QED BY <3>1 DEF Resolution!ResolutionNext
    <2> QED BY <2>1, <2>2 DEF Decides
  <1> QED BY <1>1, <1>2, InvAlways, PTL DEF BMSpec, ResolutionSpec, Resolution!ResolutionSpec
=============================================================================
