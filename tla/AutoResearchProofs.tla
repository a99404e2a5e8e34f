------------------------- MODULE AutoResearchProofs -------------------------
(***************************************************************************)
(* For any number of turns, commands, invocations, recoveries and events:  *)
(* the ledger of an Auto-research episode is exact, its endings are        *)
(* earned, what was handed over stays so, and it is an episode as          *)
(* EpisodeLifecycle promises one.                                          *)
(***************************************************************************)
EXTENDS AutoResearch, FiniteSetTheorems, SequenceTheorems, WellFoundedInduction, TLAPS

Episode == [status : {"none"} \cup _LIVE_EPISODE_STATUSES \cup Ended,
            ending : {"none"} \cup Endings, stop : BOOLEAN, used : Nat, ceiling : 0..Ceiling,
            bound : BOOLEAN, problem : BOOLEAN, last : Ops \cup {NoOp},
            wrap : {"not_started", "pending", "running", "ready", "failed", "skipped"},
            attempts : Nat, concluding : Ops \cup {NoOp}]
ReportRow == [row : {"none", "queued", "running", "paused", "interrupted", "failed", "succeeded"},
              step : {"none", "prepare", "launch", "call"},
              attempt : {"none", "queued", "running"}, output : Nat, calls : Nat, published : Nat]
TaskRow == [role : {"none", "orchestrator", "work"},
            status : {"none", "succeeded"} \cup LiveRow \cup Recoverable,
            recovers : Ops \cup {NoOp}, alloc : Ops \cup {NoOp}, key : Keys \cup {0}, auto : BOOLEAN,
            session : BOOLEAN, abandoned : BOOLEAN, structural : BOOLEAN]
Command == [verb : Verbs \cup {"none"}, of : 0..MaxKeys, by : Ops \cup {NoOp},
            exit : {"none", "ok", "invalid", "unavailable"},
            adm : {"none", "accepted", "reflected", "cancelled"},
            receipt : {"none", "taken", "blocked", "completed"}]
Recovery == [status : {"none", "pending", "admitted", "blocked", "exhausted"},
             op : Ops \cup {NoOp}, attempts : 0..max_attempts, admitted : Ops \cup {NoOp}]
PassNames == {"reports", "children", "orphans", "lifecycle", "mail", "episode", "recover", "serve",
              "settle", "stop"}
Carried == [rest : Seq(PassNames),
            pc : {"next", "answer", "claim", "fence", "retry", "stop", "complete", "failed"},
            at : Nat, op : Ops \cup {NoOp}, as : {"none", "ok", "invalid"},
            notices : SUBSET Ops, letters : SUBSET Messages]
Service == [step : {"idle", "prove", "guard", "execute", "answer"}, key : Keys \cup {0},
            fresh : BOOLEAN, out : {"none", "ok", "invalid", "unavailable"}]

Route == [op : Ops \cup {NoOp}, stop : BOOLEAN]
Notice == [state : {"none", "pending", "delivered", "acknowledged"}, by : Nat]

(* The episode's record and its hidden report. *)
RecordOK(x, y) ==
    /\ x.status = "none" => x = NoEpisode
    /\ x.status # "none" => x.used <= x.ceiling
    /\ x.status \in {"none", "running", "stopping"} => x.ending = "none" /\ x.wrap = "not_started"
    /\ x.status \in {"wrapping_up"} \cup Ended => x.ending \in Endings
    /\ x.stop <=> x.status \in {"stopping", "stopped"}
    /\ x.ending = "stopped" <=> x.status = "stopped"
    /\ x.wrap \in {"pending", "running"} => x.status = "wrapping_up"
    /\ y.step # "none" => x.wrap \in {"pending", "running"}

(* What is said of rows, recoveries and threads is said of any value of theirs, so that a step
   that writes several of them can be followed one write at a time. *)
IsTurn(rows, o) == rows[o].role = "orchestrator"
Live(rows, o) == rows[o].status \in LiveRow
Leafless(rows, o) == \A c \in Ops : rows[c].recovers # o

(* A recovery continues a row that is over, on the payment of the row at the head of its line. *)
RowOK(rows, o) ==
    /\ rows[o].status = "none" => rows[o] = NoTask
    /\ rows[o].status # "none" => rows[o].role # "none"
    /\ rows[o].auto => IsTurn(rows, o) /\ rows[o].recovers # NoOp
    /\ rows[o].abandoned => rows[o].status \in Recoverable
    /\ rows[o].structural => rows[o].status = "failed"
    /\ rows[o].status # "none" /\ rows[o].recovers = NoOp => rows[o].alloc = o
    /\ rows[o].recovers # NoOp =>
         LET p == rows[rows[o].recovers]
         IN  /\ p.status \in Recoverable /\ p.role = rows[o].role /\ p.alloc = rows[o].alloc
             /\ rows[o].alloc \in Ops /\ rows[rows[o].alloc].status # "none"
             /\ rows[rows[o].alloc].recovers = NoOp /\ ~Leafless(rows, rows[o].alloc)

(* Rows are numbered as they come; a line of turns does not fork, and one turn is live. *)
RowInv(rows) ==
    /\ \E n \in 0..MaxOps : \A o \in Ops : rows[o].status # "none" <=> o <= n
    /\ \A o \in Ops : RowOK(rows, o)
    /\ \A o, p \in Ops : IsTurn(rows, o) /\ IsTurn(rows, p) =>
         /\ rows[o].recovers = rows[p].recovers /\ rows[o].recovers # NoOp => o = p
         /\ rows[o].alloc = rows[p].alloc /\ Leafless(rows, o) /\ Leafless(rows, p) => o = p
         /\ Live(rows, o) /\ Live(rows, p) => o = p
    /\ \A o \in Ops : IsTurn(rows, o) =>
         \E m \in Ops : IsTurn(rows, m) /\ \A p \in Ops : IsTurn(rows, p) => p <= m

(* What was paid is what the episode counts. *)
Paid(rows) == {o \in Ops : rows[o].status # "none" /\ rows[o].recovers = NoOp}
PaidInv(x, rows) ==
    /\ Cardinality(Paid(rows)) = x.used
    /\ x.status = "none" => \A o \in Ops : rows[o].status = "none"
    /\ x.status # "none" => \E o \in Ops : IsTurn(rows, o)

(* A Spawn, its route and the row it paid for. *)
PaidWork(rows, o) == rows[o].role = "work" /\ rows[o].recovers = NoOp
SpawnInv(rows, cs, ws) ==
    /\ \A k \in Keys : cs[k].adm # "none" => cs[k].verb = "spawn"
    /\ \A k \in Keys : cs[k].adm = "reflected" <=> ws[k].op # NoOp
    /\ \A k \in Keys : ws[k].op # NoOp =>
         rows[ws[k].op].role = "work" /\ \E o \in Ops : PaidWork(rows, o) /\ rows[o].key = k
    /\ \A o \in Ops : PaidWork(rows, o) => rows[o].key \in Keys /\ ws[rows[o].key].op # NoOp
    /\ \A o, p \in Ops : PaidWork(rows, o) /\ PaidWork(rows, p) /\ rows[o].key = rows[p].key => o = p
    /\ \A o \in Ops : rows[o].role = "work" /\ Live(rows, o) => \E k \in Keys : ws[k].op = o

(* Commands, the one being served and the ones that threads answer. *)
Answerable(x, c, out) ==
    out = "ok" => /\ c.verb = "spawn" => c.adm = "reflected"
                  /\ c.verb = "finish" => x.ending = "completed"
CommandOK(x, c) ==
    /\ c.by = NoOp => c = NoCommand
    /\ Answerable(x, c, c.exit)
    /\ c.verb = "finish" /\ c.receipt \in {"taken", "completed"} => x.ending = "completed"
Serves(x, cs, ca) ==
    /\ ca.step # "idle" => ca.key \in Keys /\ cs[ca.key].by # NoOp
    /\ ca.step = "answer" => Answerable(x, cs[ca.key], ca.out)
Redrives(cs, y) ==
    y.pc = "answer" => y.at \in Keys /\ cs[y.at].by # NoOp /\ (y.as = "ok" => cs[y.at].adm = "reflected")
CommandInv(x, cs, ca, ths) ==
    /\ \A k \in Keys : CommandOK(x, cs[k])
    /\ Serves(x, cs, ca)
    /\ \A t \in Threads : Redrives(cs, ths[t])

NoticeInv(rows, ns) == \A o \in Ops : rows[o].status \in {"none"} \cup LiveRow => ns[o].state = "none"

(* A paid invocation whose turn a person retried, and how an episode ends. *)
RetriedIn(rows, a) == \E o \in Ops : IsTurn(rows, o) /\ rows[o].alloc = a /\ rows[o].recovers # NoOp /\ ~rows[o].auto
EndInv(x, rows, cs, ns) ==
    /\ x.ending = "completed" =>
         /\ \A o \in Ops : ns[o].state # "pending" /\ (Live(rows, o) => IsTurn(rows, o))
         /\ \A k \in Keys : cs[k].adm # "accepted"
    /\ x.ending = "exhausted" =>
         \A o \in Ops : IsTurn(rows, o) /\ Live(rows, o) => RetriedIn(rows, rows[o].alloc)
    /\ x.ending = "stopped" => \A o \in Ops : IsTurn(rows, o) => ~Live(rows, o)
    /\ x.wrap \in {"pending", "running"} => \A o \in Ops : ~Live(rows, o)

(* The passes a thread has left: it settles one turn once, and looks for orphans before it
   recovers and before the process serves. *)
Has(s, pass) == \E i \in DOMAIN s : s[i] = pass
Ordered(s) == \A i, j \in DOMAIN s :
    /\ s[i] = "settle" /\ s[j] = "settle" => i = j
    /\ s[i] \in {"recover", "serve"} /\ s[j] = "orphans" => j < i
Left(ths, t, pass) == Has(ths[t].rest, pass)

(* A turn that a recovery may take further. *)
Failed(rows, o) == IsTurn(rows, o) /\ rows[o].status \in {"failed", "interrupted"} /\ ~rows[o].structural
RecoveryOK(rows, r, a) ==
    /\ r.op # NoOp => Failed(rows, r.op) /\ rows[r.op].alloc = a
    /\ r.admitted # NoOp => IsTurn(rows, r.admitted) /\ rows[r.admitted].alloc = a
    /\ r.status = "none" => r = NoRecovery
    /\ r.status = "pending" => r.attempts < max_attempts /\ r.op # NoOp /\ r.admitted = NoOp
RecoveryInv(rows, recs) == \A a \in Ops : RecoveryOK(rows, recs[a], a)

(* Only the poller recovers, and what it looked at is a turn that failed. *)
Recovers(x) == x.pc \in {"retry", "stop", "complete", "failed"}
LookOK(rows, x) ==
    /\ x.at \in Ops /\ x.op \in Ops /\ Failed(rows, x.op) /\ rows[x.op].alloc = x.at
    /\ x.pc = "complete" => ~Leafless(rows, x.op)
LookInv(rows, ths) == \A t \in Threads : Recovers(ths[t]) => t = Poller /\ LookOK(rows, ths[t])

(* Only a turn's own thread settles it; while orphans are looked for, every turn that is live
   or not yet settled is at the head of its line. *)
PassInv(rows, ths, started) ==
    /\ \A t \in Threads : Ordered(ths[t].rest)
    /\ \A t \in Threads : Left(ths, t, "recover") \/ Left(ths, t, "orphans") \/ Left(ths, t, "serve") => t = Poller
    /\ \A t \in Threads : Left(ths, t, "settle") => t \in Ops /\ IsTurn(rows, t) /\ ~Live(rows, t)
    /\ Left(ths, Poller, "orphans") =>
         /\ started = "starting" /\ ~Recovers(ths[Poller])
         /\ \A o \in Ops : IsTurn(rows, o) /\ (Live(rows, o) \/ Left(ths, o, "settle")) =>
              rows[o].recovers = NoOp

(* A retry under way is of a turn that nobody has given up. *)
Retrying(ths, o) == ths[Poller].pc = "retry" /\ ths[Poller].op = o
RetryInv(rows, recs, ths) ==
    /\ \A o \in Ops : Left(ths, o, "settle") /\ recs[rows[o].alloc].op = o => rows[o].recovers = NoOp
    /\ \A o \in Ops : Retrying(ths, o) /\ Leafless(rows, o) /\ ~rows[o].abandoned =>
         LET r == recs[rows[o].alloc] IN
         /\ r.admitted # o
         /\ IF r.op = o THEN r.status = "pending" ELSE ~Left(ths, o, "settle")

(* Automatic recoveries that were made or are being made, by the turn they recover. *)
AutoRows(rows, a) == {o \in Ops : rows[o].alloc = a /\ rows[o].auto}
Attempted(rows, ths, a) ==
    {rows[c].recovers : c \in AutoRows(rows, a)} \cup {o \in Ops : Retrying(ths, o) /\ rows[o].alloc = a}
AttemptOK(r, s) ==
    /\ r.status = "none" => s = {}
    /\ r.status = "pending" => Cardinality(s \cup {r.op}) <= r.attempts + 1
    /\ r.status = "admitted" => Cardinality(s \cup {r.op}) <= r.attempts
    /\ Cardinality(s) <= max_attempts
AttemptInv(rows, recs, ths) == \A a \in Ops : AttemptOK(recs[a], Attempted(rows, ths, a))

(* What stays so after the look that found every turn over. *)
OverFor(rows, recs, ths, o) ==
    \/ ~Leafless(rows, o) \/ rows[o].abandoned \/ rows[o].structural \/ rows[o].status = "succeeded"
    \/ /\ rows[o].status \in {"failed", "interrupted"} /\ ~Retrying(ths, o)
       /\ recs[rows[o].alloc].status \in {"blocked", "exhausted"}
AllOver(rows, recs, ths) ==
    \A o \in Ops : IsTurn(rows, o) => OverFor(rows, recs, ths, o) \/ RetriedIn(rows, rows[o].alloc)
Fences(ths) == \E t \in Threads : ths[t].pc = "fence"
FenceInv(rows, recs, ths) == Fences(ths) => AllOver(rows, recs, ths)

Lines(rows, recs, ths, started) ==
    /\ RecoveryInv(rows, recs) /\ LookInv(rows, ths) /\ PassInv(rows, ths, started)
    /\ RetryInv(rows, recs, ths) /\ AttemptInv(rows, recs, ths) /\ FenceInv(rows, recs, ths)

(* The ceiling that was found reached stays reached. *)
SpentInv(x, ths) == \A t \in Threads : ths[t].pc = "fence" =>
    ths[t].rest # <<>> /\ x.status # "none" /\ ~(x.used < x.ceiling)

(* All of it, of the episode, its report, the rows, the commands, the routes, the notices, the
   recoveries, the call being served, the threads and the state of the process. *)
All(x, y, rows, cs, ws, ns, recs, ca, ths, b) ==
    /\ x \in Episode /\ y \in ReportRow /\ rows \in [Ops -> TaskRow] /\ cs \in [Keys -> Command]
    /\ ws \in [Keys -> Route] /\ ns \in [Ops -> Notice] /\ recs \in [Ops -> Recovery] /\ ca \in Service
    /\ ths \in [Threads -> Carried] /\ b \in {"serving", "starting", "down"}
    /\ RecordOK(x, y) /\ RowInv(rows) /\ PaidInv(x, rows) /\ SpawnInv(rows, cs, ws)
    /\ CommandInv(x, cs, ca, ths) /\ NoticeInv(rows, ns) /\ EndInv(x, rows, cs, ns)
    /\ Lines(rows, recs, ths, b) /\ SpentInv(x, ths)

Shape ==
    /\ ep \in [Episodes -> Episode] /\ report \in [Episodes -> ReportRow]
    /\ mail \in [Messages -> [state : {"none", "pending", "delivered"}, by : Nat]]
    /\ plan.ceiling \in 1..Ceiling /\ plan.commands \in Seq([verb : Verbs, of : 0..MaxKeys])
    /\ Len(plan.commands) <= MaxKeys

IInv == Shape /\ All(ep[This], report[This], task, cmd, work, notice, rec, call, thr, boot)

-----------------------------------------------------------------------------
(* The least of a set of numbers, and the passes that a thread has left. *)
LEMMA LeastIn ==
    ASSUME NEW S, S \subseteq Nat, S # {}
    PROVE  Least(S) \in S
  <1>1. PICK x \in S : \A y \in S : ~(<<y, x>> \in OpToRel(<, Nat))
    BY NatLessThanWellFounded, WFMin, Zenon
  <1>2. OpToRel(<, Nat) = {q \in Nat \X Nat : q[1] < q[2]}
    BY Zenon DEF OpToRel
  <1>3. \A y \in S : ~(<<y, x>> \in {q \in Nat \X Nat : q[1] < q[2]})
    BY <1>1, <1>2, Zenon
  <1>4. ASSUME NEW y \in S
        PROVE  x <= y
    <2>1. x \in Nat /\ y \in Nat
      OBVIOUS
    <2>2. <<y, x>> \in Nat \X Nat /\ <<y, x>>[1] = y /\ <<y, x>>[2] = x
      BY <2>1
    <2>3. ~(y < x)
      BY <1>3, <2>2, Zenon
    <2> QED BY <2>1, <2>3
  <1> QED BY <1>1, <1>4 DEF Least

LEMMA Suffix ==
    ASSUME NEW s \in Seq(PassNames), Ordered(s), NEW i \in 1..(Len(s) + 1)
    PROVE  LET r == SubSeq(s, i, Len(s))
           IN  /\ r \in Seq(PassNames) /\ Ordered(r)
               /\ \A p \in PassNames : Has(r, p) => Has(s, p)
               /\ \A j \in DOMAIN s : i = j + 1 =>
                    /\ s[j] = "settle" => ~Has(r, "settle")
                    /\ s[j] \in {"recover", "serve"} => ~Has(r, "orphans")
  <1> DEFINE r == SubSeq(s, i, Len(s))
  <1>1. /\ r \in Seq(PassNames) /\ Len(r) = Len(s) - i + 1 /\ DOMAIN r = 1..Len(r) /\ DOMAIN s = 1..Len(s)
        /\ \A j \in 1..Len(r) : i + j - 1 \in DOMAIN s /\ r[j] = s[i + j - 1]
    <2>1. i \in Int /\ Len(s) \in Nat /\ DOMAIN s = 1..Len(s)
      OBVIOUS
    <2>2. /\ r \in Seq(PassNames) /\ Len(r) = Len(s) - i + 1
          /\ \A j \in 1..Len(r) : r[j] = s[i + j - 1]
      BY SMT
    <2> QED BY <2>1, <2>2
  <1> HIDE DEF r
  <1>2. Ordered(r)
    <2> SUFFICES ASSUME NEW j \in DOMAIN r, NEW k \in DOMAIN r
                 PROVE  /\ r[j] = "settle" /\ r[k] = "settle" => j = k
                        /\ r[j] \in {"recover", "serve"} /\ r[k] = "orphans" => k < j
      BY DEF Ordered
    <2>1. j \in Nat /\ k \in Nat /\ i \in Nat /\ i + j - 1 \in DOMAIN s /\ i + k - 1 \in DOMAIN s
      BY <1>1
    <2>2. r[j] = s[i + j - 1] /\ r[k] = s[i + k - 1]
      BY <1>1
    <2>3. i + j - 1 = i + k - 1 => j = k
      BY <2>1
    <2>4. i + k - 1 < i + j - 1 => k < j
      BY <2>1
    <2> QED BY <2>1, <2>2, <2>3, <2>4 DEF Ordered
  <1>3. \A p \in PassNames : Has(r, p) => Has(s, p)
    BY <1>1 DEF Has
  <1>4. ASSUME NEW j \in DOMAIN s, i = j + 1
        PROVE  /\ s[j] = "settle" => ~Has(r, "settle")
               /\ s[j] \in {"recover", "serve"} => ~Has(r, "orphans")
    <2> SUFFICES ASSUME NEW k \in DOMAIN r
                 PROVE  /\ s[j] = "settle" => r[k] # "settle"
                        /\ s[j] \in {"recover", "serve"} => r[k] # "orphans"
      BY DEF Has
    <2>1. i + k - 1 \in DOMAIN s /\ r[k] = s[i + k - 1] /\ k \in Nat /\ k >= 1 /\ j \in Nat /\ j < i + k - 1
      BY <1>1, <1>4
    <2> QED BY <2>1 DEF Ordered
  <1> QED BY <1>1, <1>2, <1>3, <1>4 DEF r

LEMMA EpisodeFirst ==
    ASSUME NEW s \in Seq(PassNames), Ordered(s)
    PROVE  LET r == <<"episode">> \o s
           IN  /\ r \in Seq(PassNames) /\ r # <<>> /\ Ordered(r)
               /\ \A p \in PassNames : p # "episode" => (Has(r, p) <=> Has(s, p))
  <1> DEFINE e == <<"episode">>
             r == e \o s
  <1>1. e \in Seq(PassNames) /\ Len(e) = 1 /\ e[1] = "episode"
    BY DEF PassNames
  <1> HIDE DEF e
  <1>2. /\ r \in Seq(PassNames) /\ Len(r) = 1 + Len(s) /\ DOMAIN r = 1..Len(r) /\ DOMAIN s = 1..Len(s)
        /\ r[1] = "episode" /\ Len(s) \in Nat
        /\ \A j \in 1..Len(s) : r[j + 1] = s[j]
    <2>1. /\ r \in Seq(PassNames) /\ Len(r) = Len(e) + Len(s)
          /\ \A j \in 1..(Len(e) + Len(s)) : r[j] = IF j <= Len(e) THEN e[j] ELSE s[j - Len(e)]
      BY <1>1, ConcatProperties
    <2>2. Len(s) \in Nat /\ DOMAIN s = 1..Len(s)
      OBVIOUS
    <2>3. DOMAIN r = 1..Len(r)
      BY <2>1, LenProperties
    <2> HIDE DEF r
    <2>4. 1 \in 1..(1 + Len(s)) /\ r[1] = e[1]
      BY <1>1, <2>1, <2>2
    <2>5. ASSUME NEW j \in 1..Len(s)
          PROVE  r[j + 1] = s[j]
      <3>1. j + 1 \in 1..(1 + Len(s)) /\ ~(j + 1 <= 1) /\ (j + 1) - 1 = j
        BY <2>2
      <3> QED BY <3>1, <2>1, <1>1
    <2> QED BY <1>1, <2>1, <2>2, <2>3, <2>4, <2>5
  <1> HIDE DEF r
  <1>3. ASSUME NEW j \in DOMAIN r
        PROVE  (j = 1 /\ r[j] = "episode") \/ (j - 1 \in DOMAIN s /\ r[j] = s[j - 1])
    <2>1. j \in Nat /\ j >= 1 /\ j <= 1 + Len(s)
      BY <1>2
    <2>2. CASE j = 1
      BY <2>2, <1>2
    <2>3. CASE j # 1
      <3>1. j - 1 \in 1..Len(s) /\ (j - 1) + 1 = j
        BY <2>1, <2>3
      <3> QED BY <3>1, <1>2
    <2> QED BY <2>2, <2>3
  <1>4. ASSUME NEW p \in PassNames, p # "episode"
        PROVE  Has(r, p) <=> Has(s, p)
    <2>1. Has(r, p) => Has(s, p)
      BY <1>3, <1>4 DEF Has
    <2>2. \A j \in DOMAIN s : j + 1 \in DOMAIN r
      BY <1>2
    <2>3. Has(s, p) => Has(r, p)
      BY <1>2, <2>2 DEF Has
    <2> QED BY <2>1, <2>3
  <1>5. Ordered(r)
    <2> SUFFICES ASSUME NEW j \in DOMAIN r, NEW k \in DOMAIN r
                 PROVE  /\ r[j] = "settle" /\ r[k] = "settle" => j = k
                        /\ r[j] \in {"recover", "serve"} /\ r[k] = "orphans" => k < j
      BY DEF Ordered
    <2>1. j \in Nat /\ k \in Nat
      BY <1>2
    <2>2. j - 1 \in DOMAIN s /\ k - 1 \in DOMAIN s /\ j - 1 = k - 1 => j = k
      BY <2>1
    <2>3. k - 1 < j - 1 => k < j
      BY <2>1
    <2> QED BY <1>3, <2>2, <2>3 DEF Ordered
  <1>6. r # <<>>
    BY <1>2
  <1> QED BY <1>2, <1>4, <1>5, <1>6 DEF r, e

-----------------------------------------------------------------------------
(* Rows that move on: a live one may end, one that is over may be abandoned. *)
Moved(x, y) ==
    /\ y.role = x.role /\ y.recovers = x.recovers /\ y.alloc = x.alloc /\ y.key = x.key /\ y.auto = x.auto
    /\ x.status \in {"none", "succeeded"} => y = x
    /\ x.status \in Recoverable =>
         y.status = x.status /\ y.structural = x.structural /\ (x.abandoned => y.abandoned)
    /\ x.status \in LiveRow => y.status # "none" /\ ~y.abandoned /\ (y.structural => y.status = "failed")
RowsMove(rows, next) == \A o \in Ops : Moved(rows[o], next[o])

LEMMA StaysAsItIs ==
    ASSUME NEW rows \in [Ops -> TaskRow], RowInv(rows), NEW o \in Ops
    PROVE  Moved(rows[o], rows[o])
  <1>1. rows[o].abandoned => rows[o].status \in Recoverable
    BY DEF RowInv, RowOK
  <1>2. rows[o].structural => rows[o].status = "failed"
    BY DEF RowInv, RowOK
  <1> QED BY <1>1, <1>2 DEF Moved, LiveRow, Recoverable

LEMMA MovedFacts ==
    ASSUME NEW rows \in [Ops -> TaskRow], NEW next \in [Ops -> TaskRow], RowsMove(rows, next)
    PROVE  /\ \A o \in Ops :
                /\ next[o].role = rows[o].role /\ next[o].recovers = rows[o].recovers
                /\ next[o].alloc = rows[o].alloc /\ next[o].key = rows[o].key /\ next[o].auto = rows[o].auto
                /\ next[o].status = "none" <=> rows[o].status = "none"
                /\ Live(next, o) => Live(rows, o)
                /\ rows[o].status \in Recoverable =>
                     /\ next[o].status = rows[o].status /\ next[o].structural = rows[o].structural
                     /\ rows[o].abandoned => next[o].abandoned
                /\ rows[o].status \in {"none", "succeeded"} => next[o] = rows[o]
                /\ IsTurn(next, o) <=> IsTurn(rows, o)
           /\ \A o \in Ops \cup {NoOp} : Leafless(next, o) <=> Leafless(rows, o)
           /\ Paid(next) = Paid(rows)
  <1>1. ASSUME NEW o \in Ops
        PROVE  /\ next[o].role = rows[o].role /\ next[o].recovers = rows[o].recovers
               /\ next[o].alloc = rows[o].alloc /\ next[o].key = rows[o].key /\ next[o].auto = rows[o].auto
               /\ next[o].status = "none" <=> rows[o].status = "none"
               /\ Live(next, o) => Live(rows, o)
               /\ rows[o].status \in Recoverable =>
                    /\ next[o].status = rows[o].status /\ next[o].structural = rows[o].structural
                    /\ rows[o].abandoned => next[o].abandoned
               /\ rows[o].status \in {"none", "succeeded"} => next[o] = rows[o]
               /\ IsTurn(next, o) <=> IsTurn(rows, o)
    <2>1. rows[o].status \in {"none", "succeeded"} \cup LiveRow \cup Recoverable
      BY DEF TaskRow
    <2>2. Moved(rows[o], next[o])
      BY DEF RowsMove
    <2> QED BY <2>1, <2>2 DEF Moved, Live, LiveRow, Recoverable, IsTurn
  <1>2. \A o \in Ops \cup {NoOp} : Leafless(next, o) <=> Leafless(rows, o)
    BY <1>1 DEF Leafless
  <1>3. Paid(next) = Paid(rows)
    BY <1>1 DEF Paid
  <1> QED BY <1>1, <1>2, <1>3

LEMMA RowsMoved ==
    ASSUME NEW rows \in [Ops -> TaskRow], NEW next \in [Ops -> TaskRow], RowInv(rows), RowsMove(rows, next)
    PROVE  RowInv(next)
  <1>1. \A o \in Ops :
          /\ next[o].role = rows[o].role /\ next[o].recovers = rows[o].recovers
          /\ next[o].alloc = rows[o].alloc /\ next[o].key = rows[o].key /\ next[o].auto = rows[o].auto
          /\ next[o].status = "none" <=> rows[o].status = "none"
          /\ Live(next, o) => Live(rows, o)
          /\ rows[o].status \in Recoverable => next[o].status = rows[o].status
          /\ IsTurn(next, o) <=> IsTurn(rows, o)
    BY MovedFacts
  <1>2. \A o \in Ops : Leafless(next, o) <=> Leafless(rows, o)
    BY MovedFacts
  <1>3. \E n \in 0..MaxOps : \A o \in Ops : next[o].status # "none" <=> o <= n
    BY <1>1 DEF RowInv
  <1>4. ASSUME NEW o \in Ops
        PROVE  RowOK(next, o)
    <2>1. RowOK(rows, o)
      BY DEF RowInv
    <2>2. Moved(rows[o], next[o]) /\ rows[o].status \in {"none", "succeeded"} \cup LiveRow \cup Recoverable
      BY DEF RowsMove, TaskRow
    <2>3. /\ next[o].status = "none" => next[o] = NoTask
          /\ next[o].status # "none" => next[o].role # "none"
          /\ next[o].auto => IsTurn(next, o) /\ next[o].recovers # NoOp
      BY <1>1, <2>1, <2>2 DEF RowOK, Moved
    <2>4. next[o].status \in {"none", "succeeded"} \cup LiveRow \cup Recoverable
      BY DEF TaskRow
    <2>5. /\ next[o].abandoned => next[o].status \in Recoverable
          /\ next[o].structural => next[o].status = "failed"
      BY <1>1, <2>1, <2>2, <2>4 DEF RowOK, Moved, LiveRow, Recoverable
    <2>6. next[o].status # "none" /\ next[o].recovers = NoOp => next[o].alloc = o
      BY <1>1, <2>1 DEF RowOK
    <2>7. ASSUME next[o].recovers # NoOp
          PROVE  LET p == next[next[o].recovers]
                 IN  /\ p.status \in Recoverable /\ p.role = next[o].role /\ p.alloc = next[o].alloc
                     /\ next[o].alloc \in Ops /\ next[next[o].alloc].status # "none"
                     /\ next[next[o].alloc].recovers = NoOp /\ ~Leafless(next, next[o].alloc)
      <3>1. rows[o].recovers # NoOp /\ next[o].recovers = rows[o].recovers /\ rows[o].recovers \in Ops
        BY <1>1, <2>7 DEF TaskRow
      <3>2. LET p == rows[rows[o].recovers]
            IN  /\ p.status \in Recoverable /\ p.role = rows[o].role /\ p.alloc = rows[o].alloc
                /\ rows[o].alloc \in Ops /\ rows[rows[o].alloc].status # "none"
                /\ rows[rows[o].alloc].recovers = NoOp /\ ~Leafless(rows, rows[o].alloc)
        BY <2>1, <3>1 DEF RowOK
      <3> QED BY <1>1, <1>2, <3>1, <3>2
    <2> QED BY <2>3, <2>5, <2>6, <2>7 DEF RowOK
  <1>5. \A o, p \in Ops : IsTurn(next, o) /\ IsTurn(next, p) =>
          /\ next[o].recovers = next[p].recovers /\ next[o].recovers # NoOp => o = p
          /\ next[o].alloc = next[p].alloc /\ Leafless(next, o) /\ Leafless(next, p) => o = p
          /\ Live(next, o) /\ Live(next, p) => o = p
    BY <1>1, <1>2 DEF RowInv
  <1>6. \A o \in Ops : IsTurn(next, o) =>
          \E m \in Ops : IsTurn(next, m) /\ \A p \in Ops : IsTurn(next, p) => p <= m
    BY <1>1 DEF RowInv
  <1> QED BY <1>3, <1>4, <1>5, <1>6 DEF RowInv

(* They stay in their lines. *)
LEMMA LinesMoved ==
    ASSUME NEW rows \in [Ops -> TaskRow], NEW next \in [Ops -> TaskRow], RowInv(rows), RowsMove(rows, next),
           NEW recs \in [Ops -> Recovery], NEW ths \in [Threads -> Carried], NEW b,
           Lines(rows, recs, ths, b)
    PROVE  Lines(next, recs, ths, b)
  <1>1. \A o \in Ops :
          /\ next[o].role = rows[o].role /\ next[o].recovers = rows[o].recovers
          /\ next[o].alloc = rows[o].alloc /\ next[o].auto = rows[o].auto
          /\ Live(next, o) => Live(rows, o)
          /\ rows[o].status \in Recoverable =>
               /\ next[o].status = rows[o].status /\ next[o].structural = rows[o].structural
               /\ rows[o].abandoned => next[o].abandoned
          /\ rows[o].status \in {"none", "succeeded"} => next[o] = rows[o]
          /\ IsTurn(next, o) <=> IsTurn(rows, o)
    BY MovedFacts
  <1>2. \A o \in Ops : Leafless(next, o) <=> Leafless(rows, o)
    BY MovedFacts
  <1>3. \A o \in Ops : Failed(rows, o) => Failed(next, o)
    BY <1>1 DEF Failed, Recoverable
  <1>4. RecoveryInv(next, recs)
    <2> SUFFICES ASSUME NEW a \in Ops PROVE RecoveryOK(next, recs[a], a)
      BY DEF RecoveryInv
    <2>1. recs[a].op \in Ops \cup {NoOp} /\ recs[a].admitted \in Ops \cup {NoOp}
      BY DEF Recovery
    <2>2. RecoveryOK(rows, recs[a], a)
      BY DEF Lines, RecoveryInv
    <2> QED BY <1>1, <1>3, <2>1, <2>2 DEF RecoveryOK
  <1>5. LookInv(next, ths)
    BY <1>1, <1>2, <1>3 DEF Lines, LookInv, LookOK
  <1>6. PassInv(next, ths, b)
    <2>1. PassInv(rows, ths, b)
      BY DEF Lines
    <2> QED BY <1>1, <2>1 DEF PassInv
  <1>7. RetryInv(next, recs, ths)
    <2>1. RetryInv(rows, recs, ths)
      BY DEF Lines
    <2>2. ASSUME NEW o \in Ops, Retrying(ths, o)
          PROVE  rows[o].abandoned => next[o].abandoned
      <3>1. Poller \in Threads /\ Recovers(ths[Poller]) /\ ths[Poller].op = o
        BY <2>2 DEF Retrying, Recovers, Threads, Poller
      <3>2. Failed(rows, o)
        BY <3>1 DEF Lines, LookInv, LookOK
      <3> QED BY <1>1, <3>2 DEF Failed, Recoverable
    <2> QED BY <1>1, <1>2, <2>1, <2>2 DEF RetryInv
  <1>8. AttemptInv(next, recs, ths)
    <2>1. \A a \in Ops : AutoRows(next, a) = AutoRows(rows, a)
      BY <1>1 DEF AutoRows
    <2>2. \A a \in Ops : Attempted(next, ths, a) = Attempted(rows, ths, a)
      BY <1>1, <2>1 DEF Attempted, AutoRows
    <2> QED BY <2>2 DEF Lines, AttemptInv
  <1>9. FenceInv(next, recs, ths)
    <2>1. \A a : RetriedIn(rows, a) => RetriedIn(next, a)
      BY <1>1 DEF RetriedIn
    <2>2. ASSUME NEW o \in Ops, OverFor(rows, recs, ths, o)
          PROVE  OverFor(next, recs, ths, o)
      <3>1. rows[o].abandoned => rows[o].status \in Recoverable
        BY DEF RowInv, RowOK
      <3>2. rows[o].structural => rows[o].status \in Recoverable
        BY DEF RowInv, RowOK, Recoverable
      <3> QED BY <1>1, <1>2, <2>2, <3>1, <3>2 DEF OverFor, Recoverable
    <2> QED BY <1>1, <2>1, <2>2 DEF Lines, FenceInv, AllOver
  <1> QED BY <1>4, <1>5, <1>6, <1>7, <1>8, <1>9 DEF Lines

-----------------------------------------------------------------------------
(* A row is added: paid for, or continuing one that is over. *)
IsLast(rows, c) == \A p \in Ops : rows[p].status # "none" <=> p < c
Added(rows, next, c, y) ==
    /\ IsLast(rows, c) /\ next = [rows EXCEPT ![c] = y]
    /\ y \in TaskRow /\ y.status = "live" /\ y.role # "none" /\ ~y.abandoned /\ ~y.structural
    /\ y.role = "orchestrator" => \A o \in Ops : IsTurn(rows, o) => ~Live(rows, o)
PaidFor(y, c) == y.recovers = NoOp /\ y.alloc = c /\ ~y.auto
Continues(rows, y, o) ==
    /\ y.recovers = o /\ rows[o].status \in Recoverable /\ y.role = rows[o].role /\ y.alloc = rows[o].alloc
    /\ y.auto => y.role = "orchestrator"
    /\ y.role = "orchestrator" => Leafless(rows, o)

LEMMA FreshIsLast ==
    ASSUME RowInv(task), NEW o \in Ops, Fresh(o)
    PROVE  IsLast(task, o)
  <1>1. PICK n \in 0..MaxOps : \A p \in Ops : task[p].status # "none" <=> p <= n
    BY DEF RowInv
  <1>2. Rows = 1..n
    BY <1>1, ReportAssumption DEF Rows, Ops
  <1>3. Cardinality(1..n) = n
    BY <1>1, FS_Interval, ReportAssumption
  <1>4. o = n + 1
    BY <1>2, <1>3 DEF Fresh
  <1>5. \A p \in Ops : p <= n <=> p < o
    BY <1>4, ReportAssumption DEF Ops
  <1> QED BY <1>1, <1>5 DEF IsLast

LEMMA AddedFacts ==
    ASSUME NEW rows \in [Ops -> TaskRow], RowInv(rows), NEW c \in Ops, NEW y, NEW next, Added(rows, next, c, y),
           PaidFor(y, c) \/ \E o \in Ops : Continues(rows, y, o)
    PROVE  /\ next \in [Ops -> TaskRow] /\ next[c] = y /\ rows[c] = NoTask
           /\ \A p \in Ops : p # c => next[p] = rows[p]
           /\ \A p \in Ops : rows[p].recovers # c /\ rows[p].alloc # c
           /\ y.recovers # c /\ Leafless(next, c) /\ ~IsTurn(rows, c)
           /\ y.recovers # NoOp => y.recovers \in Ops /\ Continues(rows, y, y.recovers)
           /\ y.recovers = NoOp => PaidFor(y, c)
           /\ \A p \in Ops : rows[p].status # "none" => p < c /\ p # c
  <1>1. next \in [Ops -> TaskRow] /\ next[c] = y /\ \A p \in Ops : p # c => next[p] = rows[p]
    BY DEF Added
  <1>2. rows[c].status = "none"
    BY DEF Added, IsLast, Ops
  <1>3. rows[c] = NoTask
    BY <1>2 DEF RowInv, RowOK
  <1>4. ASSUME NEW p \in Ops
        PROVE  rows[p].recovers # c /\ rows[p].alloc # c
    <2>1. RowOK(rows, p)
      BY DEF RowInv
    <2>2. CASE rows[p].status = "none"
      BY <2>1, <2>2 DEF RowOK, NoTask, NoOp, Ops
    <2>3. CASE rows[p].status # "none" /\ rows[p].recovers = NoOp
      <3>1. rows[p].alloc = p /\ p # c
        BY <1>2, <2>1, <2>3 DEF RowOK
      <3> QED BY <3>1, <2>3 DEF NoOp, Ops
    <2>4. CASE rows[p].recovers # NoOp
      <3>1. rows[rows[p].recovers].status \in Recoverable /\ rows[rows[p].alloc].status # "none"
        BY <2>1, <2>4 DEF RowOK
      <3> QED BY <3>1, <1>2 DEF Recoverable
    <2> QED BY <2>2, <2>3, <2>4
  <1>5. y.recovers # c
    <2>1. CASE PaidFor(y, c)
      BY <2>1 DEF PaidFor, NoOp, Ops
    <2>2. ASSUME NEW o \in Ops, Continues(rows, y, o)
          PROVE  y.recovers # c
      BY <2>2, <1>2 DEF Continues, Recoverable
    <2> QED BY <2>1, <2>2
  <1>6. Leafless(next, c)
    BY <1>1, <1>4, <1>5 DEF Leafless
  <1>7. ~IsTurn(rows, c)
    BY <1>3 DEF IsTurn, NoTask
  <1>8. /\ y.recovers # NoOp => y.recovers \in Ops /\ Continues(rows, y, y.recovers)
        /\ y.recovers = NoOp => PaidFor(y, c)
    BY DEF PaidFor, Continues, NoOp, Ops
  <1>9. \A p \in Ops : rows[p].status # "none" => p < c /\ p # c
    BY DEF Added, IsLast, Ops
  <1> QED BY <1>1, <1>3, <1>4, <1>5, <1>6, <1>7, <1>8, <1>9

LEMMA RowAdded ==
    ASSUME NEW rows \in [Ops -> TaskRow], RowInv(rows), NEW c \in Ops, NEW y, NEW next, Added(rows, next, c, y),
           PaidFor(y, c) \/ \E o \in Ops : Continues(rows, y, o)
    PROVE  RowInv(next)
  <1>1. /\ next \in [Ops -> TaskRow] /\ next[c] = y /\ rows[c] = NoTask
        /\ \A p \in Ops : p # c => next[p] = rows[p]
        /\ \A p \in Ops : rows[p].recovers # c /\ rows[p].alloc # c
        /\ y.recovers # c /\ Leafless(next, c) /\ ~IsTurn(rows, c)
        /\ y.recovers # NoOp => y.recovers \in Ops /\ Continues(rows, y, y.recovers)
        /\ y.recovers = NoOp => PaidFor(y, c)
        /\ \A p \in Ops : rows[p].status # "none" => p < c /\ p # c
    BY AddedFacts
  <1>2. /\ y \in TaskRow /\ y.status = "live" /\ y.role # "none" /\ ~y.abandoned /\ ~y.structural
        /\ IsLast(rows, c)
        /\ y.role = "orchestrator" => \A o \in Ops : IsTurn(rows, o) => ~Live(rows, o)
    BY DEF Added
  <1>3. \E n \in 0..MaxOps : \A o \in Ops : next[o].status # "none" <=> o <= n
    <2>1. \A o \in Ops : next[o].status # "none" <=> o <= c
      <3> SUFFICES ASSUME NEW o \in Ops PROVE next[o].status # "none" <=> o <= c
        OBVIOUS
      <3>1. CASE o = c
        BY <1>1, <1>2, <3>1 DEF Ops
      <3>2. CASE o # c
        <4>1. o <= c <=> o < c
          BY <3>2 DEF Ops
        <4> QED BY <1>1, <1>2, <3>2, <4>1 DEF IsLast
      <3> QED BY <3>1, <3>2
    <2>2. c \in 0..MaxOps
      BY DEF Ops
    <2> QED BY <2>1, <2>2
  <1>4. \A o \in Ops : ~Leafless(rows, o) => ~Leafless(next, o)
    BY <1>1 DEF Leafless, NoTask, NoOp, Ops
  <1>5. y.recovers # NoOp => ~Leafless(next, y.recovers)
    BY <1>1 DEF Leafless
  <1>6. ASSUME NEW o \in Ops, o # c
        PROVE  RowOK(next, o)
    <2>1. RowOK(rows, o) /\ next[o] = rows[o]
      BY <1>1, <1>6 DEF RowInv
    <2>2. ASSUME rows[o].recovers # NoOp
          PROVE  LET p == next[next[o].recovers]
                 IN  /\ p.status \in Recoverable /\ p.role = next[o].role /\ p.alloc = next[o].alloc
                     /\ next[o].alloc \in Ops /\ next[next[o].alloc].status # "none"
                     /\ next[next[o].alloc].recovers = NoOp /\ ~Leafless(next, next[o].alloc)
      <3>1. rows[o].recovers \in Ops /\ rows[o].recovers # c /\ rows[o].alloc # c
        BY <1>1, <2>2 DEF TaskRow
      <3>2. LET p == rows[rows[o].recovers]
            IN  /\ p.status \in Recoverable /\ p.role = rows[o].role /\ p.alloc = rows[o].alloc
                /\ rows[o].alloc \in Ops /\ rows[rows[o].alloc].status # "none"
                /\ rows[rows[o].alloc].recovers = NoOp /\ ~Leafless(rows, rows[o].alloc)
        BY <2>1, <2>2 DEF RowOK
      <3> QED BY <1>1, <1>4, <2>1, <3>1, <3>2
    <2> QED BY <2>1, <2>2 DEF RowOK, IsTurn
  <1>7. RowOK(next, c)
    <2>1. /\ next[c].status = "none" => next[c] = NoTask
          /\ next[c].status # "none" => next[c].role # "none"
          /\ next[c].abandoned => next[c].status \in Recoverable
          /\ next[c].structural => next[c].status = "failed"
      BY <1>1, <1>2
    <2>2. CASE y.recovers = NoOp
      BY <1>1, <2>1, <2>2 DEF RowOK, PaidFor
    <2>3. CASE y.recovers # NoOp
      <3> DEFINE o == y.recovers
      <3>1. o \in Ops /\ Continues(rows, y, o) /\ o # c /\ RowOK(rows, o) /\ next[o] = rows[o]
        BY <1>1, <2>3 DEF RowInv
      <3>2. rows[o].status \in Recoverable /\ y.role = rows[o].role /\ y.alloc = rows[o].alloc
        BY <3>1 DEF Continues
      <3>3. next[c].auto => IsTurn(next, c) /\ next[c].recovers # NoOp
        BY <1>1, <2>3, <3>1 DEF Continues, IsTurn
      <3>4. /\ y.alloc \in Ops /\ rows[y.alloc].status # "none" /\ rows[y.alloc].recovers = NoOp
            /\ ~Leafless(next, y.alloc)
        <4>1. CASE rows[o].recovers = NoOp
          BY <1>5, <2>3, <3>1, <3>2, <4>1 DEF RowOK, Recoverable
        <4>2. CASE rows[o].recovers # NoOp
          BY <1>4, <3>1, <3>2, <4>2 DEF RowOK
        <4> QED BY <4>1, <4>2
      <3>5. next[y.alloc] = rows[y.alloc]
        BY <1>1, <3>1, <3>2, <3>4
      <3> QED BY <1>1, <2>1, <2>3, <3>1, <3>2, <3>3, <3>4, <3>5 DEF RowOK
    <2> QED BY <2>2, <2>3
  <1>8. ASSUME NEW o \in Ops, NEW p \in Ops, IsTurn(next, o), IsTurn(next, p)
        PROVE  /\ next[o].recovers = next[p].recovers /\ next[o].recovers # NoOp => o = p
               /\ next[o].alloc = next[p].alloc /\ Leafless(next, o) /\ Leafless(next, p) => o = p
               /\ Live(next, o) /\ Live(next, p) => o = p
    <2>1. CASE o # c /\ p # c
      <3>1. IsTurn(rows, o) /\ IsTurn(rows, p) /\ next[o] = rows[o] /\ next[p] = rows[p]
        BY <1>1, <1>8, <2>1 DEF IsTurn
      <3>2. Leafless(next, o) => Leafless(rows, o)
        BY <1>4
      <3>3. Leafless(next, p) => Leafless(rows, p)
        BY <1>4
      <3> QED BY <3>1, <3>2, <3>3 DEF RowInv, Live
    <2>2. ASSUME NEW q \in Ops, q # c, IsTurn(next, q), IsTurn(next, c)
          PROVE  /\ ~(next[c].recovers = next[q].recovers /\ next[c].recovers # NoOp)
                 /\ ~(next[c].alloc = next[q].alloc /\ Leafless(next, c) /\ Leafless(next, q))
                 /\ ~(Live(next, c) /\ Live(next, q))
      <3>1. next[q] = rows[q] /\ IsTurn(rows, q) /\ y.role = "orchestrator" /\ rows[q].alloc # c
        BY <1>1, <2>2 DEF IsTurn
      <3>2. ~(Live(next, c) /\ Live(next, q))
        BY <1>2, <3>1 DEF Live
      <3>3. CASE y.recovers = NoOp
        BY <1>1, <3>1, <3>2, <3>3 DEF PaidFor
      <3>4. CASE y.recovers # NoOp
        <4>1. y.recovers \in Ops /\ Leafless(rows, y.recovers) /\ y.alloc = rows[y.recovers].alloc
              /\ IsTurn(rows, y.recovers)
          BY <1>1, <3>1, <3>4 DEF Continues, IsTurn
        <4>2. ~(next[c].recovers = next[q].recovers)
          BY <1>1, <3>1, <4>1 DEF Leafless
        <4>3. next[c].alloc = next[q].alloc /\ Leafless(next, q) => q = y.recovers
          <5>1. Leafless(next, q) => Leafless(rows, q)
            BY <1>4
          <5> QED BY <1>1, <3>1, <4>1, <5>1 DEF RowInv
        <4>4. ~Leafless(next, y.recovers)
          BY <1>5, <3>4
        <4> QED BY <3>2, <4>2, <4>3, <4>4
      <3> QED BY <3>3, <3>4
    <2>3. CASE o = c /\ p # c
      BY <1>8, <2>2, <2>3
    <2>4. CASE o # c /\ p = c
      <3>1. /\ ~(next[c].recovers = next[o].recovers /\ next[c].recovers # NoOp)
            /\ ~(next[c].alloc = next[o].alloc /\ Leafless(next, c) /\ Leafless(next, o))
            /\ ~(Live(next, c) /\ Live(next, o))
        BY <1>8, <2>2, <2>4
      <3> QED BY <2>4, <3>1
    <2> QED BY <2>1, <2>3, <2>4
  <1>9. ASSUME NEW o \in Ops, IsTurn(next, o)
        PROVE  \E m \in Ops : IsTurn(next, m) /\ \A p \in Ops : IsTurn(next, p) => p <= m
    <2>1. CASE IsTurn(next, c)
      <3>1. ASSUME NEW p \in Ops, IsTurn(next, p)
            PROVE  p <= c
        <4>1. CASE p = c
          BY <4>1 DEF Ops
        <4>2. CASE p # c
          <5>1. next[p] = rows[p] /\ rows[p].role = "orchestrator"
            BY <1>1, <3>1, <4>2 DEF IsTurn
          <5>2. rows[p].status # "none"
            BY <5>1 DEF RowInv, RowOK, NoTask
          <5> QED BY <1>1, <5>2 DEF Ops
        <4> QED BY <4>1, <4>2
      <3> QED BY <2>1, <3>1
    <2>2. CASE ~IsTurn(next, c)
      <3>1. \A p \in Ops : IsTurn(next, p) <=> IsTurn(rows, p)
        BY <1>1, <2>2 DEF IsTurn
      <3> QED BY <1>9, <3>1 DEF RowInv
    <2> QED BY <2>1, <2>2
  <1>10. \A o \in Ops : RowOK(next, o)
    BY <1>6, <1>7
  <1> QED BY <1>3, <1>8, <1>9, <1>10 DEF RowInv

(* What is paid for is counted. *)
LEMMA PaidAdded ==
    ASSUME NEW rows \in [Ops -> TaskRow], RowInv(rows), NEW c \in Ops, NEW y, NEW next, Added(rows, next, c, y),
           PaidFor(y, c) \/ \E o \in Ops : Continues(rows, y, o)
    PROVE  Cardinality(Paid(next)) = IF y.recovers = NoOp THEN Cardinality(Paid(rows)) + 1
                                     ELSE Cardinality(Paid(rows))
  <1>1. /\ next[c] = y /\ rows[c] = NoTask /\ \A p \in Ops : p # c => next[p] = rows[p]
    BY AddedFacts
  <1>2. y.status = "live"
    BY DEF Added
  <1>3. CASE y.recovers = NoOp
    <2>1. Paid(next) = Paid(rows) \cup {c}
      BY <1>1, <1>2, <1>3 DEF Paid
    <2>2. c \notin Paid(rows)
      BY <1>1 DEF Paid, NoTask
    <2>3. IsFiniteSet(Ops)
      BY FS_Interval, ReportAssumption DEF Ops
    <2>4. IsFiniteSet(Paid(rows))
      BY <2>3, FS_Subset DEF Paid
    <2> QED BY <1>3, <2>1, <2>2, <2>4, FS_AddElement
  <1>4. CASE y.recovers # NoOp
    <2>1. Paid(next) = Paid(rows)
      BY <1>1, <1>2, <1>4 DEF Paid, NoTask
    <2> QED BY <1>4, <2>1
  <1> QED BY <1>3, <1>4

(* A row that is added joins its line; an automatic recovery was being made. *)
LEMMA LinesAdded ==
    ASSUME NEW rows \in [Ops -> TaskRow], RowInv(rows), NEW c \in Ops, NEW y, NEW next, Added(rows, next, c, y),
           PaidFor(y, c) \/ \E o \in Ops : Continues(rows, y, o),
           NEW recs \in [Ops -> Recovery], NEW ths \in [Threads -> Carried], NEW b,
           Lines(rows, recs, ths, b),
           y.role = "orchestrator" =>
             /\ y.recovers = NoOp => ~Fences(ths)
             /\ y.recovers # NoOp => ~Left(ths, Poller, "orphans")
             /\ y.auto => Retrying(ths, y.recovers) /\ ~rows[y.recovers].abandoned
    PROVE  Lines(next, recs, ths, b)
  <1>1. /\ next \in [Ops -> TaskRow] /\ next[c] = y /\ rows[c] = NoTask
        /\ \A p \in Ops : p # c => next[p] = rows[p]
        /\ \A p \in Ops : rows[p].recovers # c /\ rows[p].alloc # c
        /\ y.recovers # c /\ Leafless(next, c) /\ ~IsTurn(rows, c)
        /\ y.recovers # NoOp => y.recovers \in Ops /\ Continues(rows, y, y.recovers)
        /\ y.recovers = NoOp => PaidFor(y, c)
    BY AddedFacts
  <1>2. y \in TaskRow /\ y.status = "live" /\ y.role # "none" /\ ~y.abandoned /\ ~y.structural
    BY DEF Added
  <1>3. \A o \in Ops : IsTurn(rows, o) => o # c /\ next[o] = rows[o] /\ IsTurn(next, o)
    BY <1>1 DEF IsTurn
  <1>4. \A o \in Ops : Failed(rows, o) => Failed(next, o)
    BY <1>3 DEF Failed
  <1>5. \A o \in Ops : ~Leafless(rows, o) => ~Leafless(next, o)
    BY <1>1 DEF Leafless, NoTask, NoOp, Ops
  <1>6. y.recovers # NoOp => ~Leafless(next, y.recovers)
    BY <1>1 DEF Leafless
  <1>7. RecoveryInv(next, recs)
    <2> SUFFICES ASSUME NEW a \in Ops PROVE RecoveryOK(next, recs[a], a)
      BY DEF RecoveryInv
    <2>1. recs[a].op \in Ops \cup {NoOp} /\ recs[a].admitted \in Ops \cup {NoOp}
      BY DEF Recovery
    <2>2. RecoveryOK(rows, recs[a], a)
      BY DEF Lines, RecoveryInv
    <2>3. recs[a].op # NoOp => Failed(next, recs[a].op) /\ next[recs[a].op].alloc = a
      BY <1>3, <1>4, <2>1, <2>2 DEF RecoveryOK, Failed
    <2>4. recs[a].admitted # NoOp => IsTurn(next, recs[a].admitted) /\ next[recs[a].admitted].alloc = a
      BY <1>3, <2>1, <2>2 DEF RecoveryOK
    <2> QED BY <2>2, <2>3, <2>4 DEF RecoveryOK
  <1>8. LookInv(next, ths)
    <2> SUFFICES ASSUME NEW t \in Threads, Recovers(ths[t])
                 PROVE  t = Poller /\ LookOK(next, ths[t])
      BY DEF LookInv
    <2>1. t = Poller /\ LookOK(rows, ths[t])
      BY DEF Lines, LookInv
    <2> QED BY <1>3, <1>4, <1>5, <2>1 DEF LookOK, Failed
  <1>9. PassInv(next, ths, b)
    <2>1. PassInv(rows, ths, b)
      BY DEF Lines
    <2>2. ASSUME NEW t \in Threads, Left(ths, t, "settle")
          PROVE  t \in Ops /\ IsTurn(next, t) /\ ~Live(next, t)
      BY <1>3, <2>1, <2>2 DEF PassInv, Live
    <2>3. ASSUME Left(ths, Poller, "orphans"),
                 NEW o \in Ops, IsTurn(next, o), Live(next, o) \/ Left(ths, o, "settle")
          PROVE  next[o].recovers = NoOp
      <3>1. CASE o = c
        BY <1>1, <2>3, <3>1 DEF IsTurn
      <3>2. CASE o # c
        BY <1>1, <2>1, <2>3, <3>2 DEF PassInv, IsTurn, Live
      <3> QED BY <3>1, <3>2
    <2> QED BY <2>1, <2>2, <2>3 DEF PassInv
  <1>10. RetryInv(next, recs, ths)
    <2>1. RetryInv(rows, recs, ths) /\ RecoveryInv(rows, recs)
      BY DEF Lines
    <2>2. ASSUME NEW o \in Ops, Left(ths, o, "settle"), recs[next[o].alloc].op = o
          PROVE  next[o].recovers = NoOp
      <3>1. IsTurn(rows, o)
        BY <2>2 DEF Lines, PassInv, Threads
      <3> QED BY <1>3, <2>1, <2>2, <3>1 DEF RetryInv
    <2>3. ASSUME NEW o \in Ops, Retrying(ths, o), Leafless(next, o), ~next[o].abandoned
          PROVE  LET r == recs[next[o].alloc] IN
                 /\ r.admitted # o
                 /\ IF r.op = o THEN r.status = "pending" ELSE ~Left(ths, o, "settle")
      <3>1. Poller \in Threads /\ Recovers(ths[Poller]) /\ ths[Poller].op = o
        BY <2>3 DEF Retrying, Recovers, Threads, Poller
      <3>2. IsTurn(rows, o)
        BY <3>1 DEF Lines, LookInv, LookOK, Failed
      <3>3. next[o] = rows[o] /\ Leafless(rows, o)
        BY <1>3, <1>5, <2>3, <3>2
      <3> QED BY <2>1, <2>3, <3>3 DEF RetryInv
    <2> QED BY <2>2, <2>3 DEF RetryInv
  <1>11. \A o \in Ops : Retrying(ths, o) => o # c /\ next[o] = rows[o] /\ Failed(rows, o)
    <2> SUFFICES ASSUME NEW o \in Ops, Retrying(ths, o) PROVE o # c /\ next[o] = rows[o] /\ Failed(rows, o)
      OBVIOUS
    <2>1. Poller \in Threads /\ Recovers(ths[Poller]) /\ ths[Poller].op = o
      BY DEF Retrying, Recovers, Threads, Poller
    <2>2. Failed(rows, o)
      BY <2>1 DEF Lines, LookInv, LookOK
    <2> QED BY <1>3, <2>2 DEF Failed
  <1>12. AttemptInv(next, recs, ths)
    <2> SUFFICES ASSUME NEW a \in Ops PROVE AttemptOK(recs[a], Attempted(next, ths, a))
      BY DEF AttemptInv
    <2>1. AttemptOK(recs[a], Attempted(rows, ths, a))
      BY DEF Lines, AttemptInv
    <2>2. Attempted(rows, ths, a) \subseteq Attempted(next, ths, a)
      BY <1>1, <1>11 DEF Attempted, AutoRows, NoTask
    <2>3. ASSUME NEW x \in Attempted(next, ths, a)
          PROVE  x \in Attempted(rows, ths, a)
      <3>1. CASE \E o \in AutoRows(next, a) : x = next[o].recovers
        <4>1. PICK o \in AutoRows(next, a) : x = next[o].recovers
          BY <3>1
        <4>2. CASE o # c
          BY <1>1, <4>1, <4>2 DEF Attempted, AutoRows
        <4>3. CASE o = c
          <5>1. y.auto /\ y.alloc = a /\ x = y.recovers
            BY <1>1, <4>1, <4>3 DEF AutoRows
          <5>2. y.recovers # NoOp
            BY <1>1, <5>1 DEF PaidFor
          <5>3. y.recovers \in Ops /\ rows[y.recovers].alloc = a /\ y.role = "orchestrator"
            BY <1>1, <5>1, <5>2 DEF Continues
          <5> QED BY <5>1, <5>3 DEF Attempted
        <4> QED BY <4>2, <4>3
      <3>2. CASE x \in Ops /\ Retrying(ths, x) /\ next[x].alloc = a
        BY <1>11, <3>2 DEF Attempted
      <3> QED BY <2>3, <3>1, <3>2 DEF Attempted
    <2>4. Attempted(next, ths, a) = Attempted(rows, ths, a)
      BY <2>2, <2>3
    <2> QED BY <2>1, <2>4
  <1>13. FenceInv(next, recs, ths)
    <2> SUFFICES ASSUME Fences(ths), NEW o \in Ops, IsTurn(next, o)
                 PROVE  OverFor(next, recs, ths, o) \/ RetriedIn(next, next[o].alloc)
      BY DEF FenceInv, AllOver
    <2>1. \A p \in Ops : IsTurn(rows, p) => OverFor(rows, recs, ths, p) \/ RetriedIn(rows, rows[p].alloc)
      BY DEF Lines, FenceInv, AllOver
    <2>2. \A a : RetriedIn(rows, a) => RetriedIn(next, a)
      BY <1>3 DEF RetriedIn
    <2>3. CASE o # c
      <3>1. IsTurn(rows, o) /\ next[o] = rows[o]
        BY <1>1, <2>3 DEF IsTurn
      <3>2. OverFor(rows, recs, ths, o) => OverFor(next, recs, ths, o)
        BY <1>5, <3>1 DEF OverFor
      <3> QED BY <2>1, <2>2, <3>1, <3>2
    <2>4. CASE o = c
      <3>1. y.role = "orchestrator" /\ y.recovers # NoOp
        BY <1>1, <2>4 DEF IsTurn
      <3>2. CASE ~y.auto
        BY <1>1, <2>4, <3>1, <3>2 DEF RetriedIn
      <3>3. CASE y.auto
        <4> DEFINE p == y.recovers
        <4>1. p \in Ops /\ Leafless(rows, p) /\ rows[p].alloc = y.alloc /\ IsTurn(rows, p)
          BY <1>1, <3>1 DEF Continues, IsTurn
        <4>2. Retrying(ths, p) /\ ~rows[p].abandoned
          BY <3>1, <3>3
        <4>3. Failed(rows, p)
          BY <1>11, <4>1, <4>2
        <4>4. ~OverFor(rows, recs, ths, p)
          BY <4>1, <4>2, <4>3 DEF OverFor, Failed
        <4> QED BY <1>1, <2>1, <2>2, <2>4, <4>1, <4>4
      <3> QED BY <3>2, <3>3
    <2> QED BY <2>3, <2>4
  <1> QED BY <1>7, <1>8, <1>9, <1>10, <1>12, <1>13 DEF Lines

-----------------------------------------------------------------------------
(* Recoveries are written. *)
LEMMA AttemptedIsFinite ==
    ASSUME NEW rows \in [Ops -> TaskRow], NEW ths, NEW a
    PROVE  /\ IsFiniteSet(Attempted(rows, ths, a)) /\ Cardinality(Attempted(rows, ths, a)) \in Nat
           /\ \A x : LET s == Attempted(rows, ths, a) \cup {x}
                     IN  /\ IsFiniteSet(s) /\ Cardinality(s) \in Nat
                         /\ Cardinality(Attempted(rows, ths, a)) <= Cardinality(s)
                         /\ Cardinality(s) <= Cardinality(Attempted(rows, ths, a)) + 1
  <1> DEFINE S == Attempted(rows, ths, a)
  <1>1. S \subseteq 0..MaxOps
    BY ReportAssumption DEF Attempted, AutoRows, TaskRow, Ops, NoOp
  <1>2. IsFiniteSet(0..MaxOps)
    BY FS_Interval, ReportAssumption
  <1>3. IsFiniteSet(S)
    BY <1>1, <1>2, FS_Subset
  <1> HIDE DEF S
  <1>4. Cardinality(S) \in Nat
    BY <1>3, FS_CardinalityType
  <1>5. ASSUME NEW x
        PROVE  /\ IsFiniteSet(S \cup {x}) /\ Cardinality(S \cup {x}) \in Nat
               /\ Cardinality(S) <= Cardinality(S \cup {x}) /\ Cardinality(S \cup {x}) <= Cardinality(S) + 1
    <2>1. IsFiniteSet(S \cup {x}) /\ (x \in S \/ Cardinality(S \cup {x}) = Cardinality(S) + 1)
      BY <1>3, FS_AddElement
    <2>2. CASE x \in S
      <3>1. S \cup {x} = S
        BY <2>2
      <3>2. Cardinality(S \cup {x}) = Cardinality(S)
        BY <3>1, Zenon
      <3> QED BY <1>4, <2>1, <3>2
    <2>3. CASE x \notin S
      BY <1>4, <2>1, <2>3
    <2> QED BY <2>2, <2>3
  <1> QED BY <1>3, <1>4, <1>5 DEF S

(* A recovery that was given up stays given up. *)
Closed(r) == r.status \in {"blocked", "exhausted"}
RecordedOK(rows, ths, r, x, a) ==
    /\ RecoveryOK(rows, x, a) /\ AttemptOK(x, Attempted(rows, ths, a))
    /\ Closed(r) => Closed(x)
    /\ \A o \in Ops : Left(ths, o, "settle") /\ rows[o].alloc = a /\ x.op = o => rows[o].recovers = NoOp
    /\ \A o \in Ops : Retrying(ths, o) /\ Leafless(rows, o) /\ ~rows[o].abandoned /\ rows[o].alloc = a =>
         /\ x.admitted # o
         /\ IF x.op = o THEN x.status = "pending" ELSE ~Left(ths, o, "settle")

LEMMA RecordedAsIs ==
    ASSUME NEW rows, NEW recs, NEW ths, NEW b, Lines(rows, recs, ths, b), NEW a \in Ops
    PROVE  RecordedOK(rows, ths, recs[a], recs[a], a)
  BY DEF Lines, RecordedOK, RecoveryInv, AttemptInv, RetryInv

LEMMA LinesRecorded ==
    ASSUME NEW rows \in [Ops -> TaskRow], NEW recs, NEW ths, NEW b, RowInv(rows), Lines(rows, recs, ths, b),
           NEW next, \A a \in Ops : RecordedOK(rows, ths, recs[a], next[a], a)
    PROVE  Lines(rows, next, ths, b)
  <1>1. RecoveryInv(rows, next) /\ AttemptInv(rows, next, ths)
    BY DEF RecordedOK, RecoveryInv, AttemptInv
  <1>2. \A o \in Ops : rows[o].role # "none" => rows[o].alloc \in Ops
    <2> SUFFICES ASSUME NEW o \in Ops, rows[o].role # "none" PROVE rows[o].alloc \in Ops
      OBVIOUS
    <2>1. RowOK(rows, o)
      BY DEF RowInv
    <2> QED BY <2>1 DEF RowOK, NoTask
  <1>3. \A o \in Ops : Left(ths, o, "settle") => rows[o].alloc \in Ops
    BY <1>2 DEF Lines, PassInv, IsTurn, Threads
  <1>4. \A o \in Ops : Retrying(ths, o) => rows[o].alloc \in Ops
    <2> SUFFICES ASSUME NEW o \in Ops, Retrying(ths, o) PROVE rows[o].alloc \in Ops
      OBVIOUS
    <2>1. Poller \in Threads /\ Recovers(ths[Poller]) /\ ths[Poller].op = o
      BY DEF Retrying, Recovers, Threads, Poller
    <2> QED BY <2>1 DEF Lines, LookInv, LookOK
  <1>5. RetryInv(rows, next, ths)
    BY <1>3, <1>4 DEF RecordedOK, RetryInv
  <1>6. FenceInv(rows, next, ths)
    <2> SUFFICES ASSUME Fences(ths), NEW o \in Ops, IsTurn(rows, o)
                 PROVE  OverFor(rows, next, ths, o) \/ RetriedIn(rows, rows[o].alloc)
      BY DEF FenceInv, AllOver
    <2>1. OverFor(rows, recs, ths, o) \/ RetriedIn(rows, rows[o].alloc)
      BY DEF Lines, FenceInv, AllOver
    <2>2. rows[o].alloc \in Ops
      BY <1>2 DEF IsTurn
    <2>3. Closed(recs[rows[o].alloc]) => Closed(next[rows[o].alloc])
      BY <2>2 DEF RecordedOK
    <2> QED BY <2>1, <2>3 DEF OverFor, Closed
  <1> QED BY <1>1, <1>5, <1>6 DEF Lines

LEMMA LinesRecordedAt ==
    ASSUME NEW rows \in [Ops -> TaskRow], NEW recs \in [Ops -> Recovery], NEW ths, NEW b,
           RowInv(rows), Lines(rows, recs, ths, b),
           NEW a \in Ops, NEW x \in Recovery, RecordedOK(rows, ths, recs[a], x, a)
    PROVE  /\ [recs EXCEPT ![a] = x] \in [Ops -> Recovery]
           /\ Lines(rows, [recs EXCEPT ![a] = x], ths, b)
  <1> DEFINE next == [recs EXCEPT ![a] = x]
  <1>1. next \in [Ops -> Recovery] /\ next[a] = x /\ \A p \in Ops : p # a => next[p] = recs[p]
    OBVIOUS
  <1>2. \A p \in Ops : RecordedOK(rows, ths, recs[p], next[p], p)
    BY <1>1, RecordedAsIs
  <1> HIDE DEF next
  <1>3. Lines(rows, next, ths, b)
    BY <1>2, LinesRecorded
  <1> QED BY <1>1, <1>3 DEF next

(* schedule_auto_research_task_recovery *)
Outcome(r, o) ==
    IF r.status \in {"blocked", "exhausted"} THEN r.status
    ELSE IF r.status = "admitted" /\ r.op = o THEN "admitted"
    ELSE IF Counted(r, o) >= max_attempts THEN "exhausted"
    ELSE "pending"
Scheduled(r, o) ==
    IF r.status = "none" THEN [NoRecovery EXCEPT !.status = "pending", !.op = o]
    ELSE [status |-> Outcome(r, o), op |-> o, attempts |-> Counted(r, o),
          admitted |-> IF Outcome(r, o) = "pending" THEN NoOp ELSE r.admitted]

LEMMA SchedulesIt ==
    ASSUME NEW o, schedule_auto_research_task_recovery(o)
    PROVE  rec' = [rec EXCEPT ![task[o].alloc] = Scheduled(rec[task[o].alloc], o)]
  BY DEF schedule_auto_research_task_recovery, Scheduled, Outcome

LEMMA ScheduledRecord ==
    ASSUME NEW r \in Recovery, NEW o \in Ops
    PROVE  LET x == Scheduled(r, o) IN
           /\ x \in Recovery /\ x.op = o /\ x.status # "none"
           /\ x.status = "pending" => x.attempts < max_attempts /\ x.admitted = NoOp
           /\ x.admitted \in {NoOp, r.admitted}
           /\ Closed(r) => Closed(x)
           /\ r.status = "none" => x.status = "pending" /\ x.attempts = 0
           /\ r.status # "none" /\ (r.op = o \/ r.admitted = o) => x.attempts = r.attempts
           /\ r.status # "none" /\ r.op # o /\ r.admitted # o =>
                x.attempts = r.attempts + 1 \/ (x.attempts = max_attempts /\ r.attempts = max_attempts)
           /\ r.status = "pending" => x.status \in {"pending", "exhausted"}
           /\ r.status = "pending" /\ r.op = o /\ r.attempts < max_attempts => x.status = "pending"
           /\ x.status = "admitted" => r.status = "admitted" /\ r.op = o
  <1> DEFINE n == Counted(r, o)
  <1>1. r.attempts \in 0..max_attempts /\ max_attempts \in Nat \ {0}
    BY LedgerAssumption DEF Recovery
  <1>2. /\ n \in 0..max_attempts
        /\ r.op = o \/ r.admitted = o => n = r.attempts
        /\ r.op # o /\ r.admitted # o => n = r.attempts + 1 \/ (n = max_attempts /\ r.attempts = max_attempts)
    BY <1>1 DEF Counted
  <1> HIDE DEF n
  <1>3. CASE r.status = "none"
    <2>1. NoRecovery \in Recovery
      BY <1>1 DEF NoRecovery, Recovery, NoOp, Ops
    <2>2. ASSUME NEW z \in Recovery, z.attempts = 0, z.admitted = NoOp
          PROVE  LET x == [z EXCEPT !.status = "pending", !.op = o]
                 IN  x \in Recovery /\ x.op = o /\ x.status = "pending" /\ x.attempts = 0 /\ x.admitted = NoOp
      BY <2>2 DEF Recovery
    <2>3. NoRecovery.attempts = 0 /\ NoRecovery.admitted = NoOp
      BY DEF NoRecovery
    <2>4. PICK z \in Recovery : z = NoRecovery
      BY <2>1
    <2>5. LET x == Scheduled(r, o)
          IN  x \in Recovery /\ x.op = o /\ x.status = "pending" /\ x.attempts = 0 /\ x.admitted = NoOp
      BY <1>3, <2>2, <2>3, <2>4 DEF Scheduled
    <2> QED BY <1>1, <1>3, <2>5 DEF Closed
  <1>4. CASE r.status # "none"
    <2> DEFINE st == Outcome(r, o)
               adm == IF st = "pending" THEN NoOp ELSE r.admitted
               x == [status |-> st, op |-> o, attempts |-> n, admitted |-> adm]
    <2>1. /\ st \in {"pending", "admitted", "blocked", "exhausted"}
          /\ st = "pending" => n < max_attempts
          /\ Closed(r) => st \in {"blocked", "exhausted"}
          /\ r.status = "pending" => st \in {"pending", "exhausted"}
          /\ r.status = "pending" /\ r.op = o /\ r.attempts < max_attempts => st = "pending"
          /\ st = "admitted" => r.status = "admitted" /\ r.op = o
      BY <1>1, <1>2 DEF Outcome, Closed, n
    <2>2. adm \in Ops \cup {NoOp} /\ adm \in {NoOp, r.admitted} /\ (st = "pending" => adm = NoOp)
      BY DEF Recovery
    <2> HIDE DEF st, adm
    <2>3. x \in Recovery /\ x.status = st /\ x.op = o /\ x.attempts = n /\ x.admitted = adm
      BY <1>2, <2>1, <2>2 DEF Recovery
    <2>4. Scheduled(r, o) = x
      BY <1>4 DEF Scheduled, n, st, adm
    <2> HIDE DEF x
    <2> QED BY <1>2, <1>4, <2>1, <2>2, <2>3, <2>4 DEF Closed
  <1> QED BY <1>3, <1>4

LEMMA LinesScheduled ==
    ASSUME NEW rows \in [Ops -> TaskRow], NEW recs \in [Ops -> Recovery], NEW ths, NEW b,
           RowInv(rows), Lines(rows, recs, ths, b),
           NEW o \in Ops, Failed(rows, o),
           Left(ths, o, "settle") => rows[o].recovers = NoOp,
           Retrying(ths, o) /\ Leafless(rows, o) /\ ~rows[o].abandoned => recs[rows[o].alloc].op = o
    PROVE  LET next == [recs EXCEPT ![rows[o].alloc] = Scheduled(recs[rows[o].alloc], o)]
           IN  next \in [Ops -> Recovery] /\ Lines(rows, next, ths, b)
  <1> DEFINE a == rows[o].alloc
             r == recs[a]
             x == Scheduled(r, o)
             S == Attempted(rows, ths, a)
  <1>1. RowOK(rows, o) /\ rows[o].status # "none"
    BY DEF RowInv, Failed
  <1>2. a \in Ops
    BY <1>1 DEF RowOK
  <1>3. r \in Recovery /\ RecoveryOK(rows, r, a) /\ AttemptOK(r, S)
    BY <1>2 DEF Lines, RecoveryInv, AttemptInv
  <1>4. /\ x \in Recovery /\ x.op = o /\ x.status # "none"
        /\ x.status = "pending" => x.attempts < max_attempts /\ x.admitted = NoOp
        /\ x.admitted \in {NoOp, r.admitted}
        /\ Closed(r) => Closed(x)
        /\ r.status = "none" => x.status = "pending" /\ x.attempts = 0
        /\ r.status # "none" /\ (r.op = o \/ r.admitted = o) => x.attempts = r.attempts
        /\ r.status # "none" /\ r.op # o /\ r.admitted # o =>
             x.attempts = r.attempts + 1 \/ (x.attempts = max_attempts /\ r.attempts = max_attempts)
        /\ r.status = "pending" => x.status \in {"pending", "exhausted"}
        /\ r.status = "pending" /\ r.op = o /\ r.attempts < max_attempts => x.status = "pending"
        /\ x.status = "admitted" => r.status = "admitted" /\ r.op = o
    BY <1>3, ScheduledRecord
  <1>5. /\ Cardinality(S) \in Nat
        /\ \A z : Cardinality(S \cup {z}) \in Nat /\ Cardinality(S) <= Cardinality(S \cup {z})
                  /\ Cardinality(S \cup {z}) <= Cardinality(S) + 1
    BY AttemptedIsFinite
  <1>51. /\ Cardinality(S \cup {o}) \in Nat /\ Cardinality(S \cup {o}) <= Cardinality(S) + 1
         /\ Cardinality(S \cup {r.op}) \in Nat /\ Cardinality(S) <= Cardinality(S \cup {r.op})
         /\ Cardinality(S) \in Nat
    BY <1>5
  <1> HIDE DEF a, r, x, S
  <1>6. RecoveryOK(rows, x, a)
    BY <1>3, <1>4 DEF RecoveryOK, NoOp, Ops, a
  <1>7. AttemptOK(x, S)
    <2>1. /\ r.status \in {"none", "pending", "admitted", "blocked", "exhausted"} /\ r.attempts \in Nat
          /\ x.attempts \in Nat /\ max_attempts \in Nat /\ r.attempts <= max_attempts
      BY <1>3, <1>4, LedgerAssumption DEF Recovery
    <2>2. CASE r.status = "none"
      <3>1. S = {}
        BY <1>3, <2>2 DEF AttemptOK
      <3>2. S \cup {x.op} = {x.op}
        BY <3>1
      <3>3. Cardinality({x.op}) = 1 /\ Cardinality(S) = 0
        BY <3>1, FS_Singleton, FS_EmptySet
      <3>4. Cardinality(S \cup {x.op}) = 1
        BY <3>2, <3>3, Zenon
      <3> QED BY <1>4, <2>1, <2>2, <3>3, <3>4 DEF AttemptOK
    <2>3. CASE r.status = "pending"
      <3>1. Cardinality(S \cup {r.op}) <= r.attempts + 1 /\ r.attempts < max_attempts /\ r.admitted = NoOp
        BY <1>3, <2>3 DEF AttemptOK, RecoveryOK
      <3>2. CASE r.op = o
        BY <1>4, <2>1, <2>3, <3>1, <3>2, <1>3 DEF AttemptOK
      <3>3. CASE r.op # o
        <4>1. x.attempts = r.attempts + 1
          BY <1>4, <2>1, <2>3, <3>1, <3>3 DEF NoOp, Ops
        <4>2. Cardinality(S) <= r.attempts + 1 /\ Cardinality(S \cup {o}) <= r.attempts + 2
          BY <1>51, <2>1, <3>1
        <4> QED BY <1>4, <1>51, <2>1, <2>3, <4>1, <4>2, <1>3 DEF AttemptOK
      <3> QED BY <3>2, <3>3
    <2>4. CASE r.status = "admitted"
      <3>1. Cardinality(S \cup {r.op}) <= r.attempts
        BY <1>3, <2>4 DEF AttemptOK
      <3>2. CASE r.op = o
        <4>1. x.op = r.op /\ x.attempts = r.attempts /\ Cardinality(S) <= max_attempts /\ x.status # "none"
          BY <1>3, <1>4, <2>4, <3>2 DEF AttemptOK
        <4> QED BY <1>51, <2>1, <3>1, <4>1 DEF AttemptOK
      <3>3. CASE r.op # o
        <4>1. Cardinality(S) <= r.attempts /\ Cardinality(S \cup {o}) <= r.attempts + 1
          BY <1>51, <2>1, <3>1
        <4>2. x.attempts >= r.attempts /\ x.status # "admitted"
          BY <1>4, <2>1, <2>4, <3>3
        <4> QED BY <1>4, <1>51, <2>1, <4>1, <4>2, <1>3 DEF AttemptOK
      <3> QED BY <3>2, <3>3
    <2>5. CASE Closed(r)
      BY <1>3, <1>4, <2>5 DEF AttemptOK, Closed
    <2> QED BY <2>1, <2>2, <2>3, <2>4, <2>5 DEF Closed
  <1>8. ASSUME NEW p \in Ops, Left(ths, p, "settle"), rows[p].alloc = a, x.op = p
        PROVE  rows[p].recovers = NoOp
    BY <1>4, <1>8
  <1>9. ASSUME NEW p \in Ops, Retrying(ths, p), Leafless(rows, p), ~rows[p].abandoned, rows[p].alloc = a
        PROVE  /\ x.admitted # p
               /\ IF x.op = p THEN x.status = "pending" ELSE ~Left(ths, p, "settle")
    <2>1. r.admitted # p /\ IF r.op = p THEN r.status = "pending" ELSE ~Left(ths, p, "settle")
      BY <1>9 DEF Lines, RetryInv, r
    <2>2. x.admitted # p
      BY <1>4, <2>1 DEF NoOp, Ops
    <2>3. CASE p = o
      <3>1. r.op = o
        BY <1>9, <2>3 DEF r, a
      <3>2. r.status = "pending" /\ r.attempts < max_attempts
        BY <1>3, <2>1, <2>3, <3>1 DEF RecoveryOK
      <3> QED BY <1>4, <2>2, <2>3, <3>1, <3>2
    <2>4. CASE p # o
      <3>1. ASSUME r.op = p, Left(ths, p, "settle")
            PROVE  FALSE
        <4>1. rows[p].recovers = NoOp
          BY <1>9, <3>1 DEF Lines, RetryInv, r
        <4>2. IsTurn(rows, p) /\ RowOK(rows, p)
          BY <3>1 DEF Lines, PassInv, Threads, RowInv
        <4>3. rows[p].alloc = p
          BY <4>1, <4>2 DEF RowOK, IsTurn, NoTask
        <4>4. rows[o].recovers # NoOp
          BY <1>1, <1>9, <2>4, <4>3 DEF RowOK, a
        <4>5. ~Leafless(rows, rows[o].alloc)
          BY <1>1, <4>4 DEF RowOK
        <4> QED BY <1>9, <4>3, <4>5 DEF a
      <3> QED BY <1>4, <2>1, <2>2, <2>4, <3>1
    <2> QED BY <2>3, <2>4
  <1>10. RecordedOK(rows, ths, r, x, a)
    BY <1>4, <1>6, <1>7, <1>8, <1>9 DEF RecordedOK, S
  <1>11. [recs EXCEPT ![a] = x] \in [Ops -> Recovery] /\ Lines(rows, [recs EXCEPT ![a] = x], ths, b)
    BY <1>2, <1>4, <1>10, LinesRecordedAt DEF r
  <1> QED BY <1>11 DEF a, r, x

(* complete_auto_research_recovery and defer_auto_research_recovery: the poller is past its retry. *)
LEMMA LinesCompleted ==
    ASSUME NEW rows \in [Ops -> TaskRow], NEW recs \in [Ops -> Recovery], NEW ths, NEW b,
           RowInv(rows), Lines(rows, recs, ths, b), ths[Poller].pc # "retry",
           NEW a \in Ops, NEW child \in Ops, IsTurn(rows, child), rows[child].alloc = a,
           recs[a].status = "pending"
    PROVE  LET next == [recs EXCEPT ![a] = [recs[a] EXCEPT !.attempts = recs[a].attempts + 1, !.status = "admitted",
                                                           !.admitted = child]]
           IN  next \in [Ops -> Recovery] /\ Lines(rows, next, ths, b)
  <1> DEFINE r == recs[a]
             n == r.attempts + 1
             x == [r EXCEPT !.attempts = n, !.status = "admitted", !.admitted = child]
             S == Attempted(rows, ths, a)
  <1>1. r \in Recovery /\ RecoveryOK(rows, r, a) /\ AttemptOK(r, S)
    BY DEF Lines, RecoveryInv, AttemptInv
  <1>2. r.attempts < max_attempts /\ r.attempts \in Nat /\ max_attempts \in Nat /\ r.op # NoOp
    BY <1>1, LedgerAssumption DEF RecoveryOK, Recovery
  <1> HIDE DEF r
  <1>22. n \in 0..max_attempts
    BY <1>2
  <1> HIDE DEF n
  <1>23. x \in Recovery /\ x.attempts = n /\ x.status = "admitted" /\ x.admitted = child /\ x.op = r.op
    BY <1>1, <1>22 DEF Recovery
  <1>3. /\ x \in Recovery /\ x.attempts = r.attempts + 1 /\ x.status = "admitted"
        /\ x.admitted = child /\ x.op = r.op
    BY <1>23 DEF n
  <1> HIDE DEF x, S
  <1>4. RecoveryOK(rows, x, a)
    BY <1>1, <1>3 DEF RecoveryOK
  <1>5. AttemptOK(x, S)
    <2>1. Cardinality(S \cup {r.op}) <= r.attempts + 1 /\ Cardinality(S) <= max_attempts
      BY <1>1 DEF AttemptOK, r
    <2> QED BY <1>3, <2>1 DEF AttemptOK
  <1>6. RecordedOK(rows, ths, r, x, a)
    <2>1. \A o \in Ops : ~Retrying(ths, o)
      BY DEF Retrying
    <2>2. \A o \in Ops : Left(ths, o, "settle") /\ rows[o].alloc = a /\ x.op = o => rows[o].recovers = NoOp
      BY <1>3 DEF Lines, RetryInv, r
    <2> QED BY <1>4, <1>5, <2>1, <2>2 DEF RecordedOK, Closed, r, S
  <1>7. [recs EXCEPT ![a] = x] \in [Ops -> Recovery] /\ Lines(rows, [recs EXCEPT ![a] = x], ths, b)
    BY <1>3, <1>6, LinesRecordedAt DEF r
  <1> QED BY <1>7 DEF x, r, n

LEMMA LinesDeferred ==
    ASSUME NEW rows \in [Ops -> TaskRow], NEW recs \in [Ops -> Recovery], NEW ths, NEW b,
           RowInv(rows), Lines(rows, recs, ths, b), ths[Poller].pc # "retry",
           NEW a \in Ops, recs[a].status = "pending"
    PROVE  LET next == [recs EXCEPT ![a].attempts = @ + 1,
                                    ![a].status = IF recs[a].attempts + 1 >= max_attempts THEN "exhausted"
                                                  ELSE "pending"]
           IN  next \in [Ops -> Recovery] /\ Lines(rows, next, ths, b)
  <1> DEFINE r == recs[a]
             st == IF r.attempts + 1 >= max_attempts THEN "exhausted" ELSE "pending"
             n == r.attempts + 1
             x == [r EXCEPT !.attempts = n, !.status = st]
             S == Attempted(rows, ths, a)
  <1>1. r \in Recovery /\ RecoveryOK(rows, r, a) /\ AttemptOK(r, S)
    BY DEF Lines, RecoveryInv, AttemptInv
  <1>2. r.attempts < max_attempts /\ r.attempts \in Nat /\ max_attempts \in Nat /\ r.op # NoOp /\ r.admitted = NoOp
    BY <1>1, LedgerAssumption DEF RecoveryOK, Recovery
  <1>3. st \in {"exhausted", "pending"} /\ (st = "pending" => r.attempts + 1 < max_attempts)
    BY <1>2
  <1>4. [recs EXCEPT ![a].attempts = @ + 1, ![a].status = st] = [recs EXCEPT ![a] = x]
    BY <1>1 DEF Recovery
  <1> HIDE DEF r, st
  <1>41. n \in 0..max_attempts
    BY <1>2
  <1> HIDE DEF n
  <1>42. x \in Recovery /\ x.attempts = n /\ x.status = st /\ x.admitted = r.admitted /\ x.op = r.op
    BY <1>1, <1>3, <1>41 DEF Recovery
  <1>5. x \in Recovery /\ x.attempts = r.attempts + 1 /\ x.status = st /\ x.admitted = NoOp /\ x.op = r.op
    BY <1>2, <1>42 DEF n
  <1> HIDE DEF x, S
  <1>6. RecoveryOK(rows, x, a)
    BY <1>1, <1>2, <1>3, <1>5 DEF RecoveryOK
  <1>7. AttemptOK(x, S)
    <2>1. Cardinality(S \cup {r.op}) <= r.attempts + 1 /\ Cardinality(S) <= max_attempts
      BY <1>1 DEF AttemptOK, r
    <2>2. Cardinality(S \cup {r.op}) \in Nat
      BY AttemptedIsFinite DEF S
    <2> QED BY <1>2, <1>3, <1>5, <2>1, <2>2 DEF AttemptOK
  <1>8. RecordedOK(rows, ths, r, x, a)
    <2>1. \A o \in Ops : ~Retrying(ths, o)
      BY DEF Retrying
    <2>2. \A o \in Ops : Left(ths, o, "settle") /\ rows[o].alloc = a /\ x.op = o => rows[o].recovers = NoOp
      BY <1>5 DEF Lines, RetryInv, r
    <2> QED BY <1>6, <1>7, <2>1, <2>2 DEF RecordedOK, Closed, r, S
  <1>9. [recs EXCEPT ![a] = x] \in [Ops -> Recovery] /\ Lines(rows, [recs EXCEPT ![a] = x], ths, b)
    BY <1>5, <1>8, LinesRecordedAt DEF r
  <1> QED BY <1>4, <1>9 DEF r, st

(* abandon_auto_research_recovery: every recovery of the turn is blocked. *)
LEMMA LinesBlocked ==
    ASSUME NEW rows \in [Ops -> TaskRow], NEW recs \in [Ops -> Recovery], NEW ths, NEW b,
           RowInv(rows), Lines(rows, recs, ths, b), NEW o \in Ops, rows[o].abandoned
    PROVE  LET next == [a \in Ops |-> IF o \in {recs[a].op, recs[a].admitted}
                                        THEN [recs[a] EXCEPT !.status = "blocked"] ELSE recs[a]]
           IN  next \in [Ops -> Recovery] /\ Lines(rows, next, ths, b)
  <1> DEFINE next == [a \in Ops |-> IF o \in {recs[a].op, recs[a].admitted}
                                      THEN [recs[a] EXCEPT !.status = "blocked"] ELSE recs[a]]
  <1>1. ASSUME NEW a \in Ops
        PROVE  next[a] \in Recovery /\ RecordedOK(rows, ths, recs[a], next[a], a)
    <2> DEFINE r == recs[a]
               x == [r EXCEPT !.status = "blocked"]
    <2>1. CASE o \notin {r.op, r.admitted}
      BY <2>1, RecordedAsIs
    <2>2. CASE o \in {r.op, r.admitted}
      <3>1. r \in Recovery /\ RecoveryOK(rows, r, a) /\ AttemptOK(r, Attempted(rows, ths, a))
        BY DEF Lines, RecoveryInv, AttemptInv
      <3>2. next[a] = x
        BY <2>2
      <3> HIDE DEF r, next
      <3>3. x \in Recovery /\ x.status = "blocked" /\ x.op = r.op /\ x.admitted = r.admitted
        BY <3>1 DEF Recovery
      <3> HIDE DEF x
      <3>4. RecoveryOK(rows, x, a) /\ AttemptOK(x, Attempted(rows, ths, a)) /\ Closed(x)
        BY <3>1, <3>3 DEF RecoveryOK, AttemptOK, Closed
      <3>5. \A p \in Ops : Left(ths, p, "settle") /\ rows[p].alloc = a /\ x.op = p => rows[p].recovers = NoOp
        BY <3>3 DEF Lines, RetryInv, r
      <3>6. ASSUME NEW p \in Ops, Retrying(ths, p), Leafless(rows, p), ~rows[p].abandoned, rows[p].alloc = a
            PROVE  /\ x.admitted # p
                   /\ IF x.op = p THEN x.status = "pending" ELSE ~Left(ths, p, "settle")
        <4>1. r.admitted # p /\ IF r.op = p THEN r.status = "pending" ELSE ~Left(ths, p, "settle")
          BY <3>6 DEF Lines, RetryInv, r
        <4>2. p # o
          BY <3>6
        <4>3. r.op # p
          <5>1. ASSUME r.op = p PROVE FALSE
            <6>1. r.admitted = o
              BY <2>2, <4>2, <5>1 DEF r
            <6>2. r.admitted = NoOp
              BY <3>1, <4>1, <5>1 DEF RecoveryOK
            <6> QED BY <6>1, <6>2 DEF NoOp, Ops
          <5> QED BY <5>1
        <4> QED BY <3>3, <4>1, <4>3
      <3> QED BY <3>2, <3>3, <3>4, <3>5, <3>6 DEF RecordedOK, r
    <2> QED BY <2>1, <2>2
  <1>2. next \in [Ops -> Recovery]
    BY <1>1
  <1>3. \A a \in Ops : RecordedOK(rows, ths, recs[a], next[a], a)
    BY <1>1
  <1> HIDE DEF next
  <1>4. Lines(rows, next, ths, b)
    BY <1>3, LinesRecorded
  <1> QED BY <1>2, <1>4 DEF next

-----------------------------------------------------------------------------
(* Threads move. *)
LEMMA AttemptedLess ==
    ASSUME NEW r, NEW S, NEW T, IsFiniteSet(S \cup {r.op}), IsFiniteSet(S), T \subseteq S, AttemptOK(r, S),
           r.attempts \in Nat
    PROVE  AttemptOK(r, T)
  <1>1. /\ IsFiniteSet(T) /\ IsFiniteSet(T \cup {r.op})
        /\ Cardinality(T) <= Cardinality(S) /\ Cardinality(T \cup {r.op}) <= Cardinality(S \cup {r.op})
    BY FS_Subset
  <1>2. /\ Cardinality(T) \in Nat /\ Cardinality(S) \in Nat
        /\ Cardinality(T \cup {r.op}) \in Nat /\ Cardinality(S \cup {r.op}) \in Nat
    BY <1>1, FS_CardinalityType
  <1>3. max_attempts \in Nat
    BY LedgerAssumption
  <1> QED BY <1>1, <1>2, <1>3 DEF AttemptOK

(* What a thread has left follows from what it had left. *)
Follows(ths, t, y) ==
    /\ y \in Carried /\ Ordered(y.rest)
    /\ Has(y.rest, "settle") => Left(ths, t, "settle")
    /\ Has(y.rest, "orphans") => Left(ths, t, "orphans") /\ ~Recovers(y)
    /\ Has(y.rest, "recover") \/ Has(y.rest, "serve") => t = Poller

LEMMA LinesThread ==
    ASSUME NEW rows \in [Ops -> TaskRow], NEW recs \in [Ops -> Recovery], NEW ths \in [Threads -> Carried], NEW b,
           RowInv(rows), Lines(rows, recs, ths, b),
           NEW t \in Threads, NEW y, Follows(ths, t, y),
           Recovers(y) => t = Poller /\ LookOK(rows, y),
           y.pc = "retry" => recs[y.at].status = "pending" /\ recs[y.at].op = y.op,
           y.pc = "fence" => AllOver(rows, recs, ths)
    PROVE  LET next == [ths EXCEPT ![t] = y]
           IN  next \in [Threads -> Carried] /\ Lines(rows, recs, next, b)
  <1> DEFINE next == [ths EXCEPT ![t] = y]
  <1>1. /\ next \in [Threads -> Carried] /\ next[t] = y /\ \A u \in Threads : u # t => next[u] = ths[u]
        /\ y \in Carried /\ Poller \in Threads /\ Ops \subseteq Threads
    BY DEF Follows, Threads, Poller
  <1> HIDE DEF next
  <1>2. RecoveryInv(rows, recs)
    BY DEF Lines
  <1>3. LookInv(rows, next)
    BY <1>1 DEF Lines, LookInv
  <1>4. \A u \in Threads : Left(next, u, "settle") => Left(ths, u, "settle")
    BY <1>1 DEF Left, Follows
  <1>5. Left(next, Poller, "orphans") => Left(ths, Poller, "orphans") /\ ~Recovers(next[Poller])
    <2>1. CASE t = Poller
      BY <1>1, <2>1 DEF Left, Follows
    <2>2. CASE t # Poller
      <3>1. next[Poller] = ths[Poller]
        BY <1>1, <2>2
      <3> QED BY <3>1 DEF Left, Lines, PassInv
    <2> QED BY <2>1, <2>2
  <1>6. PassInv(rows, next, b)
    <2>1. PassInv(rows, ths, b)
      BY DEF Lines
    <2>2. \A u \in Threads : Ordered(next[u].rest)
      BY <1>1, <2>1 DEF PassInv, Follows
    <2>3. ASSUME NEW u \in Threads, Left(next, u, "recover") \/ Left(next, u, "orphans") \/ Left(next, u, "serve")
          PROVE  u = Poller
      <3>1. CASE u = t
        BY <1>1, <2>1, <2>3, <3>1 DEF PassInv, Follows, Left
      <3>2. CASE u # t
        BY <1>1, <2>1, <2>3, <3>2 DEF PassInv, Left
      <3> QED BY <3>1, <3>2
    <2>4. \A u \in Threads : Left(next, u, "settle") => u \in Ops /\ IsTurn(rows, u) /\ ~Live(rows, u)
      BY <1>4, <2>1 DEF PassInv
    <2>5. ASSUME Left(next, Poller, "orphans")
          PROVE  /\ b = "starting" /\ ~Recovers(next[Poller])
                 /\ \A o \in Ops : IsTurn(rows, o) /\ (Live(rows, o) \/ Left(next, o, "settle")) =>
                      rows[o].recovers = NoOp
      BY <1>1, <1>4, <1>5, <2>1, <2>5 DEF PassInv
    <2> QED BY <2>2, <2>3, <2>4, <2>5 DEF PassInv
  <1>7. \A o \in Ops : Retrying(next, o) /\ ~Retrying(ths, o) =>
          /\ t = Poller /\ y.pc = "retry" /\ y.op = o /\ y.at = rows[o].alloc /\ y.at \in Ops
          /\ recs[rows[o].alloc].status = "pending" /\ recs[rows[o].alloc].op = o
    <2> SUFFICES ASSUME NEW o \in Ops, Retrying(next, o), ~Retrying(ths, o)
                 PROVE  /\ t = Poller /\ y.pc = "retry" /\ y.op = o /\ y.at = rows[o].alloc /\ y.at \in Ops
                        /\ recs[rows[o].alloc].status = "pending" /\ recs[rows[o].alloc].op = o
      OBVIOUS
    <2>1. t = Poller /\ y.pc = "retry" /\ y.op = o
      BY <1>1 DEF Retrying
    <2>2. y.at \in Ops /\ rows[o].alloc = y.at
      BY <2>1 DEF Recovers, LookOK
    <2> QED BY <2>1, <2>2
  <1>8. RetryInv(rows, recs, next)
    <2>1. \A o \in Ops : Left(next, o, "settle") /\ recs[rows[o].alloc].op = o => rows[o].recovers = NoOp
      BY <1>1, <1>4 DEF Lines, RetryInv
    <2>2. ASSUME NEW o \in Ops, Retrying(next, o), Leafless(rows, o), ~rows[o].abandoned
          PROVE  LET r == recs[rows[o].alloc] IN
                 /\ r.admitted # o
                 /\ IF r.op = o THEN r.status = "pending" ELSE ~Left(next, o, "settle")
      <3>1. CASE Retrying(ths, o)
        BY <1>1, <1>4, <2>2, <3>1 DEF Lines, RetryInv
      <3>2. CASE ~Retrying(ths, o)
        <4>1. rows[o].alloc \in Ops /\ recs[rows[o].alloc].status = "pending" /\ recs[rows[o].alloc].op = o
          BY <1>7, <2>2, <3>2
        <4>2. RecoveryOK(rows, recs[rows[o].alloc], rows[o].alloc)
          BY <1>2, <4>1 DEF RecoveryInv
        <4> QED BY <4>1, <4>2 DEF RecoveryOK, NoOp, Ops
      <3> QED BY <3>1, <3>2
    <2> QED BY <2>1, <2>2 DEF RetryInv
  <1>9. AttemptInv(rows, recs, next)
    <2> SUFFICES ASSUME NEW a \in Ops PROVE AttemptOK(recs[a], Attempted(rows, next, a))
      BY DEF AttemptInv
    <2> DEFINE S == Attempted(rows, ths, a)
               T == Attempted(rows, next, a)
               r == recs[a]
    <2>1. AttemptOK(r, S) /\ r.attempts \in Nat
      BY DEF Lines, AttemptInv, Recovery
    <2>2. IsFiniteSet(S) /\ IsFiniteSet(S \cup {r.op}) /\ Cardinality(S \cup {r.op}) \in Nat
      BY AttemptedIsFinite
    <2>3. CASE T \subseteq S
      BY <2>1, <2>2, <2>3, AttemptedLess
    <2>4. CASE ~(T \subseteq S)
      <3>1. PICK x \in T : x \notin S
        BY <2>4
      <3>2. x \in Ops /\ Retrying(next, x) /\ ~Retrying(ths, x) /\ rows[x].alloc = a
        BY <3>1 DEF Attempted
      <3>3. t = Poller /\ y.pc = "retry" /\ y.op = x /\ r.status = "pending" /\ r.op = x
        BY <1>7, <3>2
      <3>4. \A o \in Ops : Retrying(next, o) => o = x
        BY <1>1, <3>3 DEF Retrying
      <3>5. T \subseteq S \cup {r.op}
        BY <3>3, <3>4 DEF Attempted
      <3>6. T \cup {r.op} \subseteq S \cup {r.op}
        BY <3>5
      <3>7. /\ IsFiniteSet(T) /\ IsFiniteSet(T \cup {r.op})
            /\ Cardinality(T) <= Cardinality(S \cup {r.op})
            /\ Cardinality(T \cup {r.op}) <= Cardinality(S \cup {r.op})
        BY <2>2, <3>5, <3>6, FS_Subset
      <3>8. Cardinality(T) \in Nat /\ Cardinality(T \cup {r.op}) \in Nat
        BY <3>7, FS_CardinalityType
      <3>9. Cardinality(S \cup {r.op}) <= r.attempts + 1 /\ r.attempts < max_attempts /\ max_attempts \in Nat
        BY <1>2, <2>1, <3>3, LedgerAssumption DEF AttemptOK, RecoveryInv, RecoveryOK
      <3> HIDE DEF S, T, r
      <3>10. Cardinality(T) <= max_attempts /\ Cardinality(T \cup {r.op}) <= r.attempts + 1
        BY <2>1, <2>2, <3>7, <3>8, <3>9
      <3>11. AttemptOK(r, T)
        BY <3>3, <3>10 DEF AttemptOK
      <3> QED BY <3>11 DEF T, r
    <2> QED BY <2>3, <2>4
  <1>10. AllOver(rows, recs, ths) => AllOver(rows, recs, next)
    <2> SUFFICES ASSUME NEW o \in Ops, IsTurn(rows, o), OverFor(rows, recs, ths, o)
                 PROVE  OverFor(rows, recs, next, o)
      BY DEF AllOver
    <2>1. Retrying(next, o) /\ ~Retrying(ths, o) => recs[rows[o].alloc].status = "pending"
      BY <1>7
    <2> QED BY <2>1 DEF OverFor
  <1>11. FenceInv(rows, recs, next)
    <2>1. Fences(next) => Fences(ths) \/ y.pc = "fence"
      BY <1>1 DEF Fences
    <2> QED BY <1>10, <2>1 DEF FenceInv, Lines
  <1>12. Lines(rows, recs, next, b)
    BY <1>2, <1>3, <1>6, <1>8, <1>9, <1>11 DEF Lines
  <1> QED BY <1>1, <1>12 DEF next

(* The passes of a turn that ended, of the poll and of the start of the process. *)
LEMMA PassesAre ==
    /\ AfterTurn \in Seq(PassNames) /\ Poll \in Seq(PassNames) /\ Startup \in Seq(PassNames)
    /\ Ordered(AfterTurn) /\ Ordered(Poll) /\ Ordered(Startup) /\ Ordered(<<>>)
    /\ ~Has(AfterTurn, "recover") /\ ~Has(AfterTurn, "orphans") /\ ~Has(AfterTurn, "serve")
    /\ ~Has(Poll, "settle") /\ ~Has(Poll, "orphans") /\ ~Has(Startup, "settle")
    /\ \A p : ~Has(<<>>, p)
  <1>1. AfterTurn \in Seq(PassNames) /\ Poll \in Seq(PassNames) /\ Startup \in Seq(PassNames)
    BY DEF AfterTurn, Poll, Startup, PassNames
  <1>2. /\ Len(AfterTurn) = 7 /\ AfterTurn[1] = "children" /\ AfterTurn[2] = "lifecycle" /\ AfterTurn[3] = "mail"
        /\ AfterTurn[4] = "settle" /\ AfterTurn[5] = "lifecycle" /\ AfterTurn[6] = "mail"
        /\ AfterTurn[7] = "episode"
    BY DEF AfterTurn
  <1>3. /\ Len(Poll) = 5 /\ Poll[1] = "recover" /\ Poll[2] = "children" /\ Poll[3] = "episode"
        /\ Poll[4] = "lifecycle" /\ Poll[5] = "mail"
    BY DEF Poll
  <1>4. /\ Len(Startup) = 8 /\ Startup[1] = "reports" /\ Startup[2] = "children" /\ Startup[3] = "orphans"
        /\ Startup[4] = "lifecycle" /\ Startup[5] = "mail" /\ Startup[6] = "episode"
        /\ Startup[7] = "recover" /\ Startup[8] = "serve"
    BY DEF Startup
  <1>5. DOMAIN AfterTurn = 1..7 /\ DOMAIN Poll = 1..5 /\ DOMAIN Startup = 1..8
    BY <1>1, <1>2, <1>3, <1>4
  <1>6. Ordered(AfterTurn) /\ ~Has(AfterTurn, "recover") /\ ~Has(AfterTurn, "orphans") /\ ~Has(AfterTurn, "serve")
    BY <1>2, <1>5 DEF Ordered, Has
  <1>7. Ordered(Poll) /\ ~Has(Poll, "settle") /\ ~Has(Poll, "orphans")
    BY <1>3, <1>5 DEF Ordered, Has
  <1>8. Ordered(Startup) /\ ~Has(Startup, "settle")
    BY <1>4, <1>5 DEF Ordered, Has
  <1>9. Ordered(<<>>) /\ \A p : ~Has(<<>>, p)
    BY DEF Ordered, Has
  <1> QED BY <1>1, <1>6, <1>7, <1>8, <1>9

LEMMA LinesEnded ==
    ASSUME NEW rows \in [Ops -> TaskRow], NEW recs \in [Ops -> Recovery], NEW ths \in [Threads -> Carried], NEW b,
           RowInv(rows), Lines(rows, recs, ths, b),
           NEW o \in Ops, IsTurn(rows, o), ~Live(rows, o), recs[rows[o].alloc].op # o, ~Retrying(ths,
           o),
           Left(ths, Poller, "orphans") => rows[o].recovers = NoOp
    PROVE  LET next == [ths EXCEPT ![o].rest = AfterTurn]
           IN  next \in [Threads -> Carried] /\ Lines(rows, recs, next, b)
  <1> DEFINE next == [ths EXCEPT ![o].rest = AfterTurn]
             x == ths[o]
             y == [x EXCEPT !.rest = AfterTurn]
  <1>1. o \in Threads /\ Poller \in Threads /\ o # Poller /\ Ops \subseteq Threads
    BY DEF Threads, Poller, Ops
  <1>2. x \in Carried
    BY <1>1
  <1>3. next = [ths EXCEPT ![o] = y]
    BY <1>1
  <1> HIDE DEF x
  <1>4. y \in Carried /\ y.rest = AfterTurn /\ y.pc = x.pc /\ y.at = x.at /\ y.op = x.op /\ y.as = x.as
    BY <1>2, PassesAre DEF Carried
  <1>5. /\ next \in [Threads -> Carried] /\ next[o] = y /\ \A u \in Threads : u # o => next[u] = ths[u]
    BY <1>1, <1>3, <1>4
  <1> HIDE DEF next, y
  <1>6. \A u \in Threads : next[u].pc = ths[u].pc
    BY <1>4, <1>5 DEF x
  <1>7. \A p \in Ops : Retrying(next, p) <=> Retrying(ths, p)
    BY <1>1, <1>5 DEF Retrying
  <1>8. LookInv(rows, next)
    <2>1. ~Recovers(ths[o])
      BY <1>1 DEF Lines, LookInv
    <2>2. ~Recovers(next[o])
      BY <1>1, <1>6, <2>1 DEF Recovers
    <2> QED BY <1>5, <2>2 DEF Lines, LookInv
  <1>9. PassInv(rows, next, b)
    <2>1. PassInv(rows, ths, b)
      BY DEF Lines
    <2>2. ~Left(next, o, "recover") /\ ~Left(next, o, "orphans") /\ ~Left(next, o, "serve") /\ Ordered(next[o].rest)
      BY <1>4, <1>5, PassesAre DEF Left
    <2>3. \A u \in Threads : u # o => \A p : Left(next, u, p) <=> Left(ths, u, p)
      BY <1>5 DEF Left
    <2>4. \A u \in Threads : Ordered(next[u].rest)
      BY <1>5, <2>1, <2>2 DEF PassInv
    <2>5. \A u \in Threads : Left(next, u, "recover") \/ Left(next, u, "orphans") \/ Left(next, u, "serve") => u = Poller
      BY <2>1, <2>2, <2>3 DEF PassInv
    <2>6. \A u \in Threads : Left(next, u, "settle") => u \in Ops /\ IsTurn(rows, u) /\ ~Live(rows, u)
      BY <2>1, <2>3 DEF PassInv
    <2>7. ASSUME Left(next, Poller, "orphans")
          PROVE  /\ b = "starting" /\ ~Recovers(next[Poller])
                 /\ \A p \in Ops : IsTurn(rows, p) /\ (Live(rows, p) \/ Left(next, p, "settle")) =>
                      rows[p].recovers = NoOp
      <3>1. Left(ths, Poller, "orphans") /\ next[Poller] = ths[Poller]
        BY <1>1, <1>5, <2>3, <2>7
      <3>2. \A p \in Ops : p # o /\ IsTurn(rows, p) /\ (Live(rows, p) \/ Left(next, p, "settle")) =>
              rows[p].recovers = NoOp
        BY <1>1, <2>1, <2>3, <3>1 DEF PassInv
      <3> QED BY <2>1, <3>1, <3>2 DEF PassInv
    <2> QED BY <2>4, <2>5, <2>6, <2>7 DEF PassInv
  <1>10. RetryInv(rows, recs, next)
    <2>1. \A p \in Ops : p # o => (Left(next, p, "settle") <=> Left(ths, p, "settle"))
      BY <1>1, <1>5 DEF Left
    <2> QED BY <1>7, <2>1 DEF Lines, RetryInv
  <1>11. AttemptInv(rows, recs, next)
    <2>1. \A a \in Ops : Attempted(rows, next, a) = Attempted(rows, ths, a)
      BY <1>7 DEF Attempted
    <2> QED BY <2>1 DEF Lines, AttemptInv
  <1>12. FenceInv(rows, recs, next)
    <2>1. Fences(next) <=> Fences(ths)
      BY <1>6 DEF Fences
    <2> QED BY <1>7, <2>1 DEF Lines, FenceInv, AllOver, OverFor
  <1>13. Lines(rows, recs, next, b)
    BY <1>8, <1>9, <1>10, <1>11, <1>12 DEF Lines
  <1> QED BY <1>5, <1>13 DEF next

LEMMA LinesRestarted ==
    ASSUME NEW rows \in [Ops -> TaskRow], NEW recs \in [Ops -> Recovery], NEW ths \in [Threads -> Carried], NEW b,
           RowInv(rows), Lines(rows, recs, ths, b),
           \A o \in Ops : IsTurn(rows, o) /\ Live(rows, o) => rows[o].recovers = NoOp
    PROVE  LET next == [t \in Threads |-> IF t = Poller THEN [Idle EXCEPT !.rest = Startup] ELSE Idle]
           IN  next \in [Threads -> Carried] /\ Lines(rows, recs, next, "starting")
  <1> DEFINE next == [t \in Threads |-> IF t = Poller THEN [Idle EXCEPT !.rest = Startup] ELSE Idle]
  <1>1. Idle \in Carried /\ Idle.rest = <<>> /\ Idle.pc = "next"
    BY DEF Idle, Carried, NoOp
  <1>2. ASSUME NEW z \in Carried
        PROVE  LET y == [z EXCEPT !.rest = Startup] IN y \in Carried /\ y.rest = Startup /\ y.pc = z.pc
    BY PassesAre DEF Carried
  <1>3. LET y == [Idle EXCEPT !.rest = Startup] IN y \in Carried /\ y.rest = Startup /\ y.pc = "next"
    BY <1>1, <1>2
  <1>4. /\ next \in [Threads -> Carried]
        /\ \A t \in Threads : next[t].pc = "next" /\ next[t].rest = IF t = Poller THEN Startup ELSE <<>>
        /\ Poller \in Threads /\ Poller \notin Ops /\ Ops \subseteq Threads
    BY <1>1, <1>3 DEF Threads, Poller, Ops
  <1> HIDE DEF next
  <1>5. LookInv(rows, next) /\ FenceInv(rows, recs, next) /\ \A o \in Ops : ~Retrying(next, o)
    BY <1>4 DEF LookInv, FenceInv, Fences, Recovers, Retrying
  <1>6. \A t \in Threads : ~Left(next, t, "settle")
    BY <1>4, PassesAre DEF Left
  <1>7. PassInv(rows, next, "starting")
    <2>1. \A t \in Threads : Ordered(next[t].rest)
      BY <1>4, PassesAre
    <2>2. \A t \in Threads : Left(next, t, "recover") \/ Left(next, t, "orphans") \/ Left(next, t, "serve") => t = Poller
      BY <1>4, PassesAre DEF Left
    <2>3. ~Recovers(next[Poller])
      BY <1>4 DEF Recovers
    <2> QED BY <1>4, <1>6, <2>1, <2>2, <2>3 DEF PassInv
  <1>8. RetryInv(rows, recs, next)
    BY <1>4, <1>5, <1>6 DEF RetryInv
  <1>9. AttemptInv(rows, recs, next)
    <2> SUFFICES ASSUME NEW a \in Ops PROVE AttemptOK(recs[a], Attempted(rows, next, a))
      BY DEF AttemptInv
    <2>1. Attempted(rows, next, a) \subseteq Attempted(rows, ths, a)
      BY <1>5 DEF Attempted
    <2>2. AttemptOK(recs[a], Attempted(rows, ths, a)) /\ recs[a].attempts \in Nat
      BY DEF Lines, AttemptInv, Recovery
    <2>3. IsFiniteSet(Attempted(rows, ths, a)) /\ IsFiniteSet(Attempted(rows, ths, a) \cup {recs[a].op})
      BY AttemptedIsFinite
    <2> QED BY <2>1, <2>2, <2>3, AttemptedLess
  <1>10. Lines(rows, recs, next, "starting")
    BY <1>5, <1>7, <1>8, <1>9 DEF Lines
  <1> QED BY <1>4, <1>10 DEF next

-----------------------------------------------------------------------------
(* One write at a time, all of it stays so. *)

(* Rows move on, and what became of Work is to be told. *)
LEMMA RowsGoOn ==
    ASSUME NEW x, NEW y, NEW rows, NEW cs, NEW ws, NEW ns, NEW recs, NEW ca, NEW ths, NEW b,
           All(x, y, rows, cs, ws, ns, recs, ca, ths, b),
           NEW next \in [Ops -> TaskRow], RowsMove(rows, next), NEW told \in [Ops -> Notice],
           \A o \in Ops : \/ told[o] = ns[o]
                          \/ rows[o].role = "work" /\ Live(rows, o) /\ ~Live(next, o)
    PROVE  All(x, y, next, cs, ws, told, recs, ca, ths, b)
  <1>1. /\ rows \in [Ops -> TaskRow] /\ recs \in [Ops -> Recovery] /\ ths \in [Threads -> Carried]
        /\ RowInv(rows) /\ Lines(rows, recs, ths, b)
    BY DEF All
  <1>2. RowInv(next) /\ Lines(next, recs, ths, b)
    BY <1>1, RowsMoved, LinesMoved
  <1>3. /\ \A o \in Ops :
             /\ next[o].role = rows[o].role /\ next[o].recovers = rows[o].recovers
             /\ next[o].alloc = rows[o].alloc /\ next[o].key = rows[o].key /\ next[o].auto = rows[o].auto
             /\ next[o].status = "none" <=> rows[o].status = "none"
             /\ Live(next, o) => Live(rows, o)
             /\ IsTurn(next, o) <=> IsTurn(rows, o)
        /\ Paid(next) = Paid(rows)
    BY <1>1, MovedFacts
  <1>4. PaidInv(x, next)
    <2>1. PaidInv(x, rows)
      BY DEF All
    <2> QED  BY <2>1, <1>3 DEF PaidInv
  <1>5. SpawnInv(next, cs, ws)
    <2>1. SpawnInv(rows, cs, ws) /\ ws \in [Keys -> Route]
      BY DEF All
    <2>2. \A o \in Ops : PaidWork(next, o) <=> PaidWork(rows, o)
      BY <1>3 DEF PaidWork
    <2>3. \A k \in Keys : ws[k].op # NoOp =>
            next[ws[k].op].role = "work" /\ \E o \in Ops : PaidWork(next, o) /\ next[o].key = k
      BY <2>1, <2>2, <1>3 DEF SpawnInv, Route
    <2> QED  BY <2>1, <2>2, <2>3, <1>3 DEF SpawnInv
  <1>6. NoticeInv(next, told)
    <2> SUFFICES ASSUME NEW o \in Ops, next[o].status \in {"none"} \cup LiveRow
                 PROVE  told[o].state = "none"
      BY DEF NoticeInv
    <2>1. rows[o].status \in {"none"} \cup LiveRow
      BY <1>3 DEF Live
    <2>2. CASE told[o] = ns[o]
      BY <2>1, <2>2 DEF All, NoticeInv
    <2>3. CASE told[o] # ns[o]
      <3>1. rows[o].role = "work" /\ Live(rows, o) /\ ~Live(next, o)
        BY <2>3
      <3> QED  BY <3>1, <1>3 DEF Live, LiveRow
    <2> QED  BY <2>2, <2>3
  <1>7. EndInv(x, next, cs, told)
    <2>1. EndInv(x, rows, cs, ns)
      BY DEF All
    <2>2. x.ending = "completed" =>
            /\ \A o \in Ops : told[o].state # "pending" /\ (Live(next, o) => IsTurn(next, o))
            /\ \A k \in Keys : cs[k].adm # "accepted"
      BY <2>1, <1>3 DEF EndInv, IsTurn
    <2>3. x.ending = "exhausted" =>
            \A o \in Ops : IsTurn(next, o) /\ Live(next, o) => RetriedIn(next, next[o].alloc)
      BY <2>1, <1>3 DEF EndInv, RetriedIn
    <2> QED  BY <2>1, <2>2, <2>3, <1>3 DEF EndInv
  <1> QED  BY <1>2, <1>4, <1>5, <1>6, <1>7 DEF All

(* A row is added, while the episode takes turns. *)
LEMMA RowComesIn ==
    ASSUME NEW x, NEW y, NEW rows, NEW cs, NEW ws, NEW ns, NEW recs, NEW ca, NEW ths, NEW b,
           All(x, y, rows, cs, ws, ns, recs, ca, ths, b),
           NEW c \in Ops, NEW row, NEW next, Added(rows, next, c, row),
           PaidFor(row, c) \/ \E o \in Ops : Continues(rows, row, o),
           NEW z \in Episode, RecordOK(z, y), z.status \in {"running", "stopping"},
           z.used = IF row.recovers = NoOp THEN x.used + 1 ELSE x.used,
           x.status = "none" => row.role = "orchestrator",
           SpentInv(z, ths),
           NEW dcs \in [Keys -> Command], NEW dws \in [Keys -> Route],
           SpawnInv(next, dcs, dws), CommandInv(z, dcs, ca, ths),
           row.role = "orchestrator" =>
             /\ row.recovers = NoOp => ~Fences(ths)
             /\ row.recovers # NoOp => ~Left(ths, Poller, "orphans")
             /\ row.auto => Retrying(ths, row.recovers) /\ ~rows[row.recovers].abandoned
    PROVE  All(z, y, next, dcs, dws, ns, recs, ca, ths, b)
  <1>1. /\ rows \in [Ops -> TaskRow] /\ recs \in [Ops -> Recovery] /\ ths \in [Threads -> Carried]
        /\ RowInv(rows) /\ Lines(rows, recs, ths, b)
    BY DEF All
  <1>2. RowInv(next) /\ Lines(next, recs, ths, b)
    BY <1>1, RowAdded, LinesAdded
  <1>3. /\ next \in [Ops -> TaskRow] /\ next[c] = row /\ rows[c] = NoTask
        /\ \A p \in Ops : p # c => next[p] = rows[p]
    BY <1>1, AddedFacts
  <1>4. PaidInv(z, next)
    <2>1. Cardinality(Paid(next)) = IF row.recovers = NoOp THEN Cardinality(Paid(rows)) + 1
                                    ELSE Cardinality(Paid(rows))
      BY <1>1, PaidAdded
    <2>2. PaidInv(x, rows)
      BY DEF All
    <2>3. Cardinality(Paid(next)) = z.used
      BY <2>1, <2>2 DEF PaidInv
    <2>4. \E o \in Ops : IsTurn(next, o)
      <3>1. CASE row.role = "orchestrator"
        BY <3>1, <1>3 DEF IsTurn
      <3>2. CASE x.status # "none"
        <4>1. PICK o \in Ops : IsTurn(rows, o)
          BY <3>2, <2>2 DEF PaidInv
        <4>2. o # c
          BY <4>1, <1>3 DEF IsTurn, NoTask
        <4> QED  BY <4>1, <4>2, <1>3 DEF IsTurn
      <3> QED  BY <3>1, <3>2
    <2> QED  BY <2>3, <2>4 DEF PaidInv
  <1>5. NoticeInv(next, ns)
    <2>1. NoticeInv(rows, ns)
      BY DEF All
    <2>2. ns[c].state = "none"
      BY <2>1, <1>3 DEF NoticeInv, NoTask
    <2> QED  BY <2>1, <2>2, <1>3 DEF NoticeInv
  <1>6. EndInv(z, next, dcs, ns)
    BY DEF EndInv, RecordOK
  <1> QED  BY <1>2, <1>3, <1>4, <1>5, <1>6 DEF All

(* The episode and its report are written. *)
EpStep(x, z, w) ==
    /\ RecordOK(z, w) /\ z.used = x.used /\ z.ceiling = x.ceiling
    /\ z.status = "none" <=> x.status = "none"
    /\ x.ending = "completed" => z.ending = "completed"

LEMMA RecordGoesOn ==
    ASSUME NEW x, NEW y, NEW rows, NEW cs, NEW ws, NEW ns, NEW recs, NEW ca, NEW ths, NEW b,
           All(x, y, rows, cs, ws, ns, recs, ca, ths, b),
           NEW z \in Episode, NEW w \in ReportRow, EpStep(x, z, w), EndInv(z, rows, cs, ns)
    PROVE  All(z, w, rows, cs, ws, ns, recs, ca, ths, b)
  <1>1. PaidInv(z, rows)
    BY DEF All, PaidInv, EpStep
  <1>2. CommandInv(z, cs, ca, ths)
    BY DEF All, CommandInv, CommandOK, Serves, Answerable, EpStep
  <1>3. SpentInv(z, ths)
    BY DEF All, SpentInv, EpStep
  <1> QED  BY <1>1, <1>2, <1>3 DEF All, EpStep

LEMMA EndStays ==
    ASSUME NEW x, NEW z, NEW rows, NEW cs, NEW ns, EndInv(x, rows, cs, ns), z.ending = x.ending,
           z.wrap \in {"pending", "running"} =>
             x.wrap \in {"pending", "running"} \/ \A o \in Ops : ~Live(rows, o)
    PROVE  EndInv(z, rows, cs, ns)
  BY DEF EndInv

(* A command is answered, or its admission and receipt are written. *)
LEMMA CommandGoesOn ==
    ASSUME NEW x, NEW y, NEW rows, NEW cs, NEW ws, NEW ns, NEW recs, NEW ca, NEW ths, NEW b,
           All(x, y, rows, cs, ws, ns, recs, ca, ths, b),
           NEW k \in Keys, NEW c \in Command, cs[k].by # NoOp, c.verb = cs[k].verb, c.by = cs[k].by,
           c.adm = cs[k].adm \/ (cs[k].adm = "accepted" /\ c.adm = "cancelled"),
           CommandOK(x, c)
    PROVE  All(x, y, rows, [cs EXCEPT ![k] = c], ws, ns, recs, ca, ths, b)
  <1> DEFINE next == [cs EXCEPT ![k] = c]
  <1>1. /\ next \in [Keys -> Command] /\ next[k] = c /\ \A j \in Keys : j # k => next[j] = cs[j]
        /\ ths \in [Threads -> Carried] /\ ca \in Service
    BY DEF All
  <1>2. \A j \in Keys : /\ next[j].verb = cs[j].verb /\ next[j].by = cs[j].by
                        /\ next[j].adm = "reflected" <=> cs[j].adm = "reflected"
                        /\ next[j].adm = "accepted" => cs[j].adm = "accepted"
                        /\ next[j].adm # "none" => cs[j].adm # "none"
    BY <1>1
  <1> HIDE DEF next
  <1>3. SpawnInv(rows, next, ws)
    BY <1>2 DEF All, SpawnInv
  <1>4. CommandInv(x, next, ca, ths)
    <2>1. CommandInv(x, cs, ca, ths)
      BY DEF All
    <2>2. \A j \in Keys : CommandOK(x, next[j])
      BY <2>1, <1>1 DEF CommandInv
    <2>3. Serves(x, next, ca)
      BY <2>1, <1>2 DEF CommandInv, Serves, Answerable
    <2>4. \A t \in Threads : Redrives(next, ths[t])
      BY <2>1, <1>2 DEF CommandInv, Redrives
    <2> QED  BY <2>2, <2>3, <2>4 DEF CommandInv
  <1>5. EndInv(x, rows, next, ns)
    BY <1>2 DEF All, EndInv
  <1> QED  BY <1>1, <1>3, <1>4, <1>5 DEF All, next

(* Another call is served. *)
LEMMA CallGoesOn ==
    ASSUME NEW x, NEW y, NEW rows, NEW cs, NEW ws, NEW ns, NEW recs, NEW ca, NEW ths, NEW b,
           All(x, y, rows, cs, ws, ns, recs, ca, ths, b), NEW d \in Service, Serves(x, cs, d)
    PROVE  All(x, y, rows, cs, ws, ns, recs, d, ths, b)
  BY DEF All, CommandInv

(* A thread goes on. *)
LEMMA ThreadGoesOn ==
    ASSUME NEW x, NEW y, NEW rows, NEW cs, NEW ws, NEW ns, NEW recs, NEW ca, NEW ths, NEW b,
           All(x, y, rows, cs, ws, ns, recs, ca, ths, b),
           NEW t \in Threads, NEW d, Follows(ths, t, d),
           Recovers(d) => t = Poller /\ LookOK(rows, d),
           d.pc = "retry" => recs[d.at].status = "pending" /\ recs[d.at].op = d.op,
           d.pc = "fence" => AllOver(rows, recs,
           ths) /\ d.rest # <<>> /\ x.status # "none" /\ ~(x.used < x.ceiling),
           Redrives(cs, d)
    PROVE  All(x, y, rows, cs, ws, ns, recs, ca, [ths EXCEPT ![t] = d], b)
  <1> DEFINE next == [ths EXCEPT ![t] = d]
  <1>1. next \in [Threads -> Carried] /\ Lines(rows, recs, next, b)
    BY LinesThread DEF All
  <1>2. next[t] = d /\ \A u \in Threads : u # t => next[u] = ths[u]
    BY DEF All
  <1> HIDE DEF next
  <1>3. CommandInv(x, cs, ca, next)
    BY <1>2 DEF All, CommandInv
  <1>4. SpentInv(x, next)
    BY <1>2 DEF All, SpentInv
  <1> QED  BY <1>1, <1>3, <1>4 DEF All, next

(* Recoveries are written; the process starts, serves or is down. *)
LEMMA RecoveriesGoOn ==
    ASSUME NEW x, NEW y, NEW rows, NEW cs, NEW ws, NEW ns, NEW recs, NEW ca, NEW ths, NEW b,
           All(x, y, rows, cs, ws, ns, recs, ca, ths, b),
           NEW next \in [Ops -> Recovery], Lines(rows, next, ths, b)
    PROVE  All(x, y, rows, cs, ws, ns, next, ca, ths, b)
  BY DEF All

LEMMA ProcessGoesOn ==
    ASSUME NEW x, NEW y, NEW rows, NEW cs, NEW ws, NEW ns, NEW recs, NEW ca, NEW ths, NEW b,
           All(x, y, rows, cs, ws, ns, recs, ca, ths, b), ~Left(ths, Poller, "orphans"),
           NEW next \in {"serving", "starting", "down"}
    PROVE  All(x, y, rows, cs, ws, ns, recs, ca, ths, next)
  <1>1. Lines(rows, recs, ths, next)
    BY DEF All, Lines, PassInv
  <1> QED  BY <1>1 DEF All

(* Notices are handed over. *)
LEMMA NoticesGoOn ==
    ASSUME NEW x, NEW y, NEW rows, NEW cs, NEW ws, NEW ns, NEW recs, NEW ca, NEW ths, NEW b,
           All(x, y, rows, cs, ws, ns, recs, ca, ths, b),
           NEW xs, xs \subseteq Pending(ns), NEW state \in {"delivered", "acknowledged"}, NEW by \in Nat
    PROVE  All(x, y, rows, cs, ws, Hand(ns, xs, state, by), recs, ca, ths, b)
  <1> DEFINE next == Hand(ns, xs, state, by)
  <1>1. ns \in [Ops -> Notice] /\ NoticeInv(rows, ns) /\ EndInv(x, rows, cs, ns)
    BY DEF All
  <1>2. next = [o \in Ops |-> IF o \in xs THEN [state |-> state, by |-> by] ELSE ns[o]]
    BY <1>1 DEF Hand
  <1>3. next \in [Ops -> Notice]
    BY <1>1, <1>2 DEF Notice
  <1>4. \A o \in Ops : o \in xs => ns[o].state = "pending"
    BY DEF Pending
  <1>5. \A o \in Ops : next[o] = ns[o] \/ (ns[o].state = "pending" /\ next[o].state = state)
    BY <1>2, <1>4
  <1> HIDE DEF next
  <1>6. NoticeInv(rows, next)
    BY <1>1, <1>5 DEF NoticeInv
  <1>7. EndInv(x, rows, cs, next)
    BY <1>1, <1>5 DEF EndInv
  <1> QED  BY <1>3, <1>6, <1>7 DEF All, next

-----------------------------------------------------------------------------
(* The steps that serve a command. *)
LEMMA OneEpisode ==
    ASSUME Shape
    PROVE  Episodes = {This} /\ This \in Episodes /\ ep[This] \in Episode /\ report[This] \in ReportRow
  BY LedgerAssumption DEF Shape, Episodes, This

LEMMA Parts ==
    ASSUME IInv
    PROVE  /\ Shape /\ All(ep[This], report[This], task, cmd, work, notice, rec, call, thr, boot)
           /\ ep[This] \in Episode /\ report[This] \in ReportRow
           /\ task \in [Ops -> TaskRow] /\ cmd \in [Keys -> Command] /\ work \in [Keys -> Route]
           /\ notice \in [Ops -> Notice] /\ rec \in [Ops -> Recovery] /\ call \in Service
           /\ thr \in [Threads -> Carried] /\ boot \in {"serving", "starting", "down"}
           /\ RecordOK(ep[This], report[This]) /\ RowInv(task) /\ PaidInv(ep[This], task)
           /\ SpawnInv(task, cmd, work) /\ CommandInv(ep[This], cmd, call, thr) /\ NoticeInv(task, notice)
           /\ EndInv(ep[This], task, cmd, notice) /\ Lines(task, rec, thr, boot) /\ SpentInv(ep[This], thr)
  BY OneEpisode DEF IInv, All

LEMMA ShapeStays ==
    ASSUME Shape, UNCHANGED <<reportVars, mail, plan>>
    PROVE  Shape'
  BY DEF Shape, reportVars

LEMMA CallMoves ==
    ASSUME IInv, UNCHANGED <<ledgerVars, plan, thr, boot>>, call' \in Service, Serves(ep[This], cmd, call')
    PROVE  IInv'
  <1>1. All(ep[This], report[This], task, cmd, work, notice, rec, call', thr, boot)
    BY Parts, CallGoesOn
  <1>2. Shape'
    BY Parts, ShapeStays DEF ledgerVars
  <1> QED  BY <1>1, <1>2 DEF IInv, ledgerVars, reportVars

LEMMA RepeatStep ==
    ASSUME IInv, NEW o \in Ops, NEW k \in Keys, Repeat(o, k)
    PROVE  IInv'
  <1>1. call' \in Service /\ Serves(ep[This], cmd, call')
    BY DEF Repeat, Service, Serves
  <1> QED  BY <1>1, CallMoves DEF Repeat

LEMMA GuardStep ==
    ASSUME IInv, Guard
    PROVE  IInv'
  <1>1. call \in Service /\ CommandInv(ep[This], cmd, call, thr)
    BY Parts
  <1>2. call' \in Service /\ Serves(ep[This], cmd, call')
    BY <1>1 DEF Guard, Goes, Answering, Service, Serves, CommandInv, Answerable
  <1> QED  BY <1>2, CallMoves DEF Guard

LEMMA ProveStep ==
    ASSUME IInv, Prove
    PROVE  IInv'
  <1>1. /\ call \in Service /\ CommandInv(ep[This], cmd, call, thr) /\ cmd \in [Keys -> Command]
        /\ SpawnInv(task, cmd, work)
    BY Parts
  <1>2. call.step = "prove" /\ call.key \in Keys /\ cmd[call.key].by # NoOp
    BY <1>1 DEF Prove, CommandInv, Serves
  <1>3. Goes("guard") => call' \in Service /\ Serves(ep[This], cmd, call')
    BY <1>1, <1>2 DEF Goes, Service, Serves
  <1>4. ASSUME Proven(call.key), NEW out \in {"invalid", "ok"}, Answering(out),
               out = IF cmd[call.key].receipt = "blocked" THEN "invalid" ELSE "ok"
        PROVE  call' \in Service /\ Serves(ep[This], cmd, call')
    <2>1. call' \in Service /\ call'.key = call.key /\ call'.step = "answer" /\ call'.out = out
      BY <1>1, <1>4 DEF Answering, Service
    <2>2. ASSUME out = "ok", cmd[call.key].verb = "spawn" PROVE cmd[call.key].adm = "reflected"
      BY <1>1, <1>2, <1>4, <2>2 DEF Proven, SpawnInv
    <2>3. ASSUME out = "ok", cmd[call.key].verb = "finish" PROVE ep[This].ending = "completed"
      <3>1. cmd[call.key].receipt # "none"
        BY <1>4, <2>3 DEF Proven
      <3>2. cmd[call.key].receipt \in {"taken", "completed"}
        BY <3>1, <1>1, <1>2, <1>4, <2>3 DEF Command
      <3> QED  BY <3>2, <2>3, <1>1, <1>2 DEF CommandInv, CommandOK
    <2> QED  BY <2>1, <2>2, <2>3, <1>2 DEF Serves, Answerable
  <1>5. call' \in Service /\ Serves(ep[This], cmd, call')
    BY <1>3, <1>4 DEF Prove
  <1> QED  BY <1>5, CallMoves DEF Prove

(* The exit a command is given is one it can be given. *)
LEMMA Exits ==
    ASSUME IInv, NEW k \in Keys, cmd[k].by # NoOp, NEW out \in {"none", "ok", "invalid", "unavailable"},
           Answerable(ep[This], cmd[k], out),
           NEW ca, NEW ths, All(ep[This], report[This], task, cmd, work, notice, rec, ca, ths, boot)
    PROVE  LET next == [cmd EXCEPT ![k].exit = IF @ = "none" THEN out ELSE @]
           IN  All(ep[This], report[This], task, next, work, notice, rec, ca, ths, boot)
  <1> DEFINE c == [cmd[k] EXCEPT !.exit = IF @ = "none" THEN out ELSE @]
  <1>1. cmd \in [Keys -> Command] /\ CommandOK(ep[This], cmd[k])
    BY Parts DEF CommandInv
  <1>2. /\ c \in Command /\ c.verb = cmd[k].verb /\ c.by = cmd[k].by /\ c.adm = cmd[k].adm
        /\ c.receipt = cmd[k].receipt /\ c.exit = IF cmd[k].exit = "none" THEN out ELSE cmd[k].exit
    BY <1>1 DEF Command
  <1>3. CommandOK(ep[This], c)
    BY <1>1, <1>2 DEF CommandOK, Answerable
  <1>4. [cmd EXCEPT ![k].exit = IF @ = "none" THEN out ELSE @] = [cmd EXCEPT ![k] = c]
    BY <1>1
  <1> QED  BY <1>1, <1>2, <1>3, <1>4, CommandGoesOn

LEMMA AnswerStep ==
    ASSUME IInv, Answer
    PROVE  IInv'
  <1>1. /\ All(ep[This], report[This], task, cmd, work, notice, rec, call, thr, boot) /\ Shape
        /\ CommandInv(ep[This], cmd, call, thr) /\ call \in Service /\ NoCall \in Service
    BY Parts DEF NoCall, Service
  <1>2. call.key \in Keys /\ cmd[call.key].by # NoOp /\ Answerable(ep[This], cmd[call.key], call.out)
    BY <1>1 DEF Answer, CommandInv, Serves
  <1>3. call.out \in {"none", "ok", "invalid", "unavailable"}
    BY <1>1 DEF Service
  <1>4. All(ep[This], report[This], task, cmd, work, notice, rec, NoCall, thr, boot)
    BY <1>1, CallGoesOn DEF Serves, NoCall
  <1>5. All(ep[This], report[This], task, cmd', work, notice, rec, NoCall, thr, boot)
    BY <1>2, <1>3, <1>4, Exits DEF Answer, finish_agent_command
  <1> QED  BY <1>1, <1>5, ShapeStays DEF IInv, Answer, reportVars

LEMMA IssueStep ==
    ASSUME IInv, NEW o \in Ops, NEW k \in Keys, Issue(o, k)
    PROVE  IInv'
  <1> DEFINE v == plan.commands[k].verb
             f == plan.commands[k].of
             c == [NoCommand EXCEPT !.verb = v, !.of = f, !.by = o,
                     !.adm = IF v = "spawn" /\ Accepting THEN "accepted" ELSE "none"]
             x == ep[This]
  <1>1. /\ All(x, report[This], task, cmd, work, notice, rec, call, thr, boot) /\ Shape
        /\ cmd \in [Keys -> Command] /\ thr \in [Threads -> Carried]
        /\ SpawnInv(task, cmd, work) /\ CommandInv(x, cmd, call, thr) /\ EndInv(x, task, cmd, notice)
    BY Parts
  <1>2. v \in Verbs /\ f \in 0..MaxKeys
    <2> DEFINE S == [verb : Verbs, of : 0..MaxKeys]
               q == plan.commands
    <2>1. q \in Seq(S) /\ k \in DOMAIN q
      BY <1>1 DEF Issue, Shape
    <2> HIDE DEF q, S
    <2>2. q[k] \in S
      BY <2>1
    <2> QED  BY <2>2 DEF q, S
  <1>3. cmd' = [cmd EXCEPT ![k] = c] /\ cmd[k] = NoCommand
    BY <1>1 DEF Issue, start_agent_command, CommandInv, CommandOK
  <1>4. /\ c \in Command /\ c.by = o /\ c.verb = v /\ c.exit = "none" /\ c.receipt = "none"
        /\ c.adm = IF v = "spawn" /\ Accepting THEN "accepted" ELSE "none"
    BY <1>2 DEF NoCommand, Command
  <1> HIDE DEF c, v, f, x
  <1>5. /\ cmd' \in [Keys -> Command] /\ cmd'[k] = c /\ \A j \in Keys : j # k => cmd'[j] = cmd[j]
    BY <1>1, <1>3, <1>4
  <1>6. call' = [step |-> "guard", key |-> k, fresh |-> TRUE, out |-> "none"] /\ call' \in Service
    BY DEF Issue, Service
  <1>7. o # NoOp /\ NoCommand.adm = "none" /\ NoCommand.by = NoOp
    BY DEF Ops, NoOp, NoCommand
  <1>8. SpawnInv(task, cmd', work)
    BY <1>1, <1>3, <1>4, <1>5, <1>7 DEF SpawnInv
  <1>9. CommandInv(x, cmd', call', thr)
    <2>1. CommandOK(x, c)
      BY <1>4, <1>7 DEF CommandOK, Answerable
    <2>2. Serves(x, cmd', call')
      BY <1>4, <1>5, <1>6, <1>7 DEF Serves
    <2>3. \A t \in Threads : Redrives(cmd', thr[t])
      BY <1>1, <1>3, <1>5, <1>7 DEF CommandInv, Redrives
    <2> QED  BY <2>1, <2>2, <2>3, <1>1, <1>5 DEF CommandInv
  <1>10. EndInv(x, task, cmd', notice)
    <2>1. c.adm = "accepted" => x.ending = "none"
      BY <1>4 DEF Accepting, x
    <2> QED  BY <2>1, <1>1, <1>5 DEF EndInv
  <1>11. All(x, report[This], task, cmd', work, notice, rec, call', thr, boot)
    BY <1>1, <1>5, <1>6, <1>8, <1>9, <1>10 DEF All
  <1> QED  BY <1>1, <1>11, ShapeStays DEF IInv, Issue, reportVars, x

(* A row is paid for. *)
LEMMA Payment ==
    ASSUME IInv, Accepting, Affordable
    PROVE  LET z == [ep[This] EXCEPT !.used = @ + 1]
               e == [ep EXCEPT ![This].used = @ + 1]
           IN  /\ e \in [Episodes -> Episode] /\ e[This] = z
               /\ z \in Episode /\ RecordOK(z, report[This]) /\ z.status = "running"
               /\ z.used = ep[This].used + 1 /\ z.ending = ep[This].ending
               /\ SpentInv(z, thr) /\ ~Fences(thr) /\ ep[This].status = "running"
  <1> DEFINE x == ep[This]
             z == [x EXCEPT !.used = @ + 1]
  <1>1. x \in Episode /\ RecordOK(x, report[This]) /\ SpentInv(x, thr) /\ Shape /\ Episodes = {This}
    BY Parts, OneEpisode
  <1>2. x.status = "running" /\ x.ending = "none" /\ ~x.stop /\ x.used < x.ceiling
    BY DEF Accepting, Affordable
  <1>3. x.used \in Nat /\ x.ceiling \in 0..Ceiling /\ Ceiling \in Nat
    BY <1>1, LedgerAssumption DEF Episode
  <1>4. /\ z \in Episode /\ z.used = x.used + 1 /\ z.ceiling = x.ceiling /\ z.status = x.status
        /\ z.ending = x.ending /\ z.stop = x.stop /\ z.wrap = x.wrap
    BY <1>1, <1>3 DEF Episode
  <1>5. [ep EXCEPT ![This].used = @ + 1] = [ep EXCEPT ![This] = z]
    BY <1>1 DEF Shape
  <1>6. /\ [ep EXCEPT ![This] = z] \in [Episodes -> Episode] /\ [ep EXCEPT ![This] = z][This] = z
    BY <1>1, <1>4 DEF Shape
  <1> HIDE DEF x, z
  <1>7. z.used <= z.ceiling
    BY <1>2, <1>3, <1>4
  <1>8. RecordOK(z, report[This])
    BY <1>1, <1>2, <1>4, <1>7 DEF RecordOK, Ended
  <1>9. ~Fences(thr)
    BY <1>1, <1>2 DEF SpentInv, Fences
  <1> QED  BY <1>2, <1>4, <1>5, <1>6, <1>8, <1>9 DEF SpentInv, Fences, x, z

(* A turn joins the rows that are Work in no way. *)
LEMMA TurnIsNoWork ==
    ASSUME NEW rows \in [Ops -> TaskRow], NEW cs, NEW ws \in [Keys -> Route], SpawnInv(rows, cs, ws),
           NEW c \in Ops, NEW row \in TaskRow, rows[c] = NoTask, row.role = "orchestrator"
    PROVE  SpawnInv([rows EXCEPT ![c] = row], cs, ws)
  <1> DEFINE next == [rows EXCEPT ![c] = row]
  <1>1. next[c] = row /\ \A p \in Ops : p # c => next[p] = rows[p]
    OBVIOUS
  <1>2. \A p \in Ops : next[p].role = "work" <=> rows[p].role = "work"
    BY <1>1 DEF NoTask
  <1>3. \A p \in Ops : rows[p].role = "work" => next[p] = rows[p]
    BY <1>1 DEF NoTask
  <1> HIDE DEF next
  <1>4. \A p \in Ops : PaidWork(next, p) <=> PaidWork(rows, p)
    BY <1>2, <1>3 DEF PaidWork
  <1>5. \A p \in Ops : PaidWork(rows, p) => next[p].key = rows[p].key
    BY <1>3 DEF PaidWork
  <1>6. \A k \in Keys : ws[k].op # NoOp => ws[k].op \in Ops
    BY DEF Route
  <1>7. \A p \in Ops : next[p].role = "work" /\ Live(next, p) => rows[p].role = "work" /\ Live(rows, p)
    BY <1>2, <1>3 DEF Live
  <1> QED  BY <1>2, <1>4, <1>5, <1>6, <1>7 DEF SpawnInv, next

(* create_auto_research_child_work *)
LEMMA WorkIsSeated ==
    ASSUME IInv, NEW k \in Keys, ChildAccepted(k), NEW o \in Ops, Fresh(o), create_auto_research_child_work(k, o)
    PROVE  /\ All(ep'[This], report[This], task', cmd', work', notice, rec, call, thr, boot)
           /\ ep' \in [Episodes -> Episode] /\ ep'[This].ending = ep[This].ending
           /\ cmd'[k].adm = "reflected" /\ cmd'[k].by # NoOp /\ \A j \in Keys : cmd'[j].by = cmd[j].by
           /\ cmd'[k].verb = "spawn"
  <1> DEFINE row == [NoTask EXCEPT !.role = "work", !.status = "live", !.alloc = o, !.key = k,
                                   !.session = FALSE]
             x == ep[This]
             z == [x EXCEPT !.used = @ + 1]
             d == [cmd[k] EXCEPT !.adm = "reflected"]
             r == [work[k] EXCEPT !.op = o]
  <1>1. /\ All(x, report[This], task, cmd, work, notice, rec, call, thr, boot)
        /\ task \in [Ops -> TaskRow] /\ cmd \in [Keys -> Command] /\ work \in [Keys -> Route]
        /\ RowInv(task) /\ SpawnInv(task, cmd, work) /\ CommandInv(x, cmd, call, thr)
    BY Parts
  <1>2. /\ Accepting /\ Affordable /\ work[k].op = NoOp /\ cmd[k].adm = "accepted"
    BY <1>1 DEF ChildAccepted, SpawnInv
  <1>3. /\ ep' \in [Episodes -> Episode] /\ ep'[This] = z
        /\ z \in Episode /\ RecordOK(z, report[This]) /\ z.status = "running"
        /\ z.used = x.used + 1 /\ z.ending = x.ending
        /\ SpentInv(z, thr) /\ ~Fences(thr) /\ x.status = "running"
    BY <1>2, Payment DEF create_auto_research_child_work, Pay
  <1>4. task' = [task EXCEPT ![o] = row]
    BY DEF create_auto_research_child_work, Pay, Insert
  <1>5. /\ row \in TaskRow /\ row.status = "live" /\ row.role = "work" /\ ~row.abandoned /\ ~row.structural
        /\ row.recovers = NoOp /\ row.alloc = o /\ ~row.auto /\ row.key = k
    BY DEF NoTask, TaskRow, LiveRow
  <1>6. IsLast(task, o)
    BY <1>1, FreshIsLast
  <1> HIDE DEF row, z, x
  <1>7. Added(task, task', o, row) /\ PaidFor(row, o)
    BY <1>4, <1>5, <1>6 DEF Added, PaidFor
  <1>8. /\ task' \in [Ops -> TaskRow] /\ task'[o] = row /\ task[o] = NoTask
        /\ \A p \in Ops : p # o => task'[p] = task[p]
    BY <1>1, <1>7, AddedFacts
  <1>9. /\ work' = [work EXCEPT ![k] = r] /\ r \in Route /\ r.op = o
        /\ work' \in [Keys -> Route] /\ work'[k].op = o /\ \A j \in Keys : j # k => work'[j] = work[j]
    BY <1>1 DEF create_auto_research_child_work, Route
  <1>10. /\ cmd' = [cmd EXCEPT ![k] = d] /\ d \in Command /\ d.adm = "reflected" /\ d.verb = cmd[k].verb
         /\ d.by = cmd[k].by /\ d.exit = cmd[k].exit /\ d.receipt = cmd[k].receipt
    BY <1>1 DEF create_auto_research_child_work, Command
  <1> HIDE DEF d, r
  <1>11. cmd' \in [Keys -> Command] /\ cmd'[k] = d /\ \A j \in Keys : j # k => cmd'[j] = cmd[j]
    BY <1>1, <1>10
  <1>12. o # NoOp /\ NoTask.role = "none" /\ NoCommand.adm = "none" /\ o \in Ops
    BY DEF Ops, NoOp, NoTask, NoCommand
  <1>13. cmd[k].verb = "spawn" /\ cmd[k].by # NoOp
    BY <1>1, <1>2, <1>12 DEF SpawnInv, CommandInv, CommandOK
  <1>14. \A p \in Ops : PaidWork(task', p) <=> p = o \/ PaidWork(task, p)
    BY <1>5, <1>8 DEF PaidWork
  <1>15. ~PaidWork(task, o) /\ \A p \in Ops : PaidWork(task, p) => p # o /\ task[p].key # k
    BY <1>1, <1>2, <1>8, <1>12 DEF PaidWork, SpawnInv
  <1>16. SpawnInv(task', cmd', work')
    <2>1. \A j \in Keys : cmd'[j].adm # "none" => cmd'[j].verb = "spawn"
      BY <1>1, <1>10, <1>11, <1>13 DEF SpawnInv
    <2>2. \A j \in Keys : cmd'[j].adm = "reflected" <=> work'[j].op # NoOp
      BY <1>1, <1>9, <1>10, <1>11, <1>12 DEF SpawnInv
    <2>3. ASSUME NEW j \in Keys, work'[j].op # NoOp
          PROVE  task'[work'[j].op].role = "work" /\ \E p \in Ops : PaidWork(task', p) /\ task'[p].key = j
      <3>1. CASE j = k
        BY <3>1, <1>5, <1>8, <1>9, <1>14
      <3>2. CASE j # k
        <4>1. /\ work'[j] = work[j] /\ work[j].op \in Ops /\ task[work[j].op].role = "work"
              /\ \E p \in Ops : PaidWork(task, p) /\ task[p].key = j
          BY <3>2, <2>3, <1>1, <1>9 DEF SpawnInv, Route
        <4> QED  BY <4>1, <1>8, <1>12, <1>14, <1>15
      <3> QED  BY <3>1, <3>2
    <2>4. \A p \in Ops : PaidWork(task', p) => task'[p].key \in Keys /\ work'[task'[p].key].op # NoOp
      BY <1>1, <1>5, <1>8, <1>9, <1>12, <1>14, <1>15 DEF SpawnInv
    <2>5. \A p, q \in Ops : PaidWork(task', p) /\ PaidWork(task', q) /\ task'[p].key = task'[q].key => p = q
      BY <1>1, <1>5, <1>8, <1>14, <1>15 DEF SpawnInv
    <2>6. ASSUME NEW p \in Ops, task'[p].role = "work", Live(task', p) PROVE \E j \in Keys : work'[j].op = p
      <3>1. CASE p = o
        BY <3>1, <1>9
      <3>2. CASE p # o
        <4>1. PICK j \in Keys : work[j].op = p
          BY <3>2, <2>6, <1>1, <1>8 DEF SpawnInv, Live
        <4>2. j # k
          BY <4>1, <1>2 DEF NoOp, Ops
        <4> QED  BY <4>1, <4>2, <1>9
      <3> QED  BY <3>1, <3>2
    <2> QED  BY <2>1, <2>2, <2>3, <2>4, <2>5, <2>6 DEF SpawnInv
  <1>17. CommandInv(z, cmd', call, thr)
    <2>0. \A j \in Keys : /\ cmd'[j].by = cmd[j].by /\ cmd'[j].verb = cmd[j].verb /\ cmd'[j].exit = cmd[j].exit
                          /\ cmd'[j].receipt = cmd[j].receipt
                          /\ cmd[j].adm = "reflected" => cmd'[j].adm = "reflected"
      BY <1>10, <1>11
    <2>1. \A j \in Keys : CommandOK(z, cmd'[j])
      <3>1. CommandOK(z, d)
        BY <1>1, <1>3, <1>10, <1>13 DEF CommandInv, CommandOK, Answerable
      <3> QED  BY <3>1, <1>1, <1>3, <1>11 DEF CommandInv, CommandOK, Answerable
    <2>2. Serves(z, cmd', call)
      BY <2>0, <1>1, <1>3 DEF CommandInv, Serves, Answerable
    <2>3. \A t \in Threads : Redrives(cmd', thr[t])
      BY <2>0, <1>1 DEF CommandInv, Redrives
    <2> QED  BY <2>1, <2>2, <2>3 DEF CommandInv
  <1>18. All(z, report[This], task', cmd', work', notice, rec, call, thr, boot)
    <2>1. /\ z.used = IF row.recovers = NoOp THEN x.used + 1 ELSE x.used
          /\ z.status \in {"running", "stopping"} /\ x.status # "none" /\ row.role # "orchestrator"
          /\ z \in Episode /\ RecordOK(z, report[This]) /\ SpentInv(z, thr)
          /\ work' \in [Keys -> Route] /\ cmd' \in [Keys -> Command]
      BY <1>3, <1>5, <1>9, <1>11
    <2>2. Added(task, task', o, row) /\ (PaidFor(row, o) \/ \E p \in Ops : Continues(task, row, p))
      BY <1>7
    <2> QED  BY <1>1, <2>1, <2>2, <1>16, <1>17, RowComesIn
  <1>19. ep'[This].ending = x.ending
    BY <1>3
  <1> QED  BY <1>18, <1>3, <1>19, <1>10, <1>11, <1>13 DEF x

LEMMA RowGoesOn ==
    ASSUME NEW x, NEW y, NEW rows, NEW cs, NEW ws, NEW ns, NEW recs, NEW ca, NEW ths, NEW b,
           All(x, y, rows, cs, ws, ns, recs, ca, ths, b),
           NEW o \in Ops, NEW row \in TaskRow, Moved(rows[o], row),
           rows[o].role = "work" /\ Live(rows, o) => row.status \in LiveRow
    PROVE  All(x, y, [rows EXCEPT ![o] = row], cs, ws, ns, recs, ca, ths, b)
  <1> DEFINE next == [rows EXCEPT ![o] = row]
  <1>1. rows \in [Ops -> TaskRow] /\ RowInv(rows) /\ ns \in [Ops -> Notice]
    BY DEF All
  <1>2. next \in [Ops -> TaskRow] /\ next[o] = row /\ \A p \in Ops : p # o => next[p] = rows[p]
    BY <1>1
  <1> HIDE DEF next
  <1>3. RowsMove(rows, next)
    BY <1>1, <1>2, StaysAsItIs DEF RowsMove
  <1> QED  BY <1>1, <1>2, <1>3, RowsGoOn DEF next

LEMMA RoutesGoOn ==
    ASSUME NEW x, NEW y, NEW rows, NEW cs, NEW ws, NEW ns, NEW recs, NEW ca, NEW ths, NEW b,
           All(x, y, rows, cs, ws, ns, recs, ca, ths, b),
           NEW next \in [Keys -> Route], \A k \in Keys : next[k].op = ws[k].op
    PROVE  All(x, y, rows, cs, next, ns, recs, ca, ths, b)
  <1>1. SpawnInv(rows, cs, next)
    BY DEF All, SpawnInv
  <1> QED  BY <1>1 DEF All

LEMMA Answers ==
    ASSUME NEW x, NEW y, NEW rows, NEW cs, NEW ws, NEW ns, NEW recs, NEW ths, NEW b,
           All(x, y, rows, cs, ws, ns, recs, call, ths, b),
           call.step = "execute", NEW out \in {"ok", "invalid", "unavailable"}, Answering(out),
           Answerable(x, cs[call.key], out)
    PROVE  All(x, y, rows, cs, ws, ns, recs, call', ths, b)
  <1>1. call \in Service /\ Serves(x, cs, call)
    BY DEF All, CommandInv
  <1>2. call' \in Service /\ call'.step = "answer" /\ call'.key = call.key /\ call'.out = out
    BY <1>1 DEF Answering, Service
  <1>3. Serves(x, cs, call')
    BY <1>1, <1>2 DEF Serves
  <1> QED  BY <1>2, <1>3, CallGoesOn

LEMMA Executes ==
    ASSUME IInv, Execute
    PROVE  /\ All(ep[This], report[This], task, cmd, work, notice, rec, call, thr, boot) /\ Shape
           /\ call.step = "execute" /\ call.key \in Keys /\ cmd[call.key].by # NoOp
           /\ cmd[call.key] \in Command /\ Raised \in {"invalid", "unavailable"}
           /\ UNCHANGED <<plan, thr, boot>>
  BY Parts DEF Execute, CommandInv, Serves, Raised

LEMMA SpawnStep ==
    ASSUME IInv, Execute, Spawn
    PROVE  IInv'
  <1> DEFINE k == call.key
             x == ep[This]
  <1>1. /\ All(x, report[This], task, cmd, work, notice, rec, call, thr, boot) /\ Shape
        /\ call.step = "execute" /\ k \in Keys /\ cmd[k].by # NoOp /\ cmd[k] \in Command
        /\ Raised \in {"invalid", "unavailable"} /\ UNCHANGED <<plan, thr, boot, notice, mail, rec>>
    BY Executes DEF Spawn
  <1>2. CASE ChildAccepted(k) /\ Answering("ok") /\ UNCHANGED <<report, budget>>
             /\ \E o \in Ops : Fresh(o) /\ create_auto_research_child_work(k, o)
    <2>1. PICK o \in Ops : Fresh(o) /\ create_auto_research_child_work(k, o)
      BY <1>2
    <2>2. /\ All(ep'[This], report[This], task', cmd', work', notice, rec, call, thr, boot)
          /\ ep' \in [Episodes -> Episode] /\ cmd'[k].adm = "reflected" /\ cmd'[k].verb = "spawn"
      BY <1>1, <1>2, <2>1, WorkIsSeated
    <2>3. All(ep'[This], report[This], task', cmd', work', notice, rec, call', thr, boot)
      BY <1>1, <1>2, <2>2, Answers DEF Answerable
    <2> QED  BY <1>1, <1>2, <2>2, <2>3 DEF IInv, Shape
  <1>3. CASE ~ChildAccepted(k) /\ Answering(Raised) /\ UNCHANGED <<reportVars, task, work, budget>>
             /\ IF work[k].op = NoOp THEN cancel_auto_research_child_admission(k) ELSE UNCHANGED cmd
    <2>1. All(x, report[This], task, cmd', work, notice, rec, call, thr, boot)
      <3>1. CASE work[k].op = NoOp
        <4> DEFINE c == [cmd[k] EXCEPT !.adm = IF @ = "accepted" THEN "cancelled" ELSE @]
        <4>1. cmd' = [cmd EXCEPT ![k] = c] /\ cmd \in [Keys -> Command] /\ CommandInv(x, cmd, call, thr)
          BY <1>3, <3>1, Parts DEF cancel_auto_research_child_admission
        <4>2. /\ c \in Command /\ c.verb = cmd[k].verb /\ c.by = cmd[k].by /\ c.exit = cmd[k].exit
              /\ c.receipt = cmd[k].receipt
              /\ c.adm = cmd[k].adm \/ (cmd[k].adm = "accepted" /\ c.adm = "cancelled")
          BY <1>1, <4>1 DEF Command
        <4> HIDE DEF c
        <4>3. CommandOK(x, c)
          BY <1>1, <4>1, <4>2 DEF CommandInv, CommandOK, Answerable
        <4> QED  BY <1>1, <4>1, <4>2, <4>3, CommandGoesOn
      <3>2. CASE work[k].op # NoOp
        BY <1>1, <1>3, <3>2
      <3> QED  BY <3>1, <3>2
    <2>2. All(x, report[This], task, cmd', work, notice, rec, call', thr, boot)
      BY <1>1, <1>3, <2>1, Answers DEF Answerable
    <2> QED  BY <1>1, <1>3, <2>2, ShapeStays DEF IInv, reportVars
  <1>4. CASE Spend("faults") /\ Answering("unavailable") /\ UNCHANGED <<reportVars, task, work, cmd>>
    <2>1. All(x, report[This], task, cmd, work, notice, rec, call', thr, boot)
      BY <1>1, <1>4, Answers DEF Answerable
    <2> QED  BY <1>1, <1>4, <2>1, ShapeStays DEF IInv, reportVars
  <1> QED  BY <1>2, <1>3, <1>4 DEF Spawn

(* The row a route leads to. *)
LEMMA LeafIs ==
    ASSUME IInv, NEW w, Leaf(w).status # "none"
    PROVE  /\ w \in Keys /\ work[w].op \in Ops /\ Leaf(w) = task[work[w].op]
           /\ task[work[w].op].role = "work" /\ task[work[w].op].status = Leaf(w).status
           /\ task[work[w].op] \in TaskRow /\ RowOK(task, work[w].op)
  <1>1. work \in [Keys -> Route] /\ SpawnInv(task, cmd, work) /\ RowInv(task) /\ task \in [Ops -> TaskRow]
    BY Parts
  <1>2. w \in Keys /\ work[w].op # NoOp /\ Leaf(w) = task[work[w].op]
    BY DEF Leaf, NoTask
  <1>3. work[w].op \in Ops
    BY <1>1, <1>2 DEF Route
  <1> QED  BY <1>1, <1>2, <1>3 DEF SpawnInv, RowInv

LEMMA PauseStep ==
    ASSUME IInv, Execute, Pause
    PROVE  IInv'
  <1> DEFINE x == ep[This]
             o == work[Of].op
             row == [task[o] EXCEPT !.status = "pausing"]
  <1>1. /\ All(x, report[This], task, cmd, work, notice, rec, call, thr, boot) /\ Shape
        /\ call.step = "execute" /\ Raised \in {"invalid", "unavailable"} /\ task \in [Ops -> TaskRow]
        /\ UNCHANGED <<reportVars, plan, thr, boot, cmd, work, notice, mail, rec>>
    BY Executes, Parts DEF Pause
  <1>2. \A out : Answerable(x, cmd[call.key], out)
    BY DEF Pause, Verb, Answerable
  <1>3. CASE Leaf(Of).status = "live" /\ ~work[Of].stop
    <2>1. o \in Ops /\ task[o].role = "work" /\ task[o].status = "live" /\ task[o] \in TaskRow /\ RowOK(task, o)
      BY <1>3, LeafIs
    <2>2. task' = [task EXCEPT ![o] = row] /\ Answering("ok")
      BY <1>1, <1>3 DEF Pause
    <2>3. row \in TaskRow /\ Moved(task[o], row) /\ row.status \in LiveRow
      BY <2>1 DEF TaskRow, Moved, RowOK, LiveRow, Recoverable
    <2> HIDE DEF row, o
    <2>4. All(x, report[This], task', cmd, work, notice, rec, call, thr, boot)
      BY <1>1, <2>1, <2>2, <2>3, RowGoesOn
    <2>5. All(x, report[This], task', cmd, work, notice, rec, call', thr, boot)
      BY <1>1, <1>2, <2>2, <2>4, Answers
    <2> QED  BY <1>1, <2>5, ShapeStays DEF IInv, reportVars
  <1>4. CASE ~(Leaf(Of).status = "live" /\ ~work[Of].stop)
    <2>1. \E out \in {"ok", "invalid", "unavailable"} : Answering(out)
      BY <1>1, <1>4 DEF Pause
    <2>2. All(x, report[This], task, cmd, work, notice, rec, call', thr, boot)
      BY <1>1, <1>2, <2>1, Answers
    <2>3. task' = task
      BY <1>4 DEF Pause
    <2> QED  BY <1>1, <2>2, <2>3, ShapeStays DEF IInv, reportVars
  <1> QED  BY <1>3, <1>4

LEMMA StopWorkStep ==
    ASSUME IInv, Execute, StopWork
    PROVE  IInv'
  <1> DEFINE x == ep[This]
             o == work[Of].op
             row == [task[o] EXCEPT !.status = IF @ = "live" THEN "pausing" ELSE @]
  <1>1. /\ All(x, report[This], task, cmd, work, notice, rec, call, thr, boot) /\ Shape
        /\ call.step = "execute" /\ task \in [Ops -> TaskRow] /\ work \in [Keys -> Route]
        /\ UNCHANGED <<reportVars, plan, thr, boot, cmd, notice, mail, rec>>
        /\ SpawnInv(task, cmd, work) /\ RowInv(task)
    BY Executes, Parts DEF StopWork
  <1>2. \A out : Answerable(x, cmd[call.key], out)
    BY DEF StopWork, Verb, Answerable
  <1>3. CASE Leaf(Of) # NoTask
    <2>0. Of \in Keys /\ o # NoOp
      BY <1>3 DEF Leaf
    <2>1. o \in Ops
      BY <2>0, <1>1 DEF Route
    <2>2. task[o].role = "work" /\ task[o] \in TaskRow /\ RowOK(task, o)
      BY <2>0, <2>1, <1>1 DEF SpawnInv, RowInv
    <2>3. /\ task' = [task EXCEPT ![o] = row] /\ Answering("ok")
          /\ work' = [work EXCEPT ![Of].stop = TRUE]
      BY <1>1, <1>3 DEF StopWork
    <2>4. row \in TaskRow /\ row.status = (IF task[o].status = "live" THEN "pausing" ELSE task[o].status)
      BY <2>2 DEF TaskRow, LiveRow
    <2>5. Moved(task[o], row)
      BY <2>2 DEF TaskRow, Moved, RowOK, LiveRow, Recoverable
    <2>6. task[o].status \in LiveRow => row.status \in LiveRow
      BY <2>4 DEF LiveRow
    <2>7. work' \in [Keys -> Route] /\ \A k \in Keys : work'[k].op = work[k].op
      BY <2>0, <2>3, <1>1 DEF Route
    <2> HIDE DEF row, o
    <2>8. All(x, report[This], task', cmd, work, notice, rec, call, thr, boot)
      BY <1>1, <2>1, <2>3, <2>4, <2>5, <2>6, RowGoesOn DEF Live
    <2>9. All(x, report[This], task', cmd, work', notice, rec, call, thr, boot)
      BY <2>7, <2>8, RoutesGoOn
    <2>10. All(x, report[This], task', cmd, work', notice, rec, call', thr, boot)
      BY <1>1, <1>2, <2>3, <2>9, Answers
    <2> QED  BY <1>1, <2>10, ShapeStays DEF IInv, reportVars
  <1>4. CASE Leaf(Of) = NoTask
    <2>1. Answering("invalid") /\ UNCHANGED <<task, work>>
      BY <1>4 DEF StopWork
    <2>2. All(x, report[This], task, cmd, work, notice, rec, call', thr, boot)
      BY <1>1, <1>2, <2>1, Answers
    <2> QED  BY <1>1, <2>1, <2>2, ShapeStays DEF IInv, reportVars
  <1> QED  BY <1>3, <1>4

LEMMA InboxStep ==
    ASSUME IInv, Execute, Inbox
    PROVE  IInv'
  <1> DEFINE x == ep[This]
             k == call.key
             c == [cmd[k] EXCEPT !.receipt = "taken"]
  <1>1. /\ All(x, report[This], task, cmd, work, notice, rec, call, thr, boot) /\ Shape
        /\ call.step = "execute" /\ k \in Keys /\ cmd[k].by # NoOp /\ cmd \in [Keys -> Command]
        /\ UNCHANGED <<reportVars, plan, thr, boot, task, work, mail, rec>> /\ Answering("ok")
        /\ CommandInv(x, cmd, call, thr) /\ cmd[k].verb = "inbox"
    BY Executes, Parts DEF Inbox, Verb
  <1>2. All(x, report[This], task, cmd', work, notice', rec, call, thr, boot) /\ cmd'[k].verb = "inbox"
    <2>1. CASE cmd[k].receipt # "none"
      BY <1>1, <2>1 DEF Inbox, process_auto_research_lifecycle_inbox
    <2>2. CASE cmd[k].receipt = "none"
      <3>1. notice' = Hand(notice, Pending(notice), "acknowledged", k) /\ cmd' = [cmd EXCEPT ![k] = c]
        BY <1>1, <2>2 DEF Inbox, process_auto_research_lifecycle_inbox
      <3>2. /\ c \in Command /\ c.verb = cmd[k].verb /\ c.by = cmd[k].by /\ c.adm = cmd[k].adm
            /\ c.exit = cmd[k].exit
        BY <1>1 DEF Command
      <3> HIDE DEF c
      <3>3. CommandOK(x, c)
        BY <1>1, <3>2 DEF CommandInv, CommandOK, Answerable
      <3>4. All(x, report[This], task, cmd', work, notice, rec, call, thr, boot)
        BY <1>1, <3>1, <3>2, <3>3, CommandGoesOn
      <3>5. k \in Nat
        BY <1>1, LedgerAssumption DEF Keys
      <3>6. All(x, report[This], task, cmd', work, notice', rec, call, thr, boot)
        BY <3>1, <3>4, <3>5, NoticesGoOn
      <3>7. cmd'[k].verb = "inbox"
        BY <1>1, <3>1, <3>2
      <3> QED  BY <3>6, <3>7
    <2> QED  BY <2>1, <2>2
  <1>3. All(x, report[This], task, cmd', work, notice', rec, call', thr, boot)
    BY <1>1, <1>2, Answers DEF Answerable
  <1> QED  BY <1>1, <1>3, ShapeStays DEF IInv, reportVars

(* create_auto_research_child_work_recovery *)
LEMMA ResumeStep ==
    ASSUME IInv, Execute, Resume
    PROVE  IInv'
  <1> DEFINE x == ep[This]
             w == Of
             o == work[w].op
             k == call.key
  <1>1. /\ All(x, report[This], task, cmd, work, notice, rec, call, thr, boot) /\ Shape
        /\ call.step = "execute" /\ task \in [Ops -> TaskRow] /\ work \in [Keys -> Route]
        /\ cmd \in [Keys -> Command] /\ k \in Keys
        /\ UNCHANGED <<reportVars, plan, thr, boot, cmd, notice, mail, rec>>
        /\ SpawnInv(task, cmd, work) /\ RowInv(task) /\ RecordOK(x, report[This]) /\ x \in Episode
        /\ SpentInv(x, thr) /\ CommandInv(x, cmd, call, thr)
    BY Executes, Parts DEF Resume
  <1>2. \A out : Answerable(x, cmd[k], out)
    BY DEF Resume, Verb, Answerable
  <1>3. ASSUME Answering("ok"), Leaf(w).status \in Recoverable, ResumeAccepted(w),
               NEW c \in Ops, Fresh(c), create_auto_research_child_work_recovery(k, w, c)
        PROVE  IInv'
    <2> DEFINE row == [NoTask EXCEPT !.role = "work", !.status = "live", !.recovers = o,
                                     !.alloc = task[o].alloc, !.key = k, !.session = TRUE]
               r == [work[w] EXCEPT !.op = c]
    <2>1. /\ w \in Keys /\ o \in Ops /\ task[o].role = "work" /\ task[o].status \in Recoverable
          /\ task[o] \in TaskRow
      <3>1. Leaf(w).status # "none"
        BY <1>3 DEF Recoverable
      <3> QED  BY <3>1, <1>3, LeafIs
    <2>2. /\ task' = [task EXCEPT ![c] = row] /\ work' = [work EXCEPT ![w] = r]
      BY <1>1, <1>3 DEF create_auto_research_child_work_recovery, Insert
    <2>3. /\ row \in TaskRow /\ row.status = "live" /\ row.role = "work" /\ ~row.abandoned /\ ~row.structural
          /\ row.recovers = o /\ row.alloc = task[o].alloc /\ ~row.auto
      BY <1>1, <2>1 DEF NoTask, TaskRow, LiveRow
    <2>4. IsLast(task, c)
      BY <1>1, <1>3, FreshIsLast
    <2>5. r \in Route /\ r.op = c
      BY <1>1, <2>1 DEF Route
    <2> HIDE DEF row, r
    <2>6. work' \in [Keys -> Route] /\ work'[w].op = c /\ \A j \in Keys : j # w => work'[j] = work[j]
      BY <1>1, <2>1, <2>2, <2>5
    <2>7. Added(task, task', c, row) /\ Continues(task, row, o)
      BY <2>1, <2>2, <2>3, <2>4 DEF Added, Continues
    <2>8. /\ task' \in [Ops -> TaskRow] /\ task'[c] = row /\ task[c] = NoTask
          /\ \A p \in Ops : p # c => task'[p] = task[p]
      BY <1>1, <2>7, <2>1, AddedFacts
    <2>9. c # NoOp /\ o # NoOp /\ NoTask.role = "none" /\ NoTask.status = "none"
      BY <2>1 DEF Ops, NoOp, NoTask
    <2>10. \A p \in Ops : PaidWork(task', p) <=> PaidWork(task, p)
      BY <2>3, <2>8, <2>9 DEF PaidWork
    <2>11. \A p \in Ops : PaidWork(task, p) => p # c
      BY <2>8, <2>9 DEF PaidWork
    <2>12. SpawnInv(task', cmd, work')
      <3>1. \A j \in Keys : work'[j].op # NoOp <=> work[j].op # NoOp
        BY <2>1, <2>6, <2>9
      <3>2. ASSUME NEW j \in Keys, work'[j].op # NoOp
            PROVE  task'[work'[j].op].role = "work" /\ \E p \in Ops : PaidWork(task', p) /\ task'[p].key = j
        <4>1. PICK p \in Ops : PaidWork(task, p) /\ task[p].key = j
          BY <3>1, <3>2, <1>1 DEF SpawnInv
        <4>2. PaidWork(task', p) /\ task'[p].key = j
          BY <4>1, <2>8, <2>10, <2>11
        <4>3. CASE j = w
          BY <4>2, <4>3, <2>3, <2>6, <2>8
        <4>4. CASE j # w
          <5>1. work'[j] = work[j] /\ work[j].op \in Ops /\ task[work[j].op].role = "work"
            BY <3>2, <4>4, <1>1, <2>6 DEF SpawnInv, Route
          <5> QED  BY <4>2, <5>1, <2>8, <2>9
        <4> QED  BY <4>3, <4>4
      <3>3. ASSUME NEW p \in Ops, PaidWork(task', p)
            PROVE  task'[p].key \in Keys /\ work'[task'[p].key].op # NoOp
        BY <3>1, <3>3, <1>1, <2>8, <2>10, <2>11 DEF SpawnInv
      <3>4. \A p, q \in Ops : PaidWork(task', p) /\ PaidWork(task', q) /\ task'[p].key = task'[q].key => p = q
        BY <1>1, <2>8, <2>10, <2>11 DEF SpawnInv
      <3>5. ASSUME NEW p \in Ops, task'[p].role = "work", Live(task', p) PROVE \E j \in Keys : work'[j].op = p
        <4>1. CASE p = c
          BY <4>1, <2>1, <2>6
        <4>2. CASE p # c
          <5>1. task[p].role = "work" /\ Live(task, p)
            BY <4>2, <3>5, <2>8 DEF Live
          <5>2. PICK j \in Keys : work[j].op = p
            BY <5>1, <1>1 DEF SpawnInv
          <5>3. j # w
            BY <5>1, <5>2, <2>1 DEF Live, LiveRow, Recoverable
          <5> QED  BY <5>2, <5>3, <2>6
        <4> QED  BY <4>1, <4>2
      <3> QED  BY <3>1, <3>2, <3>3, <3>4, <3>5, <1>1 DEF SpawnInv
    <2>13. x.status = "running" /\ x.used = IF row.recovers = NoOp THEN x.used + 1 ELSE x.used
      BY <1>3, <2>3, <2>9 DEF ResumeAccepted, Accepting
    <2>14. row.role # "orchestrator" /\ x.status # "none" /\ \E p \in Ops : Continues(task, row, p)
      BY <2>1, <2>3, <2>7, <2>13
    <2>15. All(x, report[This], task', cmd, work', notice, rec, call, thr, boot)
      BY <1>1, <2>6, <2>7, <2>12, <2>13, <2>14, RowComesIn
    <2>16. All(x, report[This], task', cmd, work', notice, rec, call', thr, boot)
      BY <1>1, <1>2, <1>3, <2>15, Answers
    <2> QED  BY <1>1, <2>16, ShapeStays DEF IInv, reportVars
  <1>4. ASSUME NEW out \in {"ok", "invalid", "unavailable"}, Answering(out), UNCHANGED <<task, work>>
        PROVE  IInv'
    <2>1. All(x, report[This], task, cmd, work, notice, rec, call', thr, boot)
      BY <1>1, <1>2, <1>4, Answers
    <2> QED  BY <1>1, <1>4, <2>1, ShapeStays DEF IInv, reportVars
  <1> QED  BY <1>3, <1>4 DEF Resume

(* The first ending fences the episode. *)
Fenced(x, ending) == [x EXCEPT !.status = "wrapping_up", !.ending = ending]
LEMMA FenceIsWritten ==
    ASSUME IInv, NEW ending \in Endings \ {"stopped"}, fence_episode_ending(This, ending),
           FenceAccepted(This, ending) \/ (ep[This].ending = "none" /\ Accepting),
           ep[This].ending = "none" /\ ep[This].status = "running" =>
             EndInv(Fenced(ep[This], ending), task, cmd, notice)
    PROVE  /\ ep' \in [Episodes -> Episode] /\ ep'[This].ending = ending
           /\ All(ep'[This], report[This], task, cmd, work, notice, rec, call, thr, boot)
  <1> DEFINE x == ep[This]
             z == Fenced(x, ending)
  <1>1. /\ All(x, report[This], task, cmd, work, notice, rec, call, thr, boot) /\ Shape
        /\ x \in Episode /\ report[This] \in ReportRow /\ RecordOK(x, report[This]) /\ This \in Episodes
    BY Parts, OneEpisode
  <1>2. CASE x.ending # "none"
    BY <1>1, <1>2 DEF fence_episode_ending, FenceAccepted, Shape
  <1>3. CASE x.ending = "none"
    <2>1. x.status = "running" /\ ~x.stop
      BY <1>3 DEF FenceAccepted, Accepting
    <2>2. ep' = [ep EXCEPT ![This] = z]
      BY <1>1, <1>3 DEF fence_episode_ending, Fenced, Shape
    <2>3. /\ z \in Episode /\ z.status = "wrapping_up" /\ z.ending = ending /\ z.used = x.used
          /\ z.ceiling = x.ceiling /\ z.wrap = x.wrap /\ z.stop = x.stop
      BY <1>1 DEF Fenced, Episode, _LIVE_EPISODE_STATUSES
    <2>4. EndInv(z, task, cmd, notice)
      BY <1>3, <2>1
    <2>5. x.wrap = "not_started" /\ report[This].step = "none"
      BY <1>1, <2>1 DEF RecordOK
    <2> HIDE DEF z
    <2>6. EpStep(x, z, report[This])
      BY <1>1, <1>3, <2>1, <2>3, <2>5 DEF EpStep, RecordOK, Ended
    <2>7. All(z, report[This], task, cmd, work, notice, rec, call, thr, boot)
      BY <1>1, <2>3, <2>4, <2>6, RecordGoesOn
    <2>8. ep' \in [Episodes -> Episode] /\ ep'[This] = z
      BY <1>1, <2>2, <2>3 DEF Shape
    <2> QED  BY <2>3, <2>7, <2>8
  <1> QED  BY <1>2, <1>3

LEMMA FinishStep ==
    ASSUME IInv, Execute, Finish
    PROVE  IInv'
  <1> DEFINE x == ep[This]
             k == call.key
  <1>1. /\ All(x, report[This], task, cmd, work, notice, rec, call, thr, boot) /\ Shape
        /\ call.step = "execute" /\ k \in Keys /\ cmd[k].by # NoOp /\ cmd \in [Keys -> Command]
        /\ UNCHANGED <<report, plan, thr, boot, task, work, notice, mail, rec>>
        /\ CommandInv(x, cmd, call, thr) /\ cmd[k].verb = "finish" /\ Raised \in {"invalid", "unavailable"}
        /\ task \in [Ops -> TaskRow] /\ notice \in [Ops -> Notice] /\ RowInv(task) /\ SpawnInv(task, cmd, work)
        /\ RecordOK(x, report[This])
    BY Executes, Parts DEF Finish, Verb
  <1>2. ASSUME NEW receipt \in {"blocked", "completed"}, cmd' = [cmd EXCEPT ![k].receipt = receipt],
               ep' \in [Episodes -> Episode], receipt = "completed" => ep'[This].ending = "completed",
               All(ep'[This], report[This], task, cmd, work, notice, rec, call, thr, boot),
               Answering(IF receipt = "blocked" THEN "invalid" ELSE "ok")
        PROVE  IInv'
    <2> DEFINE c == [cmd[k] EXCEPT !.receipt = receipt]
               z == ep'[This]
    <2>1. cmd' = [cmd EXCEPT ![k] = c] /\ CommandInv(z, cmd, call, thr)
      BY <1>1, <1>2 DEF All
    <2>2. /\ c \in Command /\ c.verb = cmd[k].verb /\ c.by = cmd[k].by /\ c.adm = cmd[k].adm
          /\ c.exit = cmd[k].exit /\ c.receipt = receipt
      BY <1>1 DEF Command
    <2> HIDE DEF c, z
    <2>3. CommandOK(z, c)
      BY <1>1, <1>2, <2>1, <2>2 DEF CommandInv, CommandOK, Answerable, z
    <2>4. All(z, report[This], task, cmd', work, notice, rec, call, thr, boot)
      <3>1. All(z, report[This], task, cmd, work, notice, rec, call, thr, boot)
        BY <1>2 DEF z
      <3>2. k \in Keys /\ cmd[k].by # NoOp
        BY <1>1
      <3> HIDE DEF k
      <3>3. All(z, report[This], task, [cmd EXCEPT ![k] = c], work, notice, rec, call, thr, boot)
        BY <3>1, <3>2, <2>2, <2>3, CommandGoesOn
      <3> QED  BY <3>3, <2>1
    <2>5. cmd'[k] = c
      BY <1>1, <2>1
    <2>6. All(z, report[This], task, cmd', work, notice, rec, call', thr, boot)
      BY <1>1, <1>2, <2>2, <2>4, <2>5, Answers DEF Answerable, z
    <2> QED  BY <1>1, <1>2, <2>6 DEF IInv, Shape, z
  <1>3. CASE /\ guard_auto_research_finish(k)
             /\ Answering(IF cmd'[k].receipt = "blocked" THEN "invalid" ELSE "ok")
    <2>1. CASE x.ending = "none" /\ FinishBlocked
      <3>1. cmd' = [cmd EXCEPT ![k].receipt = "blocked"] /\ ep' = ep
        BY <1>3, <2>1 DEF guard_auto_research_finish
      <3>2. cmd'[k].receipt = "blocked"
        BY <1>1, <3>1 DEF Command
      <3> QED  BY <1>1, <1>2, <1>3, <3>1, <3>2 DEF Shape
    <2>2. CASE ~(x.ending = "none" /\ FinishBlocked)
      <3>1. cmd' = [cmd EXCEPT ![k].receipt = "completed"] /\ fence_episode_ending(This, "completed")
        BY <1>3, <2>2 DEF guard_auto_research_finish
      <3>2. cmd'[k].receipt = "completed"
        BY <1>1, <3>1 DEF Command
      <3>3. FenceAccepted(This, "completed") \/ (x.ending = "none" /\ Accepting)
        BY <1>3 DEF guard_auto_research_finish, FinishRefused, FenceAccepted
      <3>4. ASSUME x.ending = "none" PROVE EndInv(Fenced(x, "completed"), task, cmd, notice)
        <4>1. ~FinishBlocked
          BY <2>2, <3>4
        <4>2. \A o \in Ops : notice[o].state # "pending"
          BY <4>1, <1>1 DEF FinishBlocked, Pending
        <4>3. \A j \in Keys : cmd[j].adm # "accepted"
          BY <4>1 DEF FinishBlocked
        <4>4. ASSUME NEW o \in Ops, Live(task, o) PROVE IsTurn(task, o)
          <5>1. SUFFICES ASSUME task[o].role = "work" PROVE FALSE
            BY <4>4, <1>1 DEF RowInv, RowOK, IsTurn, Live, LiveRow, TaskRow
          <5>2. PICK j \in Keys : work[j].op = o
            BY <5>1, <4>4, <1>1 DEF SpawnInv
          <5> QED  BY <5>2, <4>4, <4>1 DEF FinishBlocked, Live, NoOp, Ops
        <4>5. /\ Fenced(x, "completed").ending = "completed" /\ Fenced(x, "completed").wrap = x.wrap
          BY Parts DEF Fenced, Episode
        <4>6. x.wrap \notin {"pending", "running"}
          BY <1>1, <3>4 DEF RecordOK, Endings
        <4> QED  BY <4>2, <4>3, <4>4, <4>5, <4>6 DEF EndInv
      <3>5. /\ ep' \in [Episodes -> Episode] /\ ep'[This].ending = "completed"
            /\ All(ep'[This], report[This], task, cmd, work, notice, rec, call, thr, boot)
        BY <3>1, <3>3, <3>4, FenceIsWritten DEF Endings
      <3> QED  BY <1>2, <1>3, <3>1, <3>2, <3>5
    <2> QED  BY <2>1, <2>2
  <1>4. ASSUME UNCHANGED <<ep, cmd>>, NEW out \in {"invalid", "unavailable"}, Answering(out)
        PROVE  IInv'
    <2>1. All(x, report[This], task, cmd, work, notice, rec, call', thr, boot)
      BY <1>1, <1>4, Answers DEF Answerable
    <2> QED  BY <1>1, <1>4, <2>1, ShapeStays DEF IInv, reportVars
  <1> QED  BY <1>1, <1>3, <1>4 DEF Finish

LEMMA ServeStep ==
    ASSUME IInv, Serve
    PROVE  IInv'
  <1>1. ASSUME Execute PROVE IInv'
    BY <1>1, SpawnStep, PauseStep, StopWorkStep, ResumeStep, InboxStep, FinishStep DEF Execute
  <1> QED  BY <1>1, ProveStep, GuardStep, AnswerStep DEF Serve

-----------------------------------------------------------------------------
(* The episode's record and its report. *)
LEMMA FinishedRecord ==
    ASSUME NEW x \in Episode, NEW y, RecordOK(x, y), x.status = "wrapping_up", NEW w, w.step = "none",
           NEW wrap \in {"not_started", "ready", "failed"}, NEW z \in Episode,
           z.status = Finished(x, wrap).status, z.ending = x.ending, z.used = x.used,
           z.ceiling = x.ceiling,
           z.stop = x.stop, z.wrap = wrap
    PROVE  EpStep(x, z, w)
  <1>1. x.ending \in Endings /\ x.ending # "stopped" /\ ~x.stop /\ x.used <= x.ceiling
    BY DEF RecordOK
  <1>2. z.status = _status_for_ending[x.ending]
    BY DEF Finished, Episode
  <1>3. z.status \in {"completed", "needs_action", "failed"}
    BY <1>1, <1>2 DEF _status_for_ending, Endings
  <1>4. RecordOK(z, w)
    BY <1>1, <1>3 DEF RecordOK, Ended
  <1> QED  BY <1>3, <1>4 DEF EpStep

LEMMA AwaitedRecord ==
    ASSUME NEW x \in Episode, NEW y, RecordOK(x, y), x.status = "wrapping_up", NEW w, NEW z \in Episode,
           z.status = x.status, z.ending = x.ending, z.used = x.used, z.ceiling = x.ceiling,
           z.stop = x.stop, z.wrap \in {"pending", "running"}
    PROVE  EpStep(x, z, w)
  <1>1. RecordOK(z, w)
    BY DEF RecordOK, Ended
  <1> QED  BY <1>1 DEF EpStep

(* The record and the report are written together. *)
LEMMA ReportGoesOn ==
    ASSUME IInv, NEW z \in Episode, NEW w \in ReportRow,
           ep' = [ep EXCEPT ![This] = z], report' = [report EXCEPT ![This] = w],
           EpStep(ep[This], z, w), EndInv(z, task, cmd, notice)
    PROVE  /\ ep' \in [Episodes -> Episode] /\ report' \in [Episodes -> ReportRow]
           /\ All(ep'[This], report'[This], task, cmd, work, notice, rec, call, thr, boot)
  <1>1. /\ All(ep[This], report[This], task, cmd, work, notice, rec, call, thr, boot) /\ Shape
        /\ This \in Episodes
    BY Parts, OneEpisode
  <1>2. All(z, w, task, cmd, work, notice, rec, call, thr, boot)
    BY <1>1, RecordGoesOn
  <1>3. /\ ep' \in [Episodes -> Episode] /\ report' \in [Episodes -> ReportRow]
        /\ ep'[This] = z /\ report'[This] = w
    BY <1>1 DEF Shape
  <1> QED  BY <1>2, <1>3

LEMMA FinishesIt ==
    ASSUME IInv, ep[This].status = "wrapping_up", NEW w \in ReportRow, w.step = "none",
           NEW wrap \in {"not_started", "ready", "failed"}, NEW turn \in Ops \cup {NoOp},
           NEW z, z = Finished(ep[This], wrap) \/ z = [Finished(ep[This],
           wrap) EXCEPT !.concluding = turn],
           ep' = [ep EXCEPT ![This] = z], report' = [report EXCEPT ![This] = w]
    PROVE  /\ ep' \in [Episodes -> Episode] /\ report' \in [Episodes -> ReportRow]
           /\ All(ep'[This], report'[This], task, cmd, work, notice, rec, call, thr, boot)
  <1> DEFINE x == ep[This]
  <1>1. x \in Episode /\ RecordOK(x, report[This]) /\ EndInv(x, task, cmd, notice)
    BY Parts
  <1>2. x.ending \in Endings
    BY <1>1 DEF RecordOK
  <1>3. _status_for_ending[x.ending] \in {"none"} \cup _LIVE_EPISODE_STATUSES \cup Ended
    BY <1>2 DEF _status_for_ending, Endings, Ended
  <1>4. /\ z \in Episode /\ z.status = Finished(x, wrap).status /\ z.ending = x.ending /\ z.used = x.used
        /\ z.ceiling = x.ceiling /\ z.stop = x.stop /\ z.wrap = wrap
    BY <1>1, <1>3 DEF Finished, Episode
  <1> HIDE DEF x
  <1>5. EpStep(x, z, w)
    BY <1>1, <1>4, FinishedRecord DEF x
  <1>6. EndInv(z, task, cmd, notice)
    BY <1>1, <1>4, EndStays
  <1> QED  BY <1>4, <1>5, <1>6, ReportGoesOn DEF x

LEMMA AwaitsIt ==
    ASSUME IInv, ep[This].status = "wrapping_up",
           ep[This].wrap \in {"pending", "running"} \/ \A o \in Ops : ~Live(task, o),
           NEW w \in ReportRow, NEW z \in Episode,
           z.status = ep[This].status, z.ending = ep[This].ending, z.used = ep[This].used,
           z.ceiling = ep[This].ceiling, z.stop = ep[This].stop, z.wrap \in {"pending", "running"},
           ep' = [ep EXCEPT ![This] = z], report' = [report EXCEPT ![This] = w]
    PROVE  /\ ep' \in [Episodes -> Episode] /\ report' \in [Episodes -> ReportRow]
           /\ All(ep'[This], report'[This], task, cmd, work, notice, rec, call, thr, boot)
  <1> DEFINE x == ep[This]
  <1>1. x \in Episode /\ RecordOK(x, report[This]) /\ EndInv(x, task, cmd, notice)
    BY Parts
  <1> HIDE DEF x
  <1>2. EpStep(x, z, w)
    BY <1>1, AwaitedRecord DEF x
  <1>3. EndInv(z, task, cmd, notice)
    BY <1>1, EndStays DEF x
  <1> QED  BY <1>2, <1>3, ReportGoesOn DEF x

LEMMA NothingWritten ==
    ASSUME IInv, UNCHANGED reportVars
    PROVE  /\ ep' \in [Episodes -> Episode] /\ report' \in [Episodes -> ReportRow]
           /\ All(ep'[This], report'[This], task, cmd, work, notice, rec, call, thr, boot)
  BY Parts DEF Shape, reportVars

(* start_episode_report *)
LEMMA ReportRestarts ==
    ASSUME IInv, start_episode_report(This)
    PROVE  /\ ep' \in [Episodes -> Episode] /\ report' \in [Episodes -> ReportRow]
           /\ All(ep'[This], report'[This], task, cmd, work, notice, rec, call, thr, boot)
  <1> DEFINE x == ep[This]
             y == report[This]
  <1>1. x \in Episode /\ y \in ReportRow /\ Shape /\ This \in Episodes
    BY Parts, OneEpisode
  <1>2. CASE ~Startable(This)
    BY <1>2, NothingWritten DEF start_episode_report
  <1>3. CASE Startable(This) /\ Exhausted(This)
    <2> DEFINE w == [y EXCEPT !.row = "failed", !.attempt = "none"]
    <2>1. x.status = "wrapping_up" /\ y.step = "none"
      BY <1>3 DEF Startable
    <2>2. ep' = [ep EXCEPT ![This] = Finished(x, "failed")] /\ report' = [report EXCEPT ![This] = w]
      BY <1>1, <1>3 DEF start_episode_report, requeue_interrupted_episode_report_allocation, Shape
    <2>3. w \in ReportRow /\ w.step = "none"
      BY <1>1, <2>1 DEF ReportRow
    <2> HIDE DEF w
    <2> QED  BY <2>1, <2>2, <2>3, FinishesIt
  <1>4. CASE Startable(This) /\ ~Exhausted(This)
    <2> DEFINE w == [y EXCEPT !.row = "queued", !.step = "prepare",
                              !.attempt = IF @ = "running" THEN "none" ELSE @]
               z == [x EXCEPT !.wrap = "pending"]
    <2>1. x.status = "wrapping_up" /\ x.wrap \in {"pending", "running"}
      BY <1>4 DEF Startable
    <2>2. ep' = [ep EXCEPT ![This] = z] /\ report' = [report EXCEPT ![This] = w]
      BY <1>1, <1>4 DEF start_episode_report, requeue_interrupted_episode_report_allocation, Shape
    <2>3. w \in ReportRow
      BY <1>1 DEF ReportRow
    <2>4. /\ z \in Episode /\ z.status = x.status /\ z.ending = x.ending /\ z.used = x.used
          /\ z.ceiling = x.ceiling /\ z.stop = x.stop /\ z.wrap = "pending"
      BY <1>1 DEF Episode
    <2> HIDE DEF w, z
    <2> QED  BY <2>1, <2>2, <2>3, <2>4, AwaitsIt
  <1> QED  BY <1>2, <1>3, <1>4

(* begin_episode_report_wrapup, of an episode that waits for no row. *)
LEMMA WrapupBegins ==
    ASSUME IInv, NEW turn \in Ops \cup {NoOp}, NEW session, ep[This].status = "wrapping_up", ep[This].wrap = "not_started",
           \A o \in Ops : ~Live(task, o),
           begin_episode_report_wrapup(This, turn, ep[This].ending, session)
    PROVE  /\ ep' \in [Episodes -> Episode] /\ report' \in [Episodes -> ReportRow]
           /\ All(ep'[This], report'[This], task, cmd, work, notice, rec, call, thr, boot)
  <1> DEFINE x == ep[This]
             y == report[This]
  <1>1. x \in Episode /\ y \in ReportRow /\ Shape /\ This \in Episodes /\ RecordOK(x, y)
    BY Parts, OneEpisode
  <1>2. y.step = "none" /\ report = [report EXCEPT ![This] = y]
    BY <1>1 DEF RecordOK, Shape
  <1>3. CASE UNCHANGED reportVars
    BY <1>3, NothingWritten
  <1>4. CASE end_episode_without_report(This)
    <2>1. ep' = [ep EXCEPT ![This] = Finished(x, "not_started")] /\ report' = [report EXCEPT ![This] = y]
      BY <1>1, <1>2, <1>4 DEF end_episode_without_report, Shape
    <2> QED  BY <1>1, <1>2, <2>1, FinishesIt
  <1>5. CASE fail_episode_wrapup_unlaunchable(This, turn)
    <2>1. /\ ep' = [ep EXCEPT ![This] = [Finished(x, "failed") EXCEPT !.concluding = turn]]
          /\ report' = [report EXCEPT ![This] = y]
      BY <1>1, <1>2, <1>5 DEF fail_episode_wrapup_unlaunchable, Shape
    <2> QED  BY <1>1, <1>2, <2>1, FinishesIt
  <1>6. CASE begin_episode_wrapup(This, turn)
    <2> DEFINE w == [NoReport EXCEPT !.row = "queued", !.step = "prepare"]
               z == [x EXCEPT !.wrap = "pending", !.concluding = turn]
    <2>1. ep' = [ep EXCEPT ![This] = z] /\ report' = [report EXCEPT ![This] = w]
      BY <1>1, <1>6 DEF begin_episode_wrapup, Shape
    <2>2. w \in ReportRow
      BY DEF NoReport, ReportRow
    <2>3. /\ z \in Episode /\ z.status = x.status /\ z.ending = x.ending /\ z.used = x.used
          /\ z.ceiling = x.ceiling /\ z.stop = x.stop /\ z.wrap = "pending"
      BY <1>1 DEF Episode
    <2> HIDE DEF w, z
    <2> QED  BY <2>1, <2>2, <2>3, AwaitsIt
  <1> QED  BY <1>3, <1>4, <1>5, <1>6 DEF begin_episode_report_wrapup, HasWrapup

(* stream_episode_report_run *)
LEMMA ReportStep ==
    ASSUME IInv, Report
    PROVE  IInv'
  <1> DEFINE x == ep[This]
             y == report[This]
  <1>1. x \in Episode /\ y \in ReportRow /\ Shape /\ This \in Episodes /\ RecordOK(x, y)
    BY Parts, OneEpisode
  <1>2. ASSUME y.step # "none"
        PROVE  x.status = "wrapping_up" /\ x.wrap \in {"pending", "running"} /\ x = [x EXCEPT !.wrap = @]
               /\ ep = [ep EXCEPT ![This] = x]
    BY <1>1, <1>2 DEF RecordOK, Episode, Shape
  <1>3. SUFFICES /\ ep' \in [Episodes -> Episode] /\ report' \in [Episodes -> ReportRow]
                 /\ All(ep'[This], report'[This], task, cmd, work, notice, rec, call, thr, boot)
    BY <1>1 DEF Report, IInv, Shape
  <1>4. ReportWorker(This)
    BY DEF Report
  <1>5. CASE allocate_episode_report_attempt(This)
    <2> DEFINE w == [y EXCEPT !.step = "launch", !.attempt = "queued", !.output = mailbox_remove(This)]
               z == IF y.attempt = "queued" THEN x ELSE [x EXCEPT !.wrap = "running", !.attempts = @ + 1]
    <2>1. y.step # "none"
      BY <1>5 DEF allocate_episode_report_attempt
    <2>2. ep' = [ep EXCEPT ![This] = z] /\ report' = [report EXCEPT ![This] = w]
      BY <1>1, <1>2, <1>5, <2>1 DEF allocate_episode_report_attempt, Shape
    <2>3. w \in ReportRow
      BY <1>1 DEF ReportRow, mailbox_remove
    <2>4. /\ z \in Episode /\ z.status = x.status /\ z.ending = x.ending /\ z.used = x.used
          /\ z.ceiling = x.ceiling /\ z.stop = x.stop /\ z.wrap \in {"pending", "running"}
      <3>1. x.attempts \in Nat /\ x.attempts + 1 \in Nat
        BY <1>1 DEF Episode
      <3>2. CASE y.attempt = "queued"
        BY <1>1, <1>2, <2>1, <3>2
      <3>3. CASE y.attempt # "queued"
        BY <1>1, <3>1, <3>3 DEF Episode
      <3> QED  BY <3>2, <3>3
    <2> HIDE DEF w, z
    <2> QED  BY <1>2, <2>1, <2>2, <2>3, <2>4, AwaitsIt
  <1>6. CASE ReportUnlaunchable(This)
    <2> DEFINE w == [y EXCEPT !.row = "failed", !.step = "none", !.attempt = "none"]
    <2>1. y.step # "none"
      BY <1>6 DEF ReportUnlaunchable
    <2>2. ep' = [ep EXCEPT ![This] = Finished(x, "failed")] /\ report' = [report EXCEPT ![This] = w]
      BY <1>1, <1>6 DEF ReportUnlaunchable, Shape
    <2>3. w \in ReportRow /\ w.step = "none"
      BY <1>1 DEF ReportRow
    <2> HIDE DEF w
    <2> QED  BY <1>2, <2>1, <2>2, <2>3, FinishesIt
  <1>7. CASE mark_episode_report_attempt_running(This)
    <2> DEFINE w == [y EXCEPT !.step = "call", !.row = "running", !.attempt = "running", !.calls = @ + 1]
    <2>1. y.step # "none"
      BY <1>7 DEF mark_episode_report_attempt_running
    <2>2. ep' = [ep EXCEPT ![This] = x] /\ report' = [report EXCEPT ![This] = w]
      BY <1>1, <1>2, <1>7, <2>1 DEF mark_episode_report_attempt_running, Shape
    <2>3. w \in ReportRow
      <3>1. y.calls \in Nat /\ y.calls + 1 \in Nat
        BY <1>1 DEF ReportRow
      <3> QED  BY <1>1, <3>1 DEF ReportRow
    <2> HIDE DEF w
    <2> QED  BY <1>1, <1>2, <2>1, <2>2, <2>3, AwaitsIt
  <1>8. CASE ProviderWrites(This)
    <2> DEFINE w == [y EXCEPT !.output = x.attempts]
    <2>1. y.step # "none"
      BY <1>8 DEF ProviderWrites
    <2>2. ep' = [ep EXCEPT ![This] = x] /\ report' = [report EXCEPT ![This] = w]
      BY <1>1, <1>2, <1>8, <2>1 DEF ProviderWrites, Shape
    <2>3. w \in ReportRow
      BY <1>1 DEF ReportRow, Episode
    <2> HIDE DEF w
    <2> QED  BY <1>1, <1>2, <2>1, <2>2, <2>3, AwaitsIt
  <1>9. ASSUME NEW final, y.step = "call", FailedAttempt(This, final)
        PROVE  /\ ep' \in [Episodes -> Episode] /\ report' \in [Episodes -> ReportRow]
               /\ All(ep'[This], report'[This], task, cmd, work, notice, rec, call, thr, boot)
    <2>1. CASE final \/ x.attempts >= _REPORT_ATTEMPT_LIMIT
      <3> DEFINE w == [y EXCEPT !.row = "failed", !.step = "none", !.attempt = "none"]
      <3>1. ep' = [ep EXCEPT ![This] = Finished(x, "failed")] /\ report' = [report EXCEPT ![This] = w]
        BY <1>1, <1>9, <2>1 DEF FailedAttempt, Shape
      <3>2. w \in ReportRow /\ w.step = "none"
        BY <1>1 DEF ReportRow
      <3> HIDE DEF w
      <3> QED  BY <1>2, <1>9, <3>1, <3>2, FinishesIt
    <2>2. CASE ~(final \/ x.attempts >= _REPORT_ATTEMPT_LIMIT)
      <3> DEFINE w == [y EXCEPT !.step = "prepare", !.attempt = "none"]
                 z == [x EXCEPT !.wrap = "pending"]
      <3>1. ep' = [ep EXCEPT ![This] = z] /\ report' = [report EXCEPT ![This] = w]
        BY <1>1, <1>9, <2>2 DEF FailedAttempt, Shape
      <3>2. w \in ReportRow
        BY <1>1 DEF ReportRow
      <3>3. /\ z \in Episode /\ z.status = x.status /\ z.ending = x.ending /\ z.used = x.used
            /\ z.ceiling = x.ceiling /\ z.stop = x.stop /\ z.wrap = "pending"
        BY <1>1 DEF Episode
      <3> HIDE DEF w, z
      <3> QED  BY <1>2, <1>9, <3>1, <3>2, <3>3, AwaitsIt
    <2> QED  BY <2>1, <2>2
  <1>10. CASE finish_episode_report_ready(This)
    <2> DEFINE w == [y EXCEPT !.row = "succeeded", !.step = "none", !.attempt = "none", !.published = y.output]
    <2>1. y.step # "none"
      BY <1>10 DEF finish_episode_report_ready
    <2>2. ep' = [ep EXCEPT ![This] = Finished(x, "ready")] /\ report' = [report EXCEPT ![This] = w]
      BY <1>1, <1>10 DEF finish_episode_report_ready, Shape
    <2>3. w \in ReportRow /\ w.step = "none"
      BY <1>1 DEF ReportRow
    <2> HIDE DEF w
    <2> QED  BY <1>2, <2>1, <2>2, <2>3, FinishesIt
  <1> QED  BY <1>4, <1>5, <1>6, <1>7, <1>8, <1>9, <1>10
           DEF ReportWorker, record_episode_report_attempt_error, finish_episode_report_error

(* Where every turn is over, none is live, and none is being retried. *)
LEMMA QuietTurns ==
    ASSUME IInv, auto_research_is_quiescent
    PROVE  /\ \A o \in Ops : IsTurn(task, o) => ~Live(task, o)
           /\ AllOver(task, rec, thr)
  <1>1. task \in [Ops -> TaskRow] /\ RowInv(task) /\ Lines(task, rec, thr, boot)
    BY Parts
  <1> SUFFICES ASSUME NEW o \in Ops, IsTurn(task, o)
               PROVE  ~Live(task, o) /\ OverFor(task, rec, thr, o)
    BY DEF AllOver
  <1>2. \A p \in Ops : RowOK(task, p)
    BY <1>1 DEF RowInv
  <1>3. Settled(o)
    <2>1. task[o].status # "none"
      BY <1>2 DEF RowOK, IsTurn, NoTask
    <2> QED  BY <2>1 DEF auto_research_is_quiescent, Turns, Rows, IsTurn
  <1>4. HasRecoveryChild(o) => ~Leafless(task, o) /\ task[o].status \in Recoverable
    <2> SUFFICES ASSUME NEW c \in Ops, task[c].recovers = o
                 PROVE  ~Leafless(task, o) /\ task[o].status \in Recoverable
      BY DEF HasRecoveryChild, Rows
    <2>1. RowOK(task, c) /\ o # NoOp
      BY <1>2 DEF Ops, NoOp
    <2> QED  BY <2>1 DEF RowOK, Leafless
  <1>5. CASE HasRecoveryChild(o)
    BY <1>4, <1>5 DEF OverFor, Live, LiveRow, Recoverable
  <1>6. CASE task[o].abandoned \/ task[o].structural \/ task[o].status = "succeeded"
    BY <1>2, <1>6 DEF RowOK, OverFor, Live, LiveRow, Recoverable
  <1>7. CASE ~HasRecoveryChild(o) /\ ~task[o].abandoned /\ task[o].status \in {"failed", "interrupted"} /\ GivenUp(o)
    <2> DEFINE r == rec[task[o].alloc]
    <2>1. (o = r.op \/ o = r.admitted) /\ r.status \in {"blocked", "exhausted"}
      BY <1>7 DEF GivenUp
    <2>2. CASE ~Leafless(task, o)
      BY <1>7, <2>2 DEF OverFor, Live, LiveRow
    <2>3. CASE Leafless(task, o)
      <3>1. ~Retrying(thr, o)
        BY <1>1, <1>7, <2>1, <2>3 DEF Lines, RetryInv
      <3> QED  BY <1>7, <2>1, <3>1 DEF OverFor, Live, LiveRow
    <2> QED  BY <2>2, <2>3
  <1> QED  BY <1>3, <1>5, <1>6, <1>7 DEF Settled

(* settle_auto_research_stop *)
LEMMA StopIsSettled ==
    ASSUME IInv, settle_auto_research_stop
    PROVE  /\ ep' \in [Episodes -> Episode]
           /\ All(ep'[This], report[This], task, cmd, work, notice, rec, call, thr, boot)
  <1> DEFINE x == ep[This]
             y == report[This]
             z == Skipped(x)
  <1>1. /\ x \in Episode /\ y \in ReportRow /\ Shape /\ This \in Episodes /\ RecordOK(x, y)
        /\ All(x, y, task, cmd, work, notice, rec, call, thr, boot)
    BY Parts, OneEpisode
  <1>2. CASE ~(x.stop /\ x.status # "stopped" /\ auto_research_is_quiescent)
    BY <1>1, <1>2 DEF settle_auto_research_stop, Shape
  <1>3. CASE x.stop /\ x.status # "stopped" /\ auto_research_is_quiescent
    <2>1. x.status = "stopping" /\ x.ending = "none" /\ x.wrap = "not_started" /\ y.step = "none"
      BY <1>1, <1>3 DEF RecordOK
    <2>2. ep' = [ep EXCEPT ![This] = z]
      BY <1>1, <1>3 DEF settle_auto_research_stop, Shape
    <2>3. /\ z \in Episode /\ z.status = "stopped" /\ z.ending = "stopped" /\ z.stop /\ z.wrap = "skipped"
          /\ z.used = x.used /\ z.ceiling = x.ceiling
      BY <1>1 DEF Skipped, Episode, Ended, Endings
    <2> HIDE DEF z, x, y
    <2>4. EpStep(x, z, y)
      BY <1>1, <2>1, <2>3 DEF EpStep, RecordOK, Ended, Endings
    <2>5. EndInv(z, task, cmd, notice)
      BY <1>3, <2>3, QuietTurns DEF EndInv
    <2>6. All(z, y, task, cmd, work, notice, rec, call, thr, boot)
      BY <1>1, <2>3, <2>4, <2>5, RecordGoesOn
    <2>7. ep' \in [Episodes -> Episode] /\ ep'[This] = z
      BY <1>1, <2>2, <2>3 DEF Shape
    <2> QED  BY <2>6, <2>7 DEF y
  <1> QED  BY <1>2, <1>3

-----------------------------------------------------------------------------
(* The passes. *)
RestOK(ths, t, r) ==
    /\ r \in Seq(PassNames) /\ Ordered(r)
    /\ Has(r, "settle") => Left(ths, t, "settle")
    /\ Has(r, "orphans") => Left(ths, t, "orphans")
    /\ Has(r, "recover") \/ Has(r, "serve") => t = Poller

LEMMA RestIs ==
    ASSUME IInv, NEW t \in Threads
    PROVE  /\ RestOK(thr, t, thr[t].rest) /\ RestOK(thr, t, <<>>)
           /\ RestOK(thr, t, <<"episode">> \o thr[t].rest)
           /\ thr[t].rest # <<>> => RestOK(thr, t, Tail(thr[t].rest))
  <1> DEFINE s == thr[t].rest
  <1>1. thr \in [Threads -> Carried] /\ PassInv(task, thr, boot)
    BY Parts DEF Lines
  <1>2. s \in Seq(PassNames) /\ Ordered(s)
    BY <1>1 DEF Carried, PassInv
  <1>3. RestOK(thr, t, s)
    BY <1>1, <1>2 DEF RestOK, Left, PassInv
  <1>4. RestOK(thr, t, <<>>)
    BY PassesAre DEF RestOK
  <1>5. RestOK(thr, t, <<"episode">> \o s)
    <2> DEFINE r == <<"episode">> \o s
    <2>1. r \in Seq(PassNames) /\ Ordered(r) /\ \A p \in PassNames : p # "episode" => (Has(r, p) <=> Has(s, p))
      BY <1>2, EpisodeFirst
    <2>2. \A p \in {"settle", "orphans", "recover", "serve"} : Has(r, p) <=> Has(s, p)
      BY <2>1 DEF PassNames
    <2> QED  BY <2>1, <2>2, <1>3 DEF RestOK
  <1>6. ASSUME s # <<>> PROVE RestOK(thr, t, Tail(s))
    <2>1. Tail(s) = SubSeq(s, 2, Len(s)) /\ Len(s) \in Nat /\ Len(s) # 0
      BY <1>2, <1>6, TailIsSubSeq, EmptySeq
    <2>2. /\ Tail(s) \in Seq(PassNames) /\ Ordered(Tail(s)) /\ \A p \in PassNames : Has(Tail(s), p) => Has(s, p)
      <3> HIDE DEF s
      <3>1. 2 \in 1..(Len(s) + 1)
        BY <2>1
      <3>2. LET r == SubSeq(s, 2, Len(s))
            IN  r \in Seq(PassNames) /\ Ordered(r) /\ \A p \in PassNames : Has(r, p) => Has(s, p)
        BY <1>2, <3>1, Suffix
      <3> QED  BY <3>2, <2>1
    <2>3. \A p \in {"settle", "orphans", "recover", "serve"} : Has(Tail(s), p) => Has(s, p)
      BY <2>2 DEF PassNames
    <2> QED  BY <2>2, <2>3, <1>3 DEF RestOK
  <1> QED  BY <1>3, <1>4, <1>5, <1>6

LEMMA PassIs ==
    ASSUME IInv, NEW t \in Threads, NEW i \in DOMAIN Passes(t)
    PROVE  LET ps == Passes(t)
               here == SubSeq(ps, i, Len(ps))
               after == SubSeq(ps, i + 1, Len(ps))
           IN  /\ RestOK(thr, t, here) /\ RestOK(thr, t, after) /\ ps[i] \in PassNames /\ here # <<>>
               /\ ps[i] = "settle" => Left(thr, t, "settle") /\ ~Has(after, "settle")
               /\ ps[i] \in {"recover", "serve"} => t = Poller /\ ~Has(after, "orphans")
               /\ ps[i] = "orphans" => t = Poller /\ Left(thr, t, "orphans")
  <1> DEFINE ps == Passes(t)
             here == SubSeq(ps, i, Len(ps))
             after == SubSeq(ps, i + 1, Len(ps))
  <1>1. RestOK(thr, t, ps)
    <2>1. RestOK(thr, t, thr[t].rest)
      BY RestIs
    <2>2. t = Poller => RestOK(thr, t, Poll)
      BY PassesAre DEF RestOK
    <2> QED  BY <2>1, <2>2 DEF Passes
  <1> HIDE DEF ps
  <1>2. /\ ps \in Seq(PassNames) /\ Ordered(ps) /\ Len(ps) \in Nat /\ i \in 1..Len(ps) /\ ps[i] \in PassNames
    BY <1>1 DEF RestOK, ps
  <1>3. /\ here \in Seq(PassNames) /\ Ordered(here) /\ \A p \in PassNames : Has(here, p) => Has(ps, p)
    BY <1>2, Suffix
  <1>4. /\ after \in Seq(PassNames) /\ Ordered(after) /\ \A p \in PassNames : Has(after, p) => Has(ps, p)
        /\ ps[i] = "settle" => ~Has(after, "settle")
        /\ ps[i] \in {"recover", "serve"} => ~Has(after, "orphans")
    <2>1. i + 1 \in 1..(Len(ps) + 1) /\ i \in DOMAIN ps
      BY <1>2
    <2> QED  BY <1>2, <2>1, Suffix
  <1>5. RestOK(thr, t, here) /\ RestOK(thr, t, after)
    <2>1. \A p \in {"settle", "orphans", "recover", "serve"} : p \in PassNames
      BY DEF PassNames
    <2> QED  BY <1>1, <1>3, <1>4, <2>1 DEF RestOK
  <1>6. \A p : ps[i] = p => Has(ps, p)
    BY <1>2 DEF Has
  <1>7. Left(thr, t, "orphans") => t = Poller
    BY Parts DEF Lines, PassInv
  <1>8. here # <<>>
    <2>1. Len(here) = Len(ps) - i + 1
      BY <1>2, SubSeqProperties
    <2>2. Len(here) # 0
      BY <1>2, <2>1
    <2> HIDE DEF here
    <2> QED  BY <2>2
  <1> QED  BY <1>1, <1>2, <1>4, <1>5, <1>6, <1>7, <1>8 DEF RestOK, ps

(* A thread that goes on to its next pass. *)
LEMMA GoesOnward ==
    ASSUME NEW x, NEW y, NEW rows, NEW cs, NEW ws, NEW ns, NEW recs, NEW ca, NEW ths, NEW b,
           All(x, y, rows, cs, ws, ns, recs, ca, ths, b),
           NEW t \in Threads, NEW r, RestOK(ths, t, r)
    PROVE  All(x, y, rows, cs, ws, ns, recs, ca, [ths EXCEPT ![t] = [Idle EXCEPT !.rest = r]], b)
  <1> DEFINE d == [Idle EXCEPT !.rest = r]
  <1>1. r \in Seq(PassNames)
    BY DEF RestOK
  <1>2. d \in Carried /\ d.rest = r /\ d.pc = "next"
    BY <1>1 DEF Idle, Carried, NoOp
  <1> HIDE DEF d
  <1>3. Follows(ths, t, d) /\ ~Recovers(d) /\ Redrives(cs, d)
    BY <1>2 DEF Follows, RestOK, Recovers, Redrives
  <1>4. All(x, y, rows, cs, ws, ns, recs, ca, [ths EXCEPT ![t] = d], b)
    BY <1>2, <1>3, ThreadGoesOn
  <1> QED  BY <1>4 DEF d

(* A step of a thread that leaves the ledger alone. *)
LEMMA ThreadOnly ==
    ASSUME IInv, UNCHANGED <<ledgerVars, plan, call, boot>>,
           All(ep[This], report[This], task, cmd, work, notice, rec, call, thr', boot)
    PROVE  IInv'
  <1>1. Shape'
    BY Parts, ShapeStays DEF ledgerVars
  <1> QED  BY <1>1 DEF IInv, ledgerVars, reportVars

LEMMA ReadWakeStep ==
    ASSUME IInv, NEW t \in Threads, NEW pass, NEW after, RestOK(thr, t, after), ReadWake(t, pass, after),
           UNCHANGED <<plan, call>>
    PROVE  IInv'
  <1> DEFINE d == [Idle EXCEPT !.rest = after, !.pc = "claim", !.letters = Pending(mail),
                               !.notices = IF pass = "lifecycle" THEN Pending(notice) ELSE {}]
  <1>1. /\ All(ep[This], report[This], task, cmd, work, notice, rec, call, thr, boot) /\ Shape
        /\ notice \in [Ops -> Notice]
    BY Parts
  <1>2. after \in Seq(PassNames) /\ Pending(mail) \subseteq Messages /\ Pending(notice) \subseteq Ops
    BY <1>1 DEF RestOK, Shape, Pending
  <1>3. d \in Carried /\ d.rest = after /\ d.pc = "claim"
    BY <1>2 DEF Idle, Carried, NoOp
  <1>4. thr' = [thr EXCEPT ![t] = d]
    BY DEF ReadWake
  <1> HIDE DEF d
  <1>5. Follows(thr, t, d) /\ ~Recovers(d) /\ Redrives(cmd, d)
    BY <1>3 DEF Follows, RestOK, Recovers, Redrives
  <1>6. All(ep[This], report[This], task, cmd, work, notice, rec, call, thr', boot)
    BY <1>1, <1>3, <1>4, <1>5, ThreadGoesOn
  <1> QED  BY <1>6, ThreadOnly DEF ReadWake

LEMMA ReadRecoveryStep ==
    ASSUME IInv, NEW after, RestOK(thr, Poller, after), ~Has(after, "orphans"), ReadRecovery(Poller, after),
           UNCHANGED <<plan, call>>
    PROVE  IInv'
  <1>1. PICK a \in DueRecoveries :
          thr' = [thr EXCEPT ![Poller] = [Idle EXCEPT !.rest = after, !.pc = "retry", !.at = a, !.op = rec[a].op]]
    BY DEF ReadRecovery
  <1> DEFINE d == [Idle EXCEPT !.rest = after, !.pc = "retry", !.at = a, !.op = rec[a].op]
  <1>2. /\ All(ep[This], report[This], task, cmd, work, notice, rec, call, thr, boot)
        /\ rec \in [Ops -> Recovery] /\ RecoveryInv(task, rec) /\ Poller \in Threads
    BY Parts DEF Lines, Threads
  <1>3. a \in Ops /\ a \in Nat /\ rec[a].status = "pending" /\ after \in Seq(PassNames)
    BY DEF DueRecoveries, Ops, RestOK
  <1>4. rec[a].op \in Ops /\ Failed(task, rec[a].op) /\ task[rec[a].op].alloc = a
    BY <1>2, <1>3 DEF RecoveryInv, RecoveryOK, Recovery
  <1>5. d \in Carried /\ d.rest = after /\ d.pc = "retry" /\ d.at = a /\ d.op = rec[a].op
    BY <1>3, <1>4 DEF Idle, Carried, NoOp
  <1> HIDE DEF d
  <1>6. LookOK(task, d)
    BY <1>3, <1>4, <1>5 DEF LookOK
  <1>7. Follows(thr, Poller, d) /\ Redrives(cmd, d)
    BY <1>5 DEF Follows, RestOK, Redrives
  <1>8. All(ep[This], report[This], task, cmd, work, notice, rec, call, thr', boot)
    BY <1>1, <1>2, <1>3, <1>5, <1>6, <1>7, ThreadGoesOn DEF d
  <1> QED  BY <1>8, ThreadOnly DEF ReadRecovery

(* reconcile_pending_auto_research_child_admissions *)
LEMMA DriveStep ==
    ASSUME IInv, NEW t \in Threads, NEW here, NEW after, RestOK(thr, t, here), RestOK(thr, t, after),
           Admitted # {}, Drive(t, here, after), UNCHANGED <<plan, call>>
    PROVE  IInv'
  <1> DEFINE k == Least(Admitted)
             x == ep[This]
             d(out) == [Idle EXCEPT !.rest = here, !.pc = "answer", !.at = k, !.as = out]
             able == cmd[k].exit \in {"none", "unavailable"} /\ ChildAccepted(k)
  <1>1. /\ All(x, report[This], task, cmd, work, notice, rec, call, thr, boot) /\ Shape
        /\ cmd \in [Keys -> Command] /\ CommandInv(x, cmd, call, thr) /\ SpawnInv(task, cmd, work)
    BY Parts
  <1>2. k \in Keys /\ cmd[k].adm = "accepted" /\ k \in Nat
    <2>1. Admitted \subseteq Nat
      BY LedgerAssumption DEF Admitted, Keys
    <2>2. k \in Admitted
      BY <2>1, LeastIn
    <2> QED  BY <2>1, <2>2 DEF Admitted
  <1>3. cmd[k].by # NoOp
    BY <1>1, <1>2 DEF CommandInv, CommandOK, NoCommand
  <1>4. UNCHANGED <<report, notice, mail, rec, boot>>
    BY DEF Drive
  <1> HIDE DEF k
  <1>5. ASSUME NEW out \in {"ok", "invalid"}, thr' = [thr EXCEPT ![t] = d(out)], NEW z, NEW rows, NEW cs, NEW ws,
               All(z, report[This], rows, cs, ws, notice, rec, call, thr, boot),
               cs[k].by # NoOp, out = "ok" => cs[k].adm = "reflected"
        PROVE  All(z, report[This], rows, cs, ws, notice, rec, call, thr', boot)
    <2>1. here \in Seq(PassNames)
      BY DEF RestOK
    <2>2. d(out) \in Carried /\ d(out).rest = here /\ d(out).pc = "answer" /\ d(out).at = k /\ d(out).as = out
      BY <1>2, <2>1, <1>5 DEF Idle, Carried, NoOp
    <2> HIDE DEF d
    <2>3. Follows(thr, t, d(out)) /\ ~Recovers(d(out)) /\ Redrives(cs, d(out))
      BY <1>2, <1>5, <2>2 DEF Follows, RestOK, Recovers, Redrives
    <2>4. All(z, report[This], rows, cs, ws, notice, rec, call, [thr EXCEPT ![t] = d(out)], boot)
      BY <1>5, <2>2, <2>3, ThreadGoesOn
    <2> QED  BY <1>5, <2>4
  <1>6. CASE able /\ thr' = [thr EXCEPT ![t] = d("ok")]
             /\ \E o \in Ops : Fresh(o) /\ create_auto_research_child_work(k, o)
    <2>1. PICK o \in Ops : Fresh(o) /\ create_auto_research_child_work(k, o)
      BY <1>6
    <2>2. /\ All(ep'[This], report[This], task', cmd', work', notice, rec, call, thr, boot)
          /\ ep' \in [Episodes -> Episode] /\ cmd'[k].adm = "reflected" /\ cmd'[k].by # NoOp
      BY <1>2, <1>6, <2>1, WorkIsSeated
    <2> HIDE DEF d
    <2>3. All(ep'[This], report[This], task', cmd', work', notice, rec, call, thr', boot)
      BY <1>5, <1>6, <2>2
    <2> QED  BY <1>1, <1>4, <2>2, <2>3 DEF IInv, Shape
  <1>7. CASE Onward(t, after) /\ UNCHANGED <<ep, task, cmd, work>>
    <2>1. All(x, report[This], task, cmd, work, notice, rec, call, thr', boot)
      BY <1>1, <1>7, GoesOnward DEF Onward
    <2> QED  BY <1>1, <1>4, <1>7, <2>1, ShapeStays DEF IInv, reportVars
  <1>8. CASE thr' = [thr EXCEPT ![t] = d("invalid")] /\ UNCHANGED <<ep, task, work>>
             /\ cancel_auto_research_child_admission(k)
    <2> DEFINE c == [cmd[k] EXCEPT !.adm = IF @ = "accepted" THEN "cancelled" ELSE @]
    <2>1. cmd' = [cmd EXCEPT ![k] = c]
      BY <1>1, <1>8 DEF cancel_auto_research_child_admission
    <2>2. /\ c \in Command /\ c.verb = cmd[k].verb /\ c.by = cmd[k].by /\ c.exit = cmd[k].exit
          /\ c.receipt = cmd[k].receipt /\ c.adm = "cancelled"
      BY <1>1, <1>2 DEF Command
    <2>3. cmd[k].verb = "spawn" /\ cmd[k].exit # "ok"
      BY <1>1, <1>2 DEF SpawnInv, CommandInv, CommandOK, Answerable
    <2> HIDE DEF c, d
    <2>4. CommandOK(x, c)
      BY <1>3, <2>2, <2>3 DEF CommandOK, Answerable
    <2>5. All(x, report[This], task, cmd', work, notice, rec, call, thr, boot)
      BY <1>1, <1>2, <1>3, <2>1, <2>2, <2>4, CommandGoesOn
    <2>6. cmd'[k].by # NoOp
      BY <1>1, <1>2, <1>3, <2>1, <2>2
    <2>7. All(x, report[This], task, cmd', work, notice, rec, call, thr', boot)
      BY <1>5, <1>8, <2>5, <2>6
    <2> QED  BY <1>1, <1>4, <1>8, <2>7, ShapeStays DEF IInv, reportVars
  <1> QED  BY <1>6, <1>7, <1>8 DEF Drive, k

(* The orchestrator's latest turn. *)
LEMMA LatestIs ==
    ASSUME IInv, ep[This].status # "none"
    PROVE  Latest \in Ops
  <1>1. RowInv(task) /\ PaidInv(ep[This], task) /\ task \in [Ops -> TaskRow]
    BY Parts
  <1>2. \E o \in Ops : IsTurn(task, o)
    BY <1>1 DEF PaidInv
  <1>3. \A o \in Ops : o \in Turns <=> IsTurn(task, o)
    BY <1>1 DEF Turns, Rows, IsTurn, RowInv, RowOK, NoTask
  <1>4. PICK m \in Ops : IsTurn(task, m) /\ \A p \in Ops : IsTurn(task, p) => p <= m
    BY <1>1, <1>2 DEF RowInv
  <1>5. m \in Turns /\ \A p \in Turns : p <= m
    BY <1>3, <1>4 DEF Turns, Rows
  <1>6. Latest \in Turns
    BY <1>5 DEF Latest
  <1> QED  BY <1>6 DEF Turns, Rows

(* reconcile_auto_research_episode *)
LEMMA EpisodePassStep ==
    ASSUME IInv, NEW t \in Threads, NEW here, NEW after, RestOK(thr, t, here), RestOK(thr, t, after),
           thr[t].pc = "next", here # <<>>, EpisodeDue, EpisodePass(t, here, after), UNCHANGED <<plan,
           call>>
    PROVE  IInv'
  <1> DEFINE x == ep[This]
  <1>1. /\ All(x, report[This], task, cmd, work, notice, rec, call, thr, boot) /\ Shape
        /\ RecordOK(x, report[This]) /\ thr \in [Threads -> Carried] /\ RowInv(task) /\ PaidInv(x, task)
        /\ UNCHANGED <<task, cmd, work, notice, mail, rec, boot>> /\ task \in [Ops -> TaskRow]
    BY Parts DEF EpisodePass
  <1>2. ASSUME ep' \in [Episodes -> Episode], report' \in [Episodes -> ReportRow], Onward(t, after),
               All(ep'[This], report'[This], task, cmd, work, notice, rec, call, thr, boot)
        PROVE  IInv'
    <2>1. All(ep'[This], report'[This], task, cmd, work, notice, rec, call, thr', boot)
      BY <1>2, GoesOnward DEF Onward
    <2> QED  BY <1>1, <1>2, <2>1 DEF IInv, Shape
  <1>3. CASE settle_auto_research_stop /\ Onward(t, after) /\ UNCHANGED report
    <2>1. /\ ep' \in [Episodes -> Episode] /\ report' \in [Episodes -> ReportRow]
          /\ All(ep'[This], report'[This], task, cmd, work, notice, rec, call, thr, boot)
      BY <1>1, <1>3, StopIsSettled DEF Shape
    <2> QED  BY <1>2, <1>3, <2>1
  <1>4. CASE start_episode_report(This) /\ Onward(t, after)
    BY <1>2, <1>4, ReportRestarts
  <1>5. CASE ~x.stop /\ x.ending = "none" /\ To(t, here, "fence") /\ UNCHANGED reportVars
    <2> DEFINE d == [thr[t] EXCEPT !.rest = here, !.pc = "fence"]
    <2>1. x.status = "running" /\ Exhaustible
      BY <1>1, <1>5 DEF EpisodeDue, RecordOK, Endings
    <2>2. AllOver(task, rec, thr) /\ x.status # "none" /\ ~(x.used < x.ceiling)
      BY <2>1, QuietTurns DEF Exhaustible, Affordable
    <2>3. here \in Seq(PassNames)
      BY DEF RestOK
    <2>4. d \in Carried /\ d.rest = here /\ d.pc = "fence"
      BY <1>1, <2>3 DEF Carried
    <2>5. thr' = [thr EXCEPT ![t] = d]
      BY <1>1, <1>5 DEF To
    <2> HIDE DEF d, x
    <2>6. Follows(thr, t, d) /\ ~Recovers(d) /\ Redrives(cmd, d)
      BY <2>4 DEF Follows, RestOK, Recovers, Redrives
    <2>7. All(x, report[This], task, cmd, work, notice, rec, call, thr', boot)
      BY <1>1, <2>2, <2>4, <2>5, <2>6, ThreadGoesOn
    <2> QED  BY <1>1, <1>5, <2>7, ShapeStays DEF IInv, reportVars, x
  <1>6. CASE /\ ~x.stop /\ x.ending # "none" /\ x.wrap = "not_started" /\ Onward(t, after)
             /\ begin_episode_report_wrapup(This, Latest, x.ending, task[Latest].session)
    <2>1. x.status = "wrapping_up" /\ ~Unsettled
      BY <1>6 DEF EpisodeDue
    <2>2. \A o \in Ops : ~Live(task, o)
      BY <2>1 DEF Unsettled, Rows, Live, LiveRow
    <2>3. Latest \in Ops
      BY <1>1, <2>1, LatestIs
    <2>4. /\ ep' \in [Episodes -> Episode] /\ report' \in [Episodes -> ReportRow]
          /\ All(ep'[This], report'[This], task, cmd, work, notice, rec, call, thr, boot)
      BY <1>6, <2>1, <2>2, <2>3, WrapupBegins
    <2> QED  BY <1>2, <1>6, <2>4
  <1> QED  BY <1>3, <1>4, <1>5, <1>6 DEF EpisodePass

(* What leaves the episode's ending unclaimed. *)
LEMMA FailedFence ==
    ASSUME IInv, ep[This].ending = "none", ep[This].status = "running"
    PROVE  EndInv(Fenced(ep[This], "failed"), task, cmd, notice)
  <1>1. ep[This].wrap = "not_started" /\ ep[This] \in Episode
    BY Parts DEF RecordOK
  <1>2. Fenced(ep[This], "failed").ending = "failed" /\ Fenced(ep[This], "failed").wrap = "not_started"
    BY <1>1 DEF Fenced, Episode
  <1> QED  BY <1>2 DEF EndInv

(* settle_auto_research_task *)
LEMMA SettleStep ==
    ASSUME IInv, NEW t \in Threads, NEW after, RestOK(thr, t, after), Left(thr, t, "settle"), ~Has(after, "settle"),
           Settle(t, after), UNCHANGED <<plan, call>>
    PROVE  IInv'
  <1> DEFINE x == ep[This]
  <1>1. /\ All(x, report[This], task, cmd, work, notice, rec, call, thr, boot) /\ Shape
        /\ thr \in [Threads -> Carried] /\ RowInv(task) /\ task \in [Ops -> TaskRow] /\ rec \in [Ops -> Recovery]
        /\ Lines(task, rec, thr, boot)
        /\ UNCHANGED <<report, task, cmd, work, notice, mail, boot>>
    BY Parts DEF Settle
  <1>2. RestOK(thr, t, <<>>)
    BY RestIs
  <1>3. ASSUME NEW r, RestOK(thr, t, r), Onward(t, r), UNCHANGED rec, ep' \in [Episodes -> Episode],
               All(ep'[This], report[This], task, cmd, work, notice, rec, call, thr, boot)
        PROVE  IInv'
    <2>1. All(ep'[This], report[This], task, cmd, work, notice, rec, call, thr', boot)
      BY <1>3, GoesOnward DEF Onward
    <2> QED  BY <1>1, <1>3, <2>1 DEF IInv, Shape
  <1>4. ASSUME UNCHANGED ep
        PROVE  /\ ep' \in [Episodes -> Episode]
               /\ All(ep'[This], report[This], task, cmd, work, notice, rec, call, thr, boot)
    BY <1>1, <1>4 DEF Shape
  <1>5. CASE settle_auto_research_stop /\ Onward(t, <<>>) /\ UNCHANGED rec
    BY <1>2, <1>3, <1>5, StopIsSettled
  <1>6. CASE \E r \in {after, <<>>} : Onward(t, r) /\ UNCHANGED <<ep, rec>>
    BY <1>2, <1>3, <1>4, <1>6
  <1>7. CASE FenceAccepted(This, "failed") /\ fence_episode_ending(This, "failed") /\ Onward(t, after) /\ UNCHANGED rec
    <2>1. /\ ep' \in [Episodes -> Episode]
          /\ All(ep'[This], report[This], task, cmd, work, notice, rec, call, thr, boot)
      BY <1>7, FailedFence, FenceIsWritten DEF Endings
    <2> QED  BY <1>3, <1>7, <2>1
  <1>8. CASE /\ task[t].status \in {"failed", "interrupted"} /\ ~task[t].structural
             /\ schedule_auto_research_task_recovery(t) /\ Onward(t, after) /\ UNCHANGED ep
    <2>1. t \in Ops /\ IsTurn(task, t) /\ ~Live(task, t) /\ t # Poller
      BY <1>1 DEF Lines, PassInv, Ops, Poller
    <2>2. All(x, report[This], task, cmd, work, notice, rec, call, thr', boot)
      BY <1>1, <1>8, GoesOnward DEF Onward
    <2>3. Lines(task, rec, thr', boot)
      BY <2>2 DEF All
    <2>4. Failed(task, t)
      BY <1>8, <2>1 DEF Failed
    <2>5. thr'[t].rest = after /\ \A u \in Threads : u # t => thr'[u] = thr[u]
      BY <1>1, <1>8 DEF Onward, Idle
    <2>6. ~Left(thr', t, "settle")
      BY <2>5 DEF Left
    <2>7. ASSUME Retrying(thr', t), Leafless(task, t), ~task[t].abandoned PROVE rec[task[t].alloc].op = t
      <3>1. Retrying(thr, t)
        BY <2>1, <2>5, <2>7 DEF Retrying, Threads
      <3> QED  BY <3>1, <2>1, <2>7, <1>1 DEF Lines, RetryInv
    <2>8. /\ rec' = [rec EXCEPT ![task[t].alloc] = Scheduled(rec[task[t].alloc], t)]
      BY <1>8, SchedulesIt
    <2>9. rec' \in [Ops -> Recovery] /\ Lines(task, rec', thr', boot)
      BY <1>1, <2>1, <2>3, <2>4, <2>6, <2>7, <2>8, LinesScheduled
    <2>10. All(x, report[This], task, cmd, work, notice, rec', call, thr', boot)
      BY <2>2, <2>9, RecoveriesGoOn
    <2> QED  BY <1>1, <1>8, <2>10, ShapeStays DEF IInv, reportVars
  <1> QED  BY <1>5, <1>6, <1>7, <1>8 DEF Settle

(* reconcile_orphaned_auto_research_failures *)
LEMMA OrphanStep ==
    ASSUME IInv, NEW here, NEW after, RestOK(thr, Poller, here), RestOK(thr, Poller, after),
           Left(thr, Poller, "orphans"), auto_research_recovery_candidates # {},
           Orphan(Poller, here, after), UNCHANGED <<plan, call>>, Ordered(here),
           RestOK(thr, Poller, <<"episode">> \o after)
    PROVE  IInv'
  <1> DEFINE x == ep[This]
             o == Least(auto_research_recovery_candidates)
  <1>1. /\ All(x, report[This], task, cmd, work, notice, rec, call, thr, boot) /\ Shape
        /\ thr \in [Threads -> Carried] /\ RowInv(task) /\ task \in [Ops -> TaskRow] /\ rec \in [Ops -> Recovery]
        /\ Lines(task, rec, thr, boot) /\ Poller \in Threads
        /\ UNCHANGED <<report, task, cmd, work, notice, mail>>
    BY Parts DEF Orphan, Threads
  <1>2. /\ o \in Ops /\ IsTurn(task, o) /\ task[o].status \in {"failed", "interrupted"}
        /\ \A a \in Ops : rec[a].op # o
    <2>1. auto_research_recovery_candidates \subseteq Nat
      BY DEF auto_research_recovery_candidates, Turns, Rows, Ops
    <2>2. o \in auto_research_recovery_candidates
      BY <2>1, LeastIn
    <2> QED  BY <2>2 DEF auto_research_recovery_candidates, Turns, Rows, IsTurn
  <1>3. RestOK(thr, Poller, <<>>)
    BY <1>1, RestIs
  <1>4. CASE ~task[o].structural
    <2>1. schedule_auto_research_task_recovery(o) /\ Onward(Poller, here) /\ UNCHANGED <<ep, boot>>
      BY <1>4 DEF Orphan
    <2>2. Failed(task, o)
      BY <1>2, <1>4 DEF Failed
    <2>3. Left(thr, o, "settle") => task[o].recovers = NoOp
      BY <1>1, <1>2 DEF Lines, PassInv
    <2>4. ~Retrying(thr, o)
      BY <1>1 DEF Lines, PassInv, Retrying, Recovers
    <2> HIDE DEF o
    <2>5. rec' = [rec EXCEPT ![task[o].alloc] = Scheduled(rec[task[o].alloc], o)]
      BY <2>1, SchedulesIt
    <2>6. rec' \in [Ops -> Recovery] /\ Lines(task, rec', thr, boot)
      BY <1>1, <1>2, <2>2, <2>3, <2>4, <2>5, LinesScheduled
    <2>7. All(x, report[This], task, cmd, work, notice, rec', call, thr, boot)
      BY <1>1, <2>6, RecoveriesGoOn
    <2>8. All(x, report[This], task, cmd, work, notice, rec', call, thr', boot)
      BY <1>1, <2>1, <2>7, GoesOnward DEF Onward
    <2> QED  BY <1>1, <2>1, <2>8, ShapeStays DEF IInv, reportVars
  <1>5. CASE task[o].structural /\ FenceAccepted(This, "failed")
    <2>1. fence_episode_ending(This, "failed") /\ Onward(Poller, <<"episode">> \o after) /\ UNCHANGED <<rec, boot>>
      BY <1>5 DEF Orphan
    <2>2. /\ ep' \in [Episodes -> Episode]
          /\ All(ep'[This], report[This], task, cmd, work, notice, rec, call, thr, boot)
      BY <1>5, <2>1, FailedFence, FenceIsWritten DEF Endings
    <2>3. All(ep'[This], report[This], task, cmd, work, notice, rec, call, thr', boot)
      BY <1>1, <2>1, <2>2, GoesOnward DEF Onward
    <2> QED  BY <1>1, <2>1, <2>2, <2>3 DEF IInv, Shape
  <1>6. CASE task[o].structural /\ ~FenceAccepted(This, "failed")
    <2>1. boot' = "down" /\ Onward(Poller, <<>>) /\ UNCHANGED <<ep, rec>>
      BY <1>6 DEF Orphan
    <2>2. All(x, report[This], task, cmd, work, notice, rec, call, thr', boot)
      BY <1>1, <1>3, <2>1, GoesOnward DEF Onward
    <2>3. thr'[Poller].rest = <<>>
      BY <1>1, <2>1 DEF Onward, Idle
    <2>4. ~Left(thr', Poller, "orphans")
      BY <2>3, PassesAre DEF Left
    <2>5. All(x, report[This], task, cmd, work, notice, rec, call, thr', boot')
      BY <2>1, <2>2, <2>4, ProcessGoesOn
    <2> QED  BY <1>1, <2>1, <2>5, ShapeStays DEF IInv, reportVars
  <1> QED  BY <1>4, <1>5, <1>6

LEMMA EpisodeAfter ==
    ASSUME NEW ths, NEW t, NEW r, RestOK(ths, t, r)
    PROVE  RestOK(ths, t, <<"episode">> \o r)
  <1> DEFINE e == <<"episode">> \o r
  <1>1. e \in Seq(PassNames) /\ Ordered(e) /\ \A p \in PassNames : p # "episode" => (Has(e, p) <=> Has(r, p))
    BY EpisodeFirst DEF RestOK
  <1>2. \A p \in {"settle", "orphans", "recover", "serve"} : Has(e, p) <=> Has(r, p)
    BY <1>1 DEF PassNames
  <1> QED  BY <1>1, <1>2 DEF RestOK

LEMMA PassStep ==
    ASSUME IInv, NEW t \in Threads, Pass(t), UNCHANGED <<plan, call>>
    PROVE  IInv'
  <1> DEFINE ps == Passes(t)
             due == {i \in DOMAIN ps : HasWork(ps[i])}
             i == Least(due)
             here == SubSeq(ps, i, Len(ps))
             after == SubSeq(ps, i + 1, Len(ps))
             x == ep[This]
  <1>1. /\ All(x, report[This], task, cmd, work, notice, rec, call, thr, boot) /\ Shape
        /\ thr \in [Threads -> Carried] /\ Poller \in Threads
    BY Parts DEF Threads
  <1>2. CASE due = {}
    <2>1. Onward(t, <<>>) /\ UNCHANGED <<ledgerVars, boot>>
      BY <1>2 DEF Pass
    <2>2. RestOK(thr, t, <<>>)
      BY RestIs
    <2>3. All(x, report[This], task, cmd, work, notice, rec, call, thr', boot)
      BY <1>1, <2>1, <2>2, GoesOnward DEF Onward
    <2> QED  BY <2>1, <2>3, ThreadOnly
  <1>3. CASE due # {}
    <2>0. ps \in Seq(PassNames)
      <3>1. RestOK(thr, t, thr[t].rest)
        BY RestIs
      <3> QED  BY <3>1, PassesAre DEF Passes, RestOK
    <2>1. i \in DOMAIN ps /\ HasWork(ps[i])
      <3>1. due \subseteq Nat
        BY <2>0
      <3>2. i \in due
        BY <1>3, <3>1, LeastIn
      <3> QED  BY <3>2
    <2>2. \/ ps[i] = "children" /\ Drive(t, here, after)
          \/ ps[i] \in {"lifecycle", "mail"} /\ ReadWake(t, ps[i], after)
          \/ ps[i] = "episode" /\ EpisodePass(t, here, after)
          \/ ps[i] = "settle" /\ Settle(t, after)
          \/ ps[i] = "stop" /\ SettleStop(t, after)
          \/ ps[i] = "recover" /\ ReadRecovery(t, after)
          \/ ps[i] = "orphans" /\ Orphan(t, here, after)
          \/ ps[i] = "reports" /\ RestartReport(t, after)
          \/ ps[i] = "serve" /\ Onward(t, after) /\ boot' = "serving" /\ UNCHANGED <<ledgerVars, budget>>
      BY <1>3 DEF Pass
    <2> HIDE DEF i
    <2>3. /\ RestOK(thr, t, here) /\ RestOK(thr, t, after) /\ ps[i] \in PassNames /\ here # <<>>
          /\ ps[i] = "settle" => Left(thr, t, "settle") /\ ~Has(after, "settle")
          /\ ps[i] \in {"recover", "serve"} => t = Poller /\ ~Has(after, "orphans")
          /\ ps[i] = "orphans" => t = Poller /\ Left(thr, t, "orphans")
      BY <2>1, PassIs
    <2> DEFINE p == ps[i]
    <2>4. HasWork(p)
      BY <2>1
    <2> HIDE DEF ps, due, here, after, p
    <2>5. CASE p = "children" /\ Drive(t, here, after)
      <3>1. Admitted # {}
        BY <2>4, <2>5 DEF HasWork
      <3> QED  BY <2>3, <2>5, <3>1, DriveStep
    <2>6. CASE p \in {"lifecycle", "mail"} /\ ReadWake(t, p, after)
      BY <2>3, <2>6, ReadWakeStep
    <2>7. CASE p = "episode" /\ EpisodePass(t, here, after)
      <3>1. EpisodeDue /\ thr[t].pc = "next"
        BY <2>4, <2>7 DEF HasWork, Pass
      <3> QED  BY <2>3, <2>7, <3>1, EpisodePassStep
    <2>8. CASE p = "settle" /\ Settle(t, after)
      BY <2>3, <2>8, SettleStep DEF p
    <2>9. CASE p = "stop" /\ SettleStop(t, after)
      <3>1. /\ ep' \in [Episodes -> Episode]
            /\ All(ep'[This], report[This], task, cmd, work, notice, rec, call, thr, boot)
        BY <2>9, StopIsSettled DEF SettleStop
      <3>2. All(ep'[This], report[This], task, cmd, work, notice, rec, call, thr', boot)
        BY <2>3, <2>9, <3>1, GoesOnward DEF SettleStop, Onward
      <3> QED  BY <1>1, <2>9, <3>1, <3>2 DEF SettleStop, IInv, Shape
    <2>10. CASE p = "recover" /\ ReadRecovery(t, after)
      <3>1. t = Poller /\ ~Has(after, "orphans")
        BY <2>3, <2>10 DEF p
      <3> QED  BY <2>3, <2>10, <3>1, ReadRecoveryStep
    <2>11. CASE p = "orphans" /\ Orphan(t, here, after)
      <3>1. t = Poller /\ Left(thr, t, "orphans")
        BY <2>3, <2>11 DEF p
      <3>2. auto_research_recovery_candidates # {}
        BY <2>4, <2>11 DEF HasWork
      <3>3. Ordered(here) /\ RestOK(thr, Poller, <<"episode">> \o after)
        BY <2>3, <3>1, EpisodeAfter DEF RestOK
      <3> QED  BY <2>3, <2>11, <3>1, <3>2, <3>3, OrphanStep
    <2>12. CASE p = "reports" /\ RestartReport(t, after)
      <3>1. /\ ep' \in [Episodes -> Episode] /\ report' \in [Episodes -> ReportRow]
            /\ All(ep'[This], report'[This], task, cmd, work, notice, rec, call, thr, boot)
        BY <2>12, ReportRestarts DEF RestartReport
      <3>2. All(ep'[This], report'[This], task, cmd, work, notice, rec, call, thr', boot)
        BY <2>3, <2>12, <3>1, GoesOnward DEF RestartReport, Onward
      <3> QED  BY <1>1, <2>12, <3>1, <3>2 DEF RestartReport, IInv, Shape
    <2>13. CASE p = "serve" /\ Onward(t, after) /\ boot' = "serving" /\ UNCHANGED <<ledgerVars, budget>>
      <3>1. t = Poller /\ ~Has(after, "orphans")
        BY <2>3, <2>13 DEF p
      <3>2. All(x, report[This], task, cmd, work, notice, rec, call, thr', boot)
        BY <1>1, <2>3, <2>13, GoesOnward DEF Onward
      <3>3. ~Left(thr', Poller, "orphans")
        BY <1>1, <2>13, <3>1 DEF Onward, Idle, Left
      <3>4. All(x, report[This], task, cmd, work, notice, rec, call, thr', boot')
        BY <2>13, <3>2, <3>3, ProcessGoesOn
      <3>5. Shape'
        BY <1>1, <2>13, ShapeStays DEF ledgerVars
      <3> QED  BY <2>13, <3>4, <3>5 DEF IInv, ledgerVars, reportVars
    <2> QED  BY <2>2, <2>5, <2>6, <2>7, <2>8, <2>9, <2>10, <2>11, <2>12, <2>13 DEF p
  <1> QED  BY <1>2, <1>3

(* _finish_command_if_unknown *)
LEMMA RedrivenStep ==
    ASSUME IInv, NEW t \in Threads, Redriven(t), UNCHANGED <<plan, call>>
    PROVE  IInv'
  <1> DEFINE x == ep[This]
             k == thr[t].at
             out == thr[t].as
  <1>1. /\ All(x, report[This], task, cmd, work, notice, rec, call, thr, boot) /\ Shape
        /\ thr \in [Threads -> Carried] /\ CommandInv(x, cmd, call, thr) /\ SpawnInv(task, cmd, work)
        /\ UNCHANGED <<reportVars, task, work, notice, mail, rec, boot>>
    BY Parts DEF Redriven
  <1>2. /\ k \in Keys /\ cmd[k].by # NoOp /\ (out = "ok" => cmd[k].adm = "reflected")
        /\ out \in {"none", "ok", "invalid", "unavailable"}
    BY <1>1 DEF Redriven, CommandInv, Redrives, Carried
  <1>3. Answerable(x, cmd[k], out)
    BY <1>1, <1>2 DEF Answerable, SpawnInv
  <1>4. All(x, report[This], task, cmd, work, notice, rec, call, thr', boot)
    BY <1>1, RestIs, GoesOnward DEF Redriven, Onward
  <1> HIDE DEF k, out
  <1>5. All(x, report[This], task, cmd', work, notice, rec, call, thr', boot)
    <2>1. CASE cmd[k].exit = "none"
      <3>1. cmd' = [cmd EXCEPT ![k].exit = IF @ = "none" THEN out ELSE @]
        BY <2>1 DEF Redriven, finish_agent_command, k, out
      <3> QED  BY <1>2, <1>3, <1>4, <3>1, Exits
    <2>2. CASE cmd[k].exit # "none"
      BY <1>4, <2>2 DEF Redriven, k
    <2> QED  BY <2>1, <2>2
  <1> QED  BY <1>1, <1>5, ShapeStays DEF IInv, reportVars

(* A turn that is live keeps the orchestrator busy. *)
LEMMA NotBusy ==
    ASSUME IInv, NEW parent, ~Busy(parent)
    PROVE  \A o \in Ops : IsTurn(task, o) => ~Live(task, o)
  <1>1. RowInv(task)
    BY Parts
  <1> SUFFICES ASSUME NEW o \in Ops, IsTurn(task, o), Live(task, o)
               PROVE  FALSE
    OBVIOUS
  <1>2. o \in Turns
    BY DEF Turns, Rows, IsTurn, Live, LiveRow
  <1>3. HasRecoveryChild(o)
    BY <1>2 DEF Busy, Live
  <1>4. PICK c \in Ops : task[c].recovers = o
    BY <1>3 DEF HasRecoveryChild, Rows
  <1>5. RowOK(task, c) /\ o # NoOp
    BY <1>1 DEF RowInv, Ops, NoOp
  <1> QED  BY <1>4, <1>5 DEF RowOK, Live, LiveRow, Recoverable

(* create_auto_research_lifecycle_wake_task *)
LEMMA ClaimStep ==
    ASSUME IInv, NEW t \in Threads, Claim(t), UNCHANGED <<plan, call>>
    PROVE  IInv'
  <1> DEFINE x == ep[This]
             notices == thr[t].notices
             letters == thr[t].letters
  <1>1. /\ All(x, report[This], task, cmd, work, notice, rec, call, thr, boot) /\ Shape
        /\ thr \in [Threads -> Carried] /\ task \in [Ops -> TaskRow] /\ RowInv(task)
        /\ cmd \in [Keys -> Command] /\ work \in [Keys -> Route]
        /\ SpawnInv(task, cmd, work) /\ CommandInv(x, cmd, call, thr)
        /\ UNCHANGED <<cmd, work, rec, boot>>
    BY Parts DEF Claim
  <1>2. RestOK(thr, t, thr[t].rest)
    BY RestIs
  <1>3. ASSUME WakeAccepted(notices, letters), Onward(t, thr[t].rest), UNCHANGED report,
               NEW o \in Ops, Fresh(o), create_auto_research_lifecycle_wake_task(o, notices, letters)
        PROVE  IInv'
    <2> DEFINE row == [NoTask EXCEPT !.role = "orchestrator", !.status = "live", !.alloc = o, !.key = 0,
                                     !.session = task[Latest].session]
               z == [x EXCEPT !.used = @ + 1]
    <2>1. Accepting /\ Affordable /\ ~Busy(NoOp) /\ notices \subseteq Pending(notice)
      BY <1>3 DEF WakeAccepted
    <2>2. /\ ep' \in [Episodes -> Episode] /\ ep'[This] = z
          /\ z \in Episode /\ RecordOK(z, report[This]) /\ z.status = "running"
          /\ z.used = x.used + 1 /\ z.ending = x.ending
          /\ SpentInv(z, thr) /\ ~Fences(thr) /\ x.status = "running"
      BY <1>3, <2>1, Payment DEF create_auto_research_lifecycle_wake_task, Pay
    <2>3. task[Latest].session \in BOOLEAN
      BY <1>1, <2>2, LatestIs DEF TaskRow
    <2>4. task' = [task EXCEPT ![o] = row]
      BY <1>3 DEF create_auto_research_lifecycle_wake_task, Pay, Insert
    <2>5. /\ row \in TaskRow /\ row.status = "live" /\ row.role = "orchestrator" /\ ~row.abandoned
          /\ ~row.structural /\ row.recovers = NoOp /\ row.alloc = o /\ ~row.auto
      BY <2>3 DEF NoTask, TaskRow, LiveRow
    <2>6. IsLast(task, o)
      BY <1>1, <1>3, FreshIsLast
    <2> HIDE DEF row, z, x
    <2>7. Added(task, task', o, row) /\ (PaidFor(row, o) \/ \E p \in Ops : Continues(task, row, p))
      BY <2>1, <2>4, <2>5, <2>6, NotBusy DEF Added, PaidFor
    <2>8. task[o] = NoTask
      BY <1>1, <2>7, AddedFacts
    <2>9. SpawnInv(task', cmd, work)
      BY <1>1, <2>4, <2>5, <2>8, TurnIsNoWork
    <2>10. CommandInv(z, cmd, call, thr)
      BY <1>1, <2>2 DEF CommandInv, CommandOK, Serves, Answerable
    <2>11. /\ z.used = IF row.recovers = NoOp THEN x.used + 1 ELSE x.used
           /\ z.status \in {"running", "stopping"} /\ x.status # "none" /\ row.role = "orchestrator"
           /\ row.recovers = NoOp => ~Fences(thr)
           /\ row.recovers # NoOp => ~Left(thr, Poller, "orphans")
           /\ row.auto => Retrying(thr, row.recovers) /\ ~task[row.recovers].abandoned
      BY <2>2, <2>5
    <2>12. All(z, report[This], task', cmd, work, notice, rec, call, thr, boot)
      BY <1>1, <2>2, <2>7, <2>9, <2>10, <2>11, RowComesIn
    <2>13. All(z, report[This], task', cmd, work, notice, rec, call, thr', boot)
      BY <1>2, <1>3, <2>12, GoesOnward DEF Onward
    <2>14. /\ notice' = Hand(notice, notices, "delivered", o) /\ mail' = Hand(mail, letters, "delivered", o)
           /\ o \in Nat
      BY <1>3 DEF create_auto_research_lifecycle_wake_task, Ops
    <2>15. All(z, report[This], task', cmd, work, notice', rec, call, thr', boot)
      BY <2>1, <2>13, <2>14, NoticesGoOn
    <2>16. mail' \in [Messages -> [state : {"none", "pending", "delivered"}, by : Nat]]
      BY <1>1, <2>14 DEF Hand, Shape
    <2> QED  BY <1>1, <1>3, <2>2, <2>15, <2>16 DEF IInv, Shape
  <1>4. CASE UNCHANGED <<reportVars, task, notice, mail>> /\ Onward(t, thr[t].rest)
    <2>1. All(x, report[This], task, cmd, work, notice, rec, call, thr', boot)
      BY <1>1, <1>2, <1>4, GoesOnward DEF Onward
    <2> QED  BY <1>1, <1>4, <2>1, ShapeStays DEF IInv, reportVars
  <1>5. CASE /\ UNCHANGED <<reportVars, task, notice, mail>> /\ Accepting /\ Exhaustible
             /\ thr' = [thr EXCEPT ![t] = [Idle EXCEPT !.rest = <<"episode">> \o thr[t].rest, !.pc = "fence", !.at = 1]]
    <2> DEFINE r == <<"episode">> \o thr[t].rest
               d == [Idle EXCEPT !.rest = r, !.pc = "fence", !.at = 1]
    <2>1. RestOK(thr, t, r) /\ r # <<>>
      BY <1>1, <1>2, RestIs, EpisodeFirst DEF RestOK
    <2>2. r \in Seq(PassNames)
      BY <2>1 DEF RestOK
    <2> HIDE DEF r
    <2>3. d \in Carried /\ d.rest = r /\ d.pc = "fence"
      BY <2>2 DEF Idle, Carried, NoOp
    <2>4. AllOver(task, rec, thr) /\ x.status # "none" /\ ~(x.used < x.ceiling)
      BY <1>5, QuietTurns DEF Exhaustible, Affordable, Accepting
    <2>5. thr' = [thr EXCEPT ![t] = d]
      BY <1>5 DEF r
    <2> HIDE DEF d, x
    <2>6. Follows(thr, t, d) /\ ~Recovers(d) /\ Redrives(cmd, d)
      BY <2>1, <2>3 DEF Follows, RestOK, Recovers, Redrives
    <2>7. All(x, report[This], task, cmd, work, notice, rec, call, thr', boot)
      BY <1>1, <2>1, <2>3, <2>4, <2>5, <2>6, ThreadGoesOn
    <2> QED  BY <1>1, <1>5, <2>7, ShapeStays DEF IInv, reportVars, x
  <1> QED  BY <1>3, <1>4, <1>5 DEF Claim

(* auto_research_exhaustion_signal *)
LEMMA FenceStep ==
    ASSUME IInv, NEW t \in Threads, FenceExhausted(t), UNCHANGED <<plan, call>>
    PROVE  IInv'
  <1> DEFINE x == ep[This]
  <1>1. /\ All(x, report[This], task, cmd, work, notice, rec, call, thr, boot) /\ Shape
        /\ thr[t].pc = "fence" /\ SpentInv(x, thr) /\ Lines(task, rec, thr, boot) /\ RowInv(task) /\ x \in Episode
        /\ RecordOK(x, report[This])
        /\ UNCHANGED <<report, task, cmd, work, notice, mail, rec, boot>>
    BY Parts DEF FenceExhausted
  <1>2. CASE FenceAccepted(This, "exhausted")
    <2>1. fence_episode_ending(This, "exhausted") /\ Onward(t, thr[t].rest)
      BY <1>2 DEF FenceExhausted
    <2>2. ASSUME x.ending = "none", x.status = "running"
          PROVE  EndInv(Fenced(x, "exhausted"), task, cmd, notice)
      <3>1. AllOver(task, rec, thr)
        BY <1>1 DEF Lines, FenceInv, Fences
      <3>2. ASSUME NEW o \in Ops, IsTurn(task, o), Live(task, o) PROVE RetriedIn(task, task[o].alloc)
        <4>1. SUFFICES ~OverFor(task, rec, thr, o)
          BY <3>1, <3>2 DEF AllOver
        <4>2. \A p \in Ops : RowOK(task, p)
          BY <1>1 DEF RowInv
        <4>3. Leafless(task, o)
          <5> SUFFICES ASSUME NEW c \in Ops, task[c].recovers = o PROVE FALSE
            BY DEF Leafless
          <5>1. RowOK(task, c) /\ o # NoOp
            BY <4>2 DEF Ops, NoOp
          <5> QED  BY <5>1, <3>2 DEF RowOK, Live, LiveRow, Recoverable
        <4> QED  BY <4>2, <4>3, <3>2 DEF OverFor, RowOK, Live, LiveRow, Recoverable
      <3>3. x.wrap = "not_started"
        BY <1>1, <2>2 DEF RecordOK
      <3>4. Fenced(x, "exhausted").ending = "exhausted" /\ Fenced(x, "exhausted").wrap = "not_started"
        BY <1>1, <3>3 DEF Fenced, Episode
      <3> QED  BY <3>2, <3>4 DEF EndInv
    <2>3. /\ ep' \in [Episodes -> Episode]
          /\ All(ep'[This], report[This], task, cmd, work, notice, rec, call, thr, boot)
      BY <1>2, <2>1, <2>2, FenceIsWritten DEF Endings
    <2>4. All(ep'[This], report[This], task, cmd, work, notice, rec, call, thr', boot)
      BY <2>1, <2>3, RestIs, GoesOnward DEF Onward
    <2> QED  BY <1>1, <2>3, <2>4 DEF IInv, Shape
  <1>3. CASE ~FenceAccepted(This, "exhausted")
    <2> DEFINE r == IF thr[t].at = 1 THEN Tail(thr[t].rest) ELSE <<>>
    <2>1. Onward(t, r) /\ UNCHANGED ep
      BY <1>3 DEF FenceExhausted
    <2>2. RestOK(thr, t, r)
      BY <1>1, RestIs DEF SpentInv
    <2> HIDE DEF r
    <2>3. All(x, report[This], task, cmd, work, notice, rec, call, thr', boot)
      BY <1>1, <2>1, <2>2, GoesOnward DEF Onward
    <2> QED  BY <1>1, <2>1, <2>3, ShapeStays DEF IInv, reportVars
  <1> QED  BY <1>2, <1>3

-----------------------------------------------------------------------------
(* Recovery. *)
LEMMA PollerLooks ==
    ASSUME NEW x, NEW y, NEW rows, NEW cs, NEW ws, NEW ns, NEW recs, NEW ca, NEW ths, NEW b,
           All(x, y, rows, cs, ws, ns, recs, ca, ths, b), NEW t \in Threads, Recovers(ths[t])
    PROVE  /\ t = Poller /\ LookOK(rows, ths[t]) /\ ~Left(ths, t, "orphans")
           /\ ths[t] \in Carried /\ ths[t].at \in Ops /\ ths[t].op \in Ops
  BY DEF All, Lines, LookInv, PassInv, LookOK

LEMMA PollerMoves ==
    ASSUME NEW x, NEW y, NEW rows, NEW cs, NEW ws, NEW ns, NEW recs, NEW ca, NEW ths, NEW b,
           All(x, y, rows, cs, ws, ns, recs, ca, ths, b), NEW t \in Threads, Recovers(ths[t]),
           NEW pc \in {"stop", "complete", "failed"}, pc = "complete" => ~Leafless(rows, ths[t].op)
    PROVE  All(x, y, rows, cs, ws, ns, recs, ca,
               [ths EXCEPT ![t] = [@ EXCEPT !.rest = ths[t].rest, !.pc = pc]], b)
  <1> DEFINE d == [ths[t] EXCEPT !.rest = ths[t].rest, !.pc = pc]
  <1>1. /\ t = Poller /\ LookOK(rows, ths[t]) /\ ~Left(ths, t, "orphans") /\ ths[t] \in Carried
        /\ ths \in [Threads -> Carried] /\ PassInv(rows, ths, b)
    BY PollerLooks DEF All, Lines
  <1>2. d \in Carried /\ d.rest = ths[t].rest /\ d.pc = pc /\ d.at = ths[t].at /\ d.op = ths[t].op
    BY <1>1 DEF Carried
  <1>3. [ths EXCEPT ![t] = [@ EXCEPT !.rest = ths[t].rest, !.pc = pc]] = [ths EXCEPT ![t] = d]
    BY <1>1
  <1> HIDE DEF d
  <1>4. Follows(ths, t, d) /\ Redrives(cs, d)
    BY <1>1, <1>2 DEF Follows, Redrives, Left, PassInv
  <1>5. LookOK(rows, d)
    BY <1>1, <1>2 DEF LookOK
  <1>6. All(x, y, rows, cs, ws, ns, recs, ca, [ths EXCEPT ![t] = d], b)
    BY <1>1, <1>2, <1>4, <1>5, ThreadGoesOn
  <1> QED  BY <1>3, <1>6

(* create_auto_research_recovery_task *)
LEMMA TurnRecovered ==
    ASSUME IInv, NEW o \in Ops, IsTurn(task, o), RecoveryAccepted(o), NEW c \in Ops, Fresh(c), NEW auto \in BOOLEAN,
           NEW session \in {task[o].session, FALSE}, create_auto_research_recovery_task(o, c, auto,
           session),
           auto => Retrying(thr, o), ~Left(thr, Poller, "orphans")
    PROVE  /\ All(ep[This], report[This], task', cmd, work, notice, rec, call, thr, boot)
           /\ ~Leafless(task', o)
  <1> DEFINE x == ep[This]
             row == [NoTask EXCEPT !.role = "orchestrator", !.status = "live", !.recovers = o,
                                   !.alloc = task[o].alloc, !.auto = auto, !.session = session]
  <1>1. /\ All(x, report[This], task, cmd, work, notice, rec, call, thr, boot)
        /\ task \in [Ops -> TaskRow] /\ RowInv(task) /\ x \in Episode /\ RecordOK(x, report[This])
        /\ cmd \in [Keys -> Command] /\ work \in [Keys -> Route]
        /\ SpawnInv(task, cmd, work) /\ CommandInv(x, cmd, call, thr) /\ SpentInv(x, thr)
    BY Parts
  <1>2. /\ task[o].status \in Recoverable /\ ~task[o].abandoned /\ x.status \in {"running", "stopping"}
        /\ ~HasRecoveryChild(o) /\ ~Busy(o)
    BY DEF RecoveryAccepted
  <1>3. task' = [task EXCEPT ![c] = row]
    BY DEF create_auto_research_recovery_task, Insert
  <1>4. /\ row \in TaskRow /\ row.status = "live" /\ row.role = "orchestrator" /\ ~row.abandoned
        /\ ~row.structural /\ row.recovers = o /\ row.alloc = task[o].alloc /\ row.auto = auto
    BY <1>1 DEF NoTask, TaskRow, LiveRow
  <1>5. IsLast(task, c)
    BY <1>1, FreshIsLast
  <1> HIDE DEF row, x
  <1>6. Leafless(task, o)
    <2> SUFFICES ASSUME NEW p \in Ops, task[p].recovers = o PROVE FALSE
      BY DEF Leafless
    <2>1. task[p].status # "none"
      BY <1>1 DEF RowInv, RowOK, NoTask, NoOp, Ops
    <2> QED  BY <1>2, <2>1 DEF HasRecoveryChild, Rows
  <1>7. Added(task, task', c, row) /\ Continues(task, row, o)
    BY <1>2, <1>3, <1>4, <1>5, <1>6, NotBusy DEF Added, Continues, IsTurn
  <1>8. task[c] = NoTask /\ task' \in [Ops -> TaskRow] /\ task'[c] = row
    BY <1>1, <1>7, AddedFacts
  <1>9. SpawnInv(task', cmd, work)
    BY <1>1, <1>3, <1>4, <1>8, TurnIsNoWork
  <1>10. /\ x.used = IF row.recovers = NoOp THEN x.used + 1 ELSE x.used
         /\ x.status # "none" /\ row.role = "orchestrator"
         /\ row.recovers = NoOp => ~Fences(thr)
         /\ row.recovers # NoOp => ~Left(thr, Poller, "orphans")
         /\ row.auto => Retrying(thr, row.recovers) /\ ~task[row.recovers].abandoned
    <2>1. o # NoOp
      BY DEF Ops, NoOp
    <2> QED  BY <1>2, <1>4, <2>1
  <1>11. \E p \in Ops : Continues(task, row, p)
    BY <1>7
  <1>12. All(x, report[This], task', cmd, work, notice, rec, call, thr, boot)
    BY <1>1, <1>2, <1>7, <1>9, <1>10, <1>11, RowComesIn
  <1>13. ~Leafless(task', o)
    BY <1>4, <1>8 DEF Leafless
  <1> QED  BY <1>12, <1>13 DEF x

(* abandon_auto_research_recovery *)
LEMMA TurnAbandoned ==
    ASSUME IInv, NEW o \in Ops, IsTurn(task, o), task[o].status \in Recoverable, abandon_auto_research_recovery(o)
    PROVE  All(ep[This], report[This], task', cmd, work, notice, rec', call, thr, boot)
  <1> DEFINE x == ep[This]
             row == [task[o] EXCEPT !.abandoned = TRUE]
  <1>1. /\ All(x, report[This], task, cmd, work, notice, rec, call, thr, boot)
        /\ task \in [Ops -> TaskRow] /\ RowInv(task)
    BY Parts
  <1>2. task' = [task EXCEPT ![o] = row]
    BY <1>1 DEF abandon_auto_research_recovery
  <1>3. row \in TaskRow /\ row.abandoned
    BY <1>1 DEF TaskRow
  <1>4. Moved(task[o], row)
    BY <1>1 DEF Moved, TaskRow, LiveRow, Recoverable
  <1>5. ~(task[o].role = "work" /\ Live(task, o))
    BY DEF Live, LiveRow, Recoverable
  <1> HIDE DEF row, x
  <1>6. All(x, report[This], task', cmd, work, notice, rec, call, thr, boot)
    BY <1>1, <1>2, <1>3, <1>4, <1>5, RowGoesOn
  <1>7. task' \in [Ops -> TaskRow] /\ RowInv(task') /\ rec \in [Ops -> Recovery] /\ Lines(task', rec, thr, boot)
    BY <1>6 DEF All
  <1>8. task'[o].abandoned
    BY <1>1, <1>2, <1>3
  <1>9. rec' \in [Ops -> Recovery] /\ Lines(task', rec', thr, boot)
    <2>1. rec' = [a \in Ops |-> IF o \in {rec[a].op, rec[a].admitted}
                                  THEN [rec[a] EXCEPT !.status = "blocked"] ELSE rec[a]]
      BY DEF abandon_auto_research_recovery
    <2> QED  BY <1>7, <1>8, <2>1, LinesBlocked
  <1> QED  BY <1>6, <1>9, RecoveriesGoOn DEF x

LEMMA RetryStep ==
    ASSUME IInv, NEW t \in Threads, Retry(t), UNCHANGED <<plan, call>>
    PROVE  IInv'
  <1> DEFINE x == ep[This]
             o == thr[t].op
  <1>1. /\ All(x, report[This], task, cmd, work, notice, rec, call, thr, boot) /\ Shape /\ RowInv(task)
        /\ thr[t].pc = "retry" /\ UNCHANGED <<reportVars, cmd, work, notice, mail, boot>>
        /\ task \in [Ops -> TaskRow]
    BY Parts DEF Retry
  <1>2. Recovers(thr[t])
    BY <1>1 DEF Recovers
  <1>3. /\ t = Poller /\ LookOK(task, thr[t]) /\ ~Left(thr, t, "orphans") /\ o \in Ops
    BY <1>1, <1>2, PollerLooks
  <1>4. IsTurn(task, o) /\ task[o].status \in Recoverable
    BY <1>3 DEF LookOK, Failed, Recoverable
  <1>5. HasRecoveryChild(o) => ~Leafless(task, o)
    BY DEF HasRecoveryChild, Rows, Leafless
  <1>6. ASSUME NEW pc \in {"stop", "complete", "failed"}, To(t, thr[t].rest, pc), NEW rows, NEW recs,
               All(x, report[This], rows, cmd, work, notice, recs, call, thr, boot),
               pc = "complete" => ~Leafless(rows, o)
        PROVE  All(x, report[This], rows, cmd, work, notice, recs, call, thr', boot)
    BY <1>2, <1>6, PollerMoves DEF To
  <1>7. All(x, report[This], task', cmd, work, notice, rec', call, thr', boot)
    <2>1. CASE HasRecoveryChild(o) /\ To(t, thr[t].rest, "complete") /\ UNCHANGED <<task, rec>>
      BY <1>1, <1>5, <1>6, <2>1
    <2>2. CASE /\ ~HasRecoveryChild(o) /\ RecoveryAccepted(o) /\ To(t, thr[t].rest, "complete")
               /\ \E c \in Ops, session \in {task[o].session, FALSE} :
                    Fresh(c) /\ create_auto_research_recovery_task(o, c, TRUE, session)
               /\ UNCHANGED rec
      <3>1. PICK c \in Ops, session \in {task[o].session, FALSE} :
              Fresh(c) /\ create_auto_research_recovery_task(o, c, TRUE, session)
        BY <2>2
      <3>2. Retrying(thr, o) /\ ~Left(thr, Poller, "orphans")
        BY <1>1, <1>3 DEF Retrying
      <3>3. /\ All(x, report[This], task', cmd, work, notice, rec, call, thr, boot) /\ ~Leafless(task', o)
        BY <1>3, <1>4, <2>2, <3>1, <3>2, TurnRecovered
      <3> QED  BY <1>6, <2>2, <3>3
    <2>3. CASE To(t, thr[t].rest, "failed") /\ UNCHANGED <<task, rec>>
      BY <1>1, <1>6, <2>3
    <2>4. CASE abandon_auto_research_recovery(o) /\ To(t, thr[t].rest, "stop")
      <3>1. All(x, report[This], task', cmd, work, notice, rec', call, thr, boot)
        BY <1>3, <1>4, <2>4, TurnAbandoned
      <3> QED  BY <1>6, <2>4, <3>1
    <2> QED  BY <2>1, <2>2, <2>3, <2>4 DEF Retry
  <1> QED  BY <1>1, <1>7, ShapeStays DEF IInv, reportVars

LEMMA StopAbandonedStep ==
    ASSUME IInv, NEW t \in Threads, StopAbandoned(t), UNCHANGED <<plan, call>>
    PROVE  IInv'
  <1>1. /\ Shape /\ Recovers(thr[t]) /\ UNCHANGED <<report, task, cmd, work, notice, mail, rec, boot>>
    BY Parts DEF StopAbandoned, Recovers
  <1>2. /\ ep' \in [Episodes -> Episode]
        /\ All(ep'[This], report[This], task, cmd, work, notice, rec, call, thr, boot)
    BY StopIsSettled DEF StopAbandoned
  <1>3. All(ep'[This], report[This], task, cmd, work, notice, rec, call, thr', boot)
    BY <1>1, <1>2, PollerMoves DEF StopAbandoned, To
  <1> QED  BY <1>1, <1>2, <1>3 DEF IInv, Shape

(* complete_auto_research_recovery *)
LEMMA CompleteStep ==
    ASSUME IInv, NEW t \in Threads, Complete(t), UNCHANGED <<plan, call>>
    PROVE  IInv'
  <1> DEFINE x == ep[This]
             o == thr[t].op
             a == thr[t].at
             child == CHOOSE c \in Rows : task[c].recovers = o
             r == IF Completed(a, o, child) THEN thr[t].rest ELSE <<>>
  <1>1. /\ All(x, report[This], task, cmd, work, notice, rec, call, thr, boot) /\ Shape /\ RowInv(task)
        /\ thr[t].pc = "complete" /\ UNCHANGED <<reportVars, task, cmd, work, notice, mail, boot>>
        /\ task \in [Ops -> TaskRow] /\ rec \in [Ops -> Recovery] /\ Lines(task, rec, thr, boot)
    BY Parts DEF Complete
  <1>2. Recovers(thr[t])
    BY <1>1 DEF Recovers
  <1>3. /\ t = Poller /\ LookOK(task, thr[t]) /\ o \in Ops /\ a \in Ops
    BY <1>1, <1>2, PollerLooks
  <1>4. IsTurn(task, o) /\ task[o].alloc = a /\ ~Leafless(task, o)
    BY <1>1, <1>3 DEF LookOK, Failed
  <1>5. child \in Ops /\ task[child].recovers = o
    <2>1. PICK c \in Ops : task[c].recovers = o
      BY <1>4 DEF Leafless
    <2>2. c \in Rows
      BY <1>1, <1>3, <2>1 DEF Rows, RowInv, RowOK, NoTask, NoOp, Ops
    <2>3. child \in Rows /\ task[child].recovers = o
      BY <2>1, <2>2
    <2> QED  BY <2>3 DEF Rows
  <1> HIDE DEF child
  <1>6. IsTurn(task, child) /\ task[child].alloc = a
    <2>1. RowOK(task, child) /\ o # NoOp
      BY <1>1, <1>3, <1>5 DEF RowInv, Ops, NoOp
    <2> QED  BY <2>1, <1>4, <1>5 DEF RowOK, IsTurn
  <1>7. complete_auto_research_recovery(a, o, child) /\ Onward(t, r)
    BY DEF Complete, child
  <1>8. RestOK(thr, t, r)
    BY RestIs
  <1> HIDE DEF r, a, o, x
  <1>9. All(x, report[This], task, cmd, work, notice, rec', call, thr, boot)
    <2>1. CASE Pends(a, o)
      <3>1. rec' = [rec EXCEPT ![a].attempts = @ + 1, ![a].status = "admitted", ![a].admitted = child]
        BY <1>7, <2>1 DEF complete_auto_research_recovery
      <3>2. rec[a].status = "pending" /\ thr[Poller].pc # "retry"
        BY <1>1, <1>3, <2>1 DEF Pends
      <3>3. rec' \in [Ops -> Recovery] /\ Lines(task, rec', thr, boot)
        <4>1. a \in Ops /\ child \in Ops /\ IsTurn(task, child) /\ task[child].alloc = a
          BY <1>3, <1>5, <1>6
        <4>2. rec' = [rec EXCEPT ![a] = [rec[a] EXCEPT !.attempts = rec[a].attempts + 1, !.status = "admitted",
                                                       !.admitted = child]]
          BY <1>1, <3>1, <4>1 DEF Recovery
        <4>3. LET next == [rec EXCEPT ![a] = [rec[a] EXCEPT !.attempts = rec[a].attempts + 1, !.status = "admitted",
                                                            !.admitted = child]]
              IN  next \in [Ops -> Recovery] /\ Lines(task, next, thr, boot)
          BY <1>1, <3>2, <4>1, LinesCompleted, Zenon
        <4> QED  BY <4>2, <4>3
      <3> QED  BY <1>1, <3>3, RecoveriesGoOn
    <2>2. CASE ~Pends(a, o)
      BY <1>1, <1>7, <2>2 DEF complete_auto_research_recovery
    <2> QED  BY <2>1, <2>2
  <1>10. All(x, report[This], task, cmd, work, notice, rec', call, thr', boot)
    BY <1>7, <1>8, <1>9, GoesOnward DEF Onward
  <1> QED  BY <1>1, <1>10, ShapeStays DEF IInv, reportVars, x

LEMMA RetryFailedStep ==
    ASSUME IInv, NEW t \in Threads, RetryFailed(t), UNCHANGED <<plan, call>>
    PROVE  IInv'
  <1> DEFINE x == ep[This]
             o == thr[t].op
             a == thr[t].at
  <1>1. /\ All(x, report[This], task, cmd, work, notice, rec, call, thr, boot) /\ Shape /\ RowInv(task)
        /\ thr[t].pc = "failed" /\ UNCHANGED <<reportVars, cmd, work, notice, mail, boot>>
        /\ task \in [Ops -> TaskRow] /\ rec \in [Ops -> Recovery] /\ Lines(task, rec, thr, boot)
    BY Parts DEF RetryFailed
  <1>2. Recovers(thr[t])
    BY <1>1 DEF Recovers
  <1>3. /\ t = Poller /\ LookOK(task, thr[t]) /\ o \in Ops /\ a \in Ops
    BY <1>1, <1>2, PollerLooks
  <1>4. IsTurn(task, o) /\ task[o].status \in Recoverable
    BY <1>3 DEF LookOK, Failed, Recoverable
  <1>5. RestOK(thr, t, thr[t].rest)
    BY RestIs
  <1>6. All(x, report[This], task', cmd, work, notice, rec', call, thr', boot)
    <2>1. CASE HasRecoveryChild(o)
      <3>1. To(t, thr[t].rest, "complete") /\ UNCHANGED <<task, rec>> /\ ~Leafless(task, o)
        BY <2>1 DEF RetryFailed, HasRecoveryChild, Rows, Leafless
      <3> QED  BY <1>1, <1>2, <3>1, PollerMoves DEF To
    <2>2. CASE ~HasRecoveryChild(o) /\ task[o].abandoned
      <3>1. abandon_auto_research_recovery(o) /\ Onward(t, thr[t].rest)
        BY <2>2 DEF RetryFailed
      <3>2. All(x, report[This], task', cmd, work, notice, rec', call, thr, boot)
        BY <1>3, <1>4, <3>1, TurnAbandoned
      <3> QED  BY <1>5, <3>1, <3>2, GoesOnward DEF Onward
    <2>3. CASE ~HasRecoveryChild(o) /\ ~task[o].abandoned
      <3>1. defer_auto_research_recovery(a) /\ UNCHANGED task /\ Onward(t, thr[t].rest)
        BY <2>3 DEF RetryFailed
      <3> HIDE DEF a
      <3>2. All(x, report[This], task, cmd, work, notice, rec', call, thr, boot)
        <4>1. CASE rec[a].status # "pending"
          BY <1>1, <3>1, <4>1 DEF defer_auto_research_recovery
        <4>2. CASE rec[a].status = "pending"
          <5>1. thr[Poller].pc # "retry"
            BY <1>1, <1>3
          <5>2. rec' = [rec EXCEPT ![a].attempts = @ + 1,
                                   ![a].status = IF rec[a].attempts + 1 >= max_attempts THEN "exhausted"
                                                 ELSE "pending"]
            BY <3>1, <4>2 DEF defer_auto_research_recovery
          <5>3. rec' \in [Ops -> Recovery] /\ Lines(task, rec', thr, boot)
            BY <1>1, <1>3, <4>2, <5>1, <5>2, LinesDeferred
          <5> QED  BY <1>1, <5>3, RecoveriesGoOn
        <4> QED  BY <4>1, <4>2
      <3> QED  BY <1>5, <3>1, <3>2, GoesOnward DEF Onward
    <2> QED  BY <2>1, <2>2, <2>3
  <1> QED  BY <1>1, <1>6, ShapeStays DEF IInv, reportVars

LEMMA ThreadStep ==
    ASSUME IInv, NEW t \in Threads, Thread(t)
    PROVE  IInv'
  BY PassStep, RedrivenStep, ClaimStep, FenceStep, RetryStep, StopAbandonedStep, CompleteStep,
     RetryFailedStep
     DEF Thread

-----------------------------------------------------------------------------
(* People, provider turns and the process. *)

(* create_auto_research_episode_with_root_task *)
LEMMA AuthorizeStep ==
    ASSUME IInv, Authorize
    PROVE  IInv'
  <1> DEFINE x == ep[This]
             z == [x EXCEPT !.status = "running", !.used = 1, !.ceiling = plan.ceiling]
             row == [NoTask EXCEPT !.role = "orchestrator", !.status = "live", !.alloc = 1]
  <1>1. /\ All(x, report[This], task, cmd, work, notice, rec, call, thr, boot) /\ Shape
        /\ x \in Episode /\ RecordOK(x, report[This]) /\ task \in [Ops -> TaskRow] /\ RowInv(task)
        /\ PaidInv(x, task) /\ cmd \in [Keys -> Command] /\ work \in [Keys -> Route]
        /\ SpawnInv(task, cmd, work) /\ CommandInv(x, cmd, call, thr) /\ SpentInv(x, thr)
        /\ UNCHANGED <<report, cmd, work, notice, mail, rec, plan, call, thr, boot>>
    BY Parts DEF Authorize
  <1>2. x.status = "none" /\ 1 \in Ops /\ This \in Episodes /\ ep \in [Episodes -> Episode]
    BY <1>1, OneEpisode, ReportAssumption
       DEF Authorize, create_auto_research_episode_with_root_task, Ops, Shape
  <1>3. x = NoEpisode /\ x.ending = "none" /\ x.wrap = "not_started" /\ x.used = 0 /\ ~x.stop
        /\ report[This].step = "none"
    BY <1>1, <1>2 DEF RecordOK, NoEpisode
  <1>4. plan.ceiling \in 1..Ceiling /\ plan.ceiling \in 0..Ceiling /\ 1 <= plan.ceiling
    BY <1>1, LedgerAssumption DEF Shape
  <1>5. ep' = [ep EXCEPT ![This] = z] /\ task' = [task EXCEPT ![1] = row]
    BY <1>1, <1>2
       DEF Authorize, create_auto_research_episode_with_root_task, Insert, Episode
  <1>6. /\ z \in Episode /\ z.status = "running" /\ z.used = 1 /\ z.ceiling = plan.ceiling
        /\ z.ending = x.ending /\ z.wrap = x.wrap /\ z.stop = x.stop
    BY <1>1, <1>4 DEF Episode, _LIVE_EPISODE_STATUSES
  <1>7. /\ row \in TaskRow /\ row.status = "live" /\ row.role = "orchestrator" /\ ~row.abandoned
        /\ ~row.structural /\ row.recovers = NoOp /\ row.alloc = 1 /\ ~row.auto
    BY <1>2 DEF NoTask, TaskRow, LiveRow
  <1> HIDE DEF z, x, row
  <1>8. RecordOK(z, report[This])
    BY <1>3, <1>4, <1>6 DEF RecordOK, Ended, _LIVE_EPISODE_STATUSES, Endings
  <1>9. \A o \in Ops : task[o].status = "none"
    BY <1>1, <1>2 DEF PaidInv
  <1>10. IsLast(task, 1)
    BY <1>9 DEF IsLast, Ops
  <1>11. Added(task, task', 1, row) /\ (PaidFor(row, 1) \/ \E p \in Ops : Continues(task, row, p))
    BY <1>5, <1>7, <1>9, <1>10 DEF Added, PaidFor, Live, LiveRow
  <1>12. task[1] = NoTask
    BY <1>1, <1>2, <1>11, AddedFacts
  <1>13. SpawnInv(task', cmd, work)
    BY <1>1, <1>2, <1>5, <1>7, <1>12, TurnIsNoWork
  <1>14. CommandInv(z, cmd, call, thr)
    BY <1>1, <1>6 DEF CommandInv, CommandOK, Serves, Answerable
  <1>15. ~Fences(thr) /\ SpentInv(z, thr)
    BY <1>1, <1>2 DEF Fences, SpentInv
  <1>16. /\ z.used = IF row.recovers = NoOp THEN x.used + 1 ELSE x.used
         /\ z.status \in {"running", "stopping"} /\ row.role = "orchestrator"
         /\ row.recovers = NoOp => ~Fences(thr)
         /\ row.recovers # NoOp => ~Left(thr, Poller, "orphans")
         /\ row.auto => Retrying(thr, row.recovers) /\ ~task[row.recovers].abandoned
    BY <1>3, <1>6, <1>7, <1>15
  <1>17. All(z, report[This], task', cmd, work, notice, rec, call, thr, boot)
    BY <1>1, <1>2, <1>6, <1>8, <1>11, <1>13, <1>14, <1>15, <1>16, RowComesIn
  <1>18. ep' \in [Episodes -> Episode] /\ ep'[This] = z
    BY <1>2, <1>5, <1>6
  <1> QED  BY <1>1, <1>17, <1>18 DEF IInv, Shape

(* A provider turn is over: its thread has the passes of a settled turn to make. *)
LEMMA TurnIsOver ==
    ASSUME IInv, NEW o \in Ops, Live(task, o), NEW row \in TaskRow, EndsAs(o, row), row.status \notin LiveRow,
           row.role = task[o].role, row.recovers = task[o].recovers, row.alloc = task[o].alloc,
           row.key = task[o].key, row.auto = task[o].auto, row.abandoned = task[o].abandoned,
           row.status # "none", row.structural => row.status = "failed"
    PROVE  IInv'
  <1> DEFINE x == ep[This]
  <1>1. /\ All(x, report[This], task, cmd, work, notice, rec, call, thr, boot) /\ Shape
        /\ task \in [Ops -> TaskRow] /\ RowInv(task) /\ notice \in [Ops -> Notice]
        /\ thr \in [Threads -> Carried] /\ rec \in [Ops -> Recovery] /\ Lines(task, rec, thr, boot)
        /\ CommandInv(x, cmd, call, thr) /\ SpentInv(x, thr)
        /\ UNCHANGED <<reportVars, cmd, work, mail, rec, plan, call, boot>>
    BY Parts DEF EndsAs
  <1>2. /\ task' = [task EXCEPT ![o] = row] /\ notice' = Told(task') /\ o \in Threads
        /\ thr' = [thr EXCEPT ![o].rest = IF row.role = "orchestrator" THEN AfterTurn ELSE @]
    BY DEF EndsAs, Threads
  <1>3. RowOK(task, o)
    BY <1>1 DEF RowInv
  <1>4. Moved(task[o], row)
    BY <1>3 DEF Moved, RowOK, Live, LiveRow, Recoverable
  <1>5. task' \in [Ops -> TaskRow] /\ RowsMove(task, task')
    BY <1>1, <1>2, <1>4, StaysAsItIs DEF RowsMove
  <1>6. /\ notice' \in [Ops -> Notice]
        /\ \A p \in Ops : \/ notice'[p] = notice[p]
                          \/ task[p].role = "work" /\ Live(task, p) /\ ~Live(task', p)
    <2>1. \A p \in Ops : task'[p].role = task[p].role
      BY <1>5 DEF RowsMove, Moved
    <2> QED  BY <1>1, <1>2, <2>1 DEF Told, Notice, Live, NoOp
  <1>7. All(x, report[This], task', cmd, work, notice', rec, call, thr, boot)
    BY <1>1, <1>5, <1>6, RowsGoOn
  <1>8. CASE row.role # "orchestrator"
    <2>1. thr' = thr
      BY <1>1, <1>2, <1>8 DEF Carried
    <2> QED  BY <1>1, <1>7, <2>1, ShapeStays DEF IInv, reportVars
  <1>9. CASE row.role = "orchestrator"
    <2>1. thr' = [thr EXCEPT ![o].rest = AfterTurn]
      BY <1>2, <1>9
    <2>2. task'[o] = row /\ IsTurn(task', o) /\ ~Live(task', o) /\ IsTurn(task, o) /\ ~Failed(task, o)
      BY <1>1, <1>2, <1>9 DEF IsTurn, Live, Failed, LiveRow
    <2>3. task[o].alloc \in Ops /\ row.alloc \in Ops
      BY <1>3 DEF RowOK, Live, LiveRow
    <2>4. rec[task'[o].alloc].op # o /\ ~Retrying(thr, o)
      <3>1. RecoveryOK(task, rec[task[o].alloc], task[o].alloc) /\ LookInv(task, thr) /\ o # NoOp
            /\ Poller \in Threads
        BY <1>1, <2>3 DEF Lines, RecoveryInv, Ops, NoOp, Threads
      <3>2. rec[task[o].alloc].op # o
        BY <2>2, <3>1 DEF RecoveryOK
      <3>3. ~Retrying(thr, o)
        BY <2>2, <3>1 DEF Retrying, LookInv, Recovers, LookOK
      <3> QED  BY <2>2, <3>2, <3>3
    <2>5. Left(thr, Poller, "orphans") => task'[o].recovers = NoOp
      BY <1>1, <2>2 DEF Lines, PassInv
    <2>6. RowInv(task') /\ Lines(task', rec, thr, boot)
      BY <1>7 DEF All
    <2>7. thr' \in [Threads -> Carried] /\ Lines(task', rec, thr', boot)
      BY <1>1, <1>5, <2>1, <2>2, <2>4, <2>5, <2>6, LinesEnded
    <2>8. /\ \A t \in Threads : thr'[t].pc = thr[t].pc /\ thr'[t].at = thr[t].at /\ thr'[t].as = thr[t].as
          /\ \A t \in Threads : thr[t].rest # <<>> => thr'[t].rest # <<>>
      BY <1>1, <1>2, <2>1 DEF Carried, AfterTurn
    <2>9. CommandInv(x, cmd, call, thr') /\ SpentInv(x, thr')
      BY <1>1, <2>8 DEF CommandInv, Redrives, SpentInv
    <2>10. All(x, report[This], task', cmd, work, notice', rec, call, thr', boot)
      BY <1>7, <2>7, <2>9 DEF All
    <2> QED  BY <1>1, <2>10, ShapeStays DEF IInv, reportVars
  <1> QED  BY <1>8, <1>9

LEMMA TurnEndsStep ==
    ASSUME IInv, NEW o \in Ops, TurnEnds(o)
    PROVE  IInv'
  <1>1. task[o] \in TaskRow /\ Live(task, o) /\ RowOK(task, o)
    BY Parts DEF TurnEnds, Live, RowInv
  <1>2. ~task[o].structural
    BY <1>1 DEF RowOK, Live, LiveRow
  <1>3. CASE EndsAs(o, [task[o] EXCEPT !.status = "succeeded", !.session = TRUE])
    <2> DEFINE row == [task[o] EXCEPT !.status = "succeeded", !.session = TRUE]
    <2>1. /\ row \in TaskRow /\ row.status \notin LiveRow /\ row.status # "none" /\ row.role = task[o].role
          /\ row.recovers = task[o].recovers /\ row.alloc = task[o].alloc /\ row.key = task[o].key
          /\ row.auto = task[o].auto /\ row.abandoned = task[o].abandoned
          /\ row.structural => row.status = "failed"
      BY <1>1, <1>2 DEF TaskRow, LiveRow
    <2> HIDE DEF row
    <2>2. EndsAs(o, row)
      BY <1>3 DEF row
    <2> QED  BY <1>1, <2>1, <2>2, TurnIsOver
  <1>4. ASSUME NEW session \in {task[o].session, TRUE},
               EndsAs(o, [task[o] EXCEPT !.status = "paused", !.session = session])
        PROVE  IInv'
    <2> DEFINE row == [task[o] EXCEPT !.status = "paused", !.session = session]
    <2>1. /\ row \in TaskRow /\ row.status \notin LiveRow /\ row.status # "none" /\ row.role = task[o].role
          /\ row.recovers = task[o].recovers /\ row.alloc = task[o].alloc /\ row.key = task[o].key
          /\ row.auto = task[o].auto /\ row.abandoned = task[o].abandoned
          /\ row.structural => row.status = "failed"
      BY <1>1, <1>2 DEF TaskRow, LiveRow, Recoverable
    <2> HIDE DEF row
    <2>2. EndsAs(o, row)
      BY <1>4 DEF row
    <2> QED  BY <1>1, <2>1, <2>2, TurnIsOver
  <1> QED  BY <1>3, <1>4 DEF TurnEnds

LEMMA TurnFailsStep ==
    ASSUME IInv, NEW o \in Ops, TurnFails(o)
    PROVE  IInv'
  <1>1. task[o] \in TaskRow /\ Live(task, o) /\ RowOK(task, o)
    BY Parts DEF TurnFails, Live, RowInv
  <1>2. ~task[o].structural
    BY <1>1 DEF RowOK, Live, LiveRow
  <1>3. ASSUME NEW session \in {task[o].session, TRUE}, NEW structural \in BOOLEAN,
               EndsAs(o, [task[o] EXCEPT !.status = "failed", !.session = session,
               !.structural = structural])
        PROVE  IInv'
    <2> DEFINE row == [task[o] EXCEPT !.status = "failed", !.session = session, !.structural = structural]
    <2>1. /\ row \in TaskRow /\ row.status \notin LiveRow /\ row.status # "none" /\ row.role = task[o].role
          /\ row.recovers = task[o].recovers /\ row.alloc = task[o].alloc /\ row.key = task[o].key
          /\ row.auto = task[o].auto /\ row.abandoned = task[o].abandoned
          /\ row.structural => row.status = "failed"
      BY <1>1 DEF TaskRow, LiveRow, Recoverable
    <2> HIDE DEF row
    <2>2. EndsAs(o, row)
      BY <1>3 DEF row
    <2> QED  BY <1>1, <2>1, <2>2, TurnIsOver
  <1>4. ASSUME NEW session \in {task[o].session, TRUE},
               EndsAs(o, [task[o] EXCEPT !.status = "paused", !.session = session])
        PROVE  IInv'
    <2> DEFINE row == [task[o] EXCEPT !.status = "paused", !.session = session]
    <2>1. /\ row \in TaskRow /\ row.status \notin LiveRow /\ row.status # "none" /\ row.role = task[o].role
          /\ row.recovers = task[o].recovers /\ row.alloc = task[o].alloc /\ row.key = task[o].key
          /\ row.auto = task[o].auto /\ row.abandoned = task[o].abandoned
          /\ row.structural => row.status = "failed"
      BY <1>1, <1>2 DEF TaskRow, LiveRow, Recoverable
    <2> HIDE DEF row
    <2>2. EndsAs(o, row)
      BY <1>4 DEF row
    <2> QED  BY <1>1, <2>1, <2>2, TurnIsOver
  <1> QED  BY <1>3, <1>4 DEF TurnFails

(* Whoever asks has one pass made. *)
LEMMA AsksOnward ==
    ASSUME NEW x, NEW y, NEW rows, NEW cs, NEW ws, NEW ns, NEW recs, NEW ca, NEW b,
           All(x, y, rows, cs, ws, ns, recs, ca, thr, b), NEW pass \in {"mail", "stop"}, Asks(pass)
    PROVE  All(x, y, rows, cs, ws, ns, recs, ca, thr', b)
  <1> DEFINE r == <<pass>>
  <1>1. /\ r \in Seq(PassNames) /\ DOMAIN r = {1} /\ r[1] = pass
    BY DEF PassNames
  <1> HIDE DEF r
  <1>2. RestOK(thr, Person, r)
    BY <1>1 DEF RestOK, Ordered, Has
  <1>3. Person \in Threads /\ thr' = [thr EXCEPT ![Person] = [Idle EXCEPT !.rest = r]]
    BY DEF Asks, Onward, Threads, r
  <1> QED  BY <1>2, <1>3, GoesOnward

LEMMA SendMailStep ==
    ASSUME IInv, NEW m \in Messages, SendMail(m)
    PROVE  IInv'
  <1>1. /\ All(ep[This], report[This], task, cmd, work, notice, rec, call, thr, boot) /\ Shape
        /\ UNCHANGED <<reportVars, task, cmd, work, notice, rec, plan, call, boot>> /\ Asks("mail")
    BY Parts DEF SendMail
  <1>2. All(ep[This], report[This], task, cmd, work, notice, rec, call, thr', boot)
    BY <1>1, AsksOnward
  <1>3. mail' \in [Messages -> [state : {"none", "pending", "delivered"}, by : Nat]]
    BY <1>1 DEF SendMail, record_auto_research_message, Shape
  <1> QED  BY <1>1, <1>2, <1>3 DEF IInv, Shape, reportVars

(* request_episode_stop *)
LEMMA RequestStopStep ==
    ASSUME IInv, RequestStop
    PROVE  IInv'
  <1> DEFINE x == ep[This]
             z == [x EXCEPT !.status = "stopping", !.stop = TRUE]
  <1>1. /\ All(x, report[This], task, cmd, work, notice, rec, call, thr, boot) /\ Shape
        /\ x \in Episode /\ RecordOK(x, report[This]) /\ report[This] \in ReportRow
        /\ EndInv(x, task, cmd, notice) /\ Asks("stop") /\ x.status \in {"running", "stopping"}
        /\ UNCHANGED <<report, task, cmd, work, notice, mail, rec, plan, call, boot>>
    BY Parts DEF RequestStop, StopAccepted
  <1>2. This \in Episodes /\ ep \in [Episodes -> Episode]
    BY <1>1, OneEpisode DEF Shape
  <1>3. ep' = [ep EXCEPT ![This] = z]
    BY <1>1, <1>2 DEF RequestStop, request_episode_stop, Episode
  <1>4. /\ z \in Episode /\ z.status = "stopping" /\ z.stop /\ z.used = x.used /\ z.ceiling = x.ceiling
        /\ z.ending = x.ending /\ z.wrap = x.wrap
    BY <1>1 DEF Episode, _LIVE_EPISODE_STATUSES
  <1> HIDE DEF z, x
  <1>5. EpStep(x, z, report[This])
    BY <1>1, <1>4 DEF EpStep, RecordOK, Ended, Endings
  <1>6. EndInv(z, task, cmd, notice)
    BY <1>1, <1>4, EndStays
  <1>7. All(z, report[This], task, cmd, work, notice, rec, call, thr, boot)
    BY <1>1, <1>4, <1>5, <1>6, RecordGoesOn
  <1>8. All(z, report[This], task, cmd, work, notice, rec, call, thr', boot)
    BY <1>1, <1>7, AsksOnward
  <1>9. ep' \in [Episodes -> Episode] /\ ep'[This] = z
    BY <1>2, <1>3, <1>4
  <1> QED  BY <1>1, <1>8, <1>9 DEF IInv, Shape

LEMMA PersonRecoversStep ==
    ASSUME IInv, NEW o \in Ops, NEW c \in Ops, PersonRecovers(o, c)
    PROVE  IInv'
  <1>1. /\ Shape /\ Lines(task, rec, thr, boot) /\ boot = "serving" /\ IsTurn(task, o)
        /\ RecoveryAccepted(o) /\ Fresh(c)
        /\ UNCHANGED <<reportVars, cmd, work, notice, mail, rec, plan, call, thr, boot>>
    BY Parts DEF PersonRecovers, Turns, IsTurn
  <1>2. ~Left(thr, Poller, "orphans")
    BY <1>1 DEF Lines, PassInv
  <1>3. PICK session \in {task[o].session, FALSE} : create_auto_research_recovery_task(o, c, FALSE, session)
    BY DEF PersonRecovers
  <1>4. All(ep[This], report[This], task', cmd, work, notice, rec, call, thr, boot)
    BY <1>1, <1>2, <1>3, TurnRecovered
  <1> QED  BY <1>1, <1>4, ShapeStays DEF IInv, reportVars

LEMMA PersonAbandonsStep ==
    ASSUME IInv, NEW o \in Ops, PersonAbandons(o)
    PROVE  IInv'
  <1>1. /\ Shape /\ IsTurn(task, o) /\ task[o].status \in Recoverable /\ Asks("stop")
        /\ abandon_auto_research_recovery(o)
        /\ UNCHANGED <<reportVars, cmd, work, notice, mail, plan, call, boot>>
    BY Parts DEF PersonAbandons, Turns, IsTurn
  <1>2. All(ep[This], report[This], task', cmd, work, notice, rec', call, thr, boot)
    BY <1>1, TurnAbandoned
  <1>3. All(ep[This], report[This], task', cmd, work, notice, rec', call, thr', boot)
    BY <1>1, <1>2, AsksOnward
  <1> QED  BY <1>1, <1>3, ShapeStays DEF IInv, reportVars

(* What the end of the process leaves of the episode and of its report. *)
LEMMA EpisodeIsLeft ==
    ASSUME IInv, NEW graceful \in BOOLEAN
    PROVE  LET z == EpisodeLeft(This, graceful)
               w == ReportLeft(This, graceful)
           IN  /\ z \in Episode /\ w \in ReportRow /\ w.step \in {"none", report[This].step}
               /\ EpStep(ep[This], z, w) /\ EndInv(z, task, cmd, notice)
  <1> DEFINE x == ep[This]
             y == report[This]
             z == EpisodeLeft(This, graceful)
             w == ReportLeft(This, graceful)
  <1>1. /\ x \in Episode /\ y \in ReportRow /\ RecordOK(x, y) /\ EndInv(x, task, cmd, notice)
    BY Parts
  <1>2. w \in ReportRow /\ w.step \in {"none", y.step}
    BY <1>1 DEF ReportLeft, ReportRow
  <1>3. /\ z \in Episode /\ z.status = x.status /\ z.ending = x.ending /\ z.used = x.used
        /\ z.ceiling = x.ceiling /\ z.stop = x.stop
        /\ z = x \/ (z.wrap = "pending" /\ y.step = "call")
    BY <1>1 DEF EpisodeLeft, Episode, Shuts
  <1> HIDE DEF z, w, x, y
  <1>4. y.step = "call" => x.wrap \in {"pending", "running"} /\ x.status = "wrapping_up"
    BY <1>1 DEF RecordOK
  <1>5. EndInv(z, task, cmd, notice)
    BY <1>1, <1>3, <1>4, EndStays
  <1>6. EpStep(x, z, w)
    <2>1. CASE z = x
      BY <1>1, <1>2, <2>1 DEF EpStep, RecordOK
    <2>2. CASE z.wrap = "pending" /\ y.step = "call"
      BY <1>1, <1>3, <1>4, <2>2, AwaitedRecord
    <2> QED  BY <1>3, <2>1, <2>2
  <1> QED  BY <1>2, <1>3, <1>5, <1>6 DEF x, y, z, w

LEMMA RestartStep ==
    ASSUME IInv, Restart
    PROVE  IInv'
  <1> DEFINE x == ep[This]
  <1>1. /\ All(x, report[This], task, cmd, work, notice, rec, call, thr, boot) /\ Shape
        /\ task \in [Ops -> TaskRow] /\ RowInv(task) /\ notice \in [Ops -> Notice]
        /\ boot' = "starting" /\ notice' = Told(task') /\ call' = NoCall
        /\ thr' = [t \in Threads |-> IF t = Poller THEN [Idle EXCEPT !.rest = Startup] ELSE Idle]
        /\ UNCHANGED <<cmd, work, mail, rec, plan>>
    BY Parts DEF Restart
  <1>2. PICK graceful \in BOOLEAN : /\ ep' = [e \in Episodes |-> EpisodeLeft(e, graceful)]
                                    /\ report' = [e \in Episodes |-> ReportLeft(e, graceful)]
    BY DEF Restart
  <1>3. PICK kept \in SUBSET Keepable, saved \in BOOLEAN :
          task' = [o \in Ops |-> IF task[o].status \in LiveRow /\ o \notin kept
                     THEN [task[o] EXCEPT !.status = "interrupted", !.session = @ \/ saved] ELSE task[o]]
    BY DEF Restart
  <1>4. /\ Episodes = {This} /\ ep' \in [Episodes -> Episode] /\ report' \in [Episodes -> ReportRow]
        /\ EpStep(x, ep'[This], report'[This]) /\ EndInv(ep'[This], task, cmd, notice)
        /\ ep'[This] \in Episode /\ report'[This] \in ReportRow
    BY <1>1, <1>2, EpisodeIsLeft, OneEpisode
  <1>5. All(ep'[This], report'[This], task, cmd, work, notice, rec, call, thr, boot)
    BY <1>1, <1>4, RecordGoesOn
  <1>6. task' \in [Ops -> TaskRow] /\ RowsMove(task, task')
    <2>1. ASSUME NEW o \in Ops
          PROVE  task'[o] \in TaskRow /\ Moved(task[o], task'[o])
      <3> DEFINE row == [task[o] EXCEPT !.status = "interrupted", !.session = @ \/ saved]
      <3>1. task[o] \in TaskRow /\ RowOK(task, o)
        BY <1>1 DEF RowInv
      <3>2. CASE task[o].status \in LiveRow /\ o \notin kept
        <4>1. task'[o] = row
          BY <1>3, <3>2
        <4>2. row \in TaskRow /\ row.status = "interrupted" /\ row.role = task[o].role
              /\ row.recovers = task[o].recovers /\ row.alloc = task[o].alloc /\ row.key = task[o].key
              /\ row.auto = task[o].auto /\ row.abandoned = task[o].abandoned
              /\ row.structural = task[o].structural
          BY <3>1 DEF TaskRow, Recoverable
        <4> HIDE DEF row
        <4>3. Moved(task[o], row)
          BY <3>1, <3>2, <4>2 DEF Moved, RowOK, LiveRow, Recoverable
        <4> QED  BY <4>1, <4>2, <4>3
      <3>3. CASE ~(task[o].status \in LiveRow /\ o \notin kept)
        BY <1>1, <1>3, <3>1, <3>3, StaysAsItIs
      <3> QED  BY <3>2, <3>3
    <2>2. task' \in [Ops -> TaskRow]
      BY <1>3, <2>1
    <2> QED  BY <2>1, <2>2 DEF RowsMove
  <1>7. /\ notice' \in [Ops -> Notice]
        /\ \A p \in Ops : \/ notice'[p] = notice[p]
                          \/ task[p].role = "work" /\ Live(task, p) /\ ~Live(task', p)
    <2>1. \A p \in Ops : task'[p].role = task[p].role
      BY <1>6 DEF RowsMove, Moved
    <2> QED  BY <1>1, <2>1 DEF Told, Notice, Live, NoOp
  <1>8. All(ep'[This], report'[This], task', cmd, work, notice', rec, call, thr, boot)
    BY <1>5, <1>6, <1>7, RowsGoOn
  <1>9. NoCall \in Service /\ Serves(ep'[This], cmd, NoCall)
    BY DEF NoCall, Service, Serves
  <1>10. All(ep'[This], report'[This], task', cmd, work, notice', rec, call', thr, boot)
    BY <1>1, <1>8, <1>9, CallGoesOn
  <1>11. \A o \in Ops : IsTurn(task', o) /\ Live(task', o) => task'[o].recovers = NoOp
    <2> SUFFICES ASSUME NEW o \in Ops, IsTurn(task', o), Live(task', o)
                 PROVE  task'[o].recovers = NoOp
      OBVIOUS
    <2>1. IsTurn(task, o) /\ Live(task, o) /\ task'[o].recovers = task[o].recovers
      BY <1>1, <1>6, MovedFacts
    <2>2. o \in kept
      <3>1. ASSUME o \notin kept PROVE FALSE
        <4>1. task'[o].status = "interrupted"
          BY <1>1, <1>3, <2>1, <3>1 DEF Live, TaskRow
        <4> QED  BY <4>1 DEF Live, LiveRow
      <3> QED  BY <3>1
    <2> QED  BY <2>1, <2>2 DEF Keepable, IsTurn
  <1>12. /\ rec \in [Ops -> Recovery] /\ thr \in [Threads -> Carried] /\ RowInv(task')
         /\ Lines(task', rec, thr, boot)
    BY <1>8 DEF All
  <1>13. thr' \in [Threads -> Carried] /\ Lines(task', rec, thr', "starting")
    BY <1>1, <1>6, <1>11, <1>12, LinesRestarted
  <1>14. \A t \in Threads : thr'[t].pc = "next"
    BY <1>1 DEF Idle
  <1>15. CommandInv(ep'[This], cmd, call', thr') /\ SpentInv(ep'[This], thr')
    BY <1>10, <1>14 DEF All, CommandInv, Redrives, SpentInv
  <1>16. All(ep'[This], report'[This], task', cmd, work, notice', rec, call', thr', boot')
    BY <1>1, <1>10, <1>13, <1>15 DEF All
  <1> QED  BY <1>1, <1>4, <1>16 DEF IInv, Shape

-----------------------------------------------------------------------------
LEMMA InvInit == Init => IInv
  <1> SUFFICES ASSUME Init
               PROVE  IInv
    OBVIOUS
  <1>1. /\ ep = [e \in Episodes |-> NoEpisode] /\ report = [e \in Episodes |-> NoReport]
        /\ task = [o \in Ops |-> NoTask] /\ cmd = [k \in Keys |-> NoCommand] /\ work = [k \in Keys |-> NoRoute]
        /\ notice = [o \in Ops |-> Untold] /\ mail = [m \in Messages |-> Untold]
        /\ rec = [o \in Ops |-> NoRecovery] /\ call = NoCall /\ thr = [t \in Threads |-> Idle]
        /\ boot = "serving"
    BY DEF Init, LedgerInit, ReportsInit
  <1>2. MaxOps \in Nat /\ MaxKeys \in Nat /\ max_attempts \in Nat /\ Episodes = {This}
    BY ReportAssumption, LedgerAssumption DEF Episodes, This
  <1>3. NoEpisode \in Episode /\ NoReport \in ReportRow
    BY LedgerAssumption DEF NoEpisode, Episode, NoReport, ReportRow, NoOp
  <1>4. NoTask \in TaskRow /\ NoCommand \in Command /\ NoRoute \in Route /\ Untold \in Notice
    BY <1>2 DEF NoTask, TaskRow, NoCommand, Command, NoRoute, Route, Untold, Notice, NoOp
  <1>5. NoRecovery \in Recovery /\ NoCall \in Service
    BY <1>2 DEF NoRecovery, Recovery, NoCall, Service, NoOp
  <1>6. Idle \in Carried /\ Idle.rest = <<>> /\ Idle.pc = "next"
    BY DEF Idle, Carried, NoOp
  <1>7. Shape
    <2>1. PICK s \in Scenarios : plan = s.plan
      BY DEF Init
    <2> QED  BY <1>1, <1>3, <2>1, ScenarioAssumption DEF Shape, Untold, NoOp
  <1>8. \A o \in Ops : task[o] = NoTask /\ notice[o] = Untold /\ rec[o] = NoRecovery
    BY <1>1
  <1>9. \A k \in Keys : cmd[k] = NoCommand /\ work[k] = NoRoute
    BY <1>1
  <1>10. \A t \in Threads : thr[t] = Idle /\ thr[t].rest = <<>> /\ thr[t].pc = "next"
    BY <1>1, <1>6
  <1>11. ep[This] = NoEpisode /\ report[This] = NoReport
    BY <1>1, <1>2
  <1>12. /\ ep[This] \in Episode /\ report[This] \in ReportRow /\ task \in [Ops -> TaskRow]
         /\ cmd \in [Keys -> Command] /\ work \in [Keys -> Route] /\ notice \in [Ops -> Notice]
         /\ rec \in [Ops -> Recovery] /\ call \in Service /\ thr \in [Threads -> Carried]
         /\ boot \in {"serving", "starting", "down"}
    BY <1>1, <1>3, <1>4, <1>5, <1>6, <1>11
  <1>13. RecordOK(ep[This], report[This])
    BY <1>11 DEF RecordOK, NoEpisode, NoReport, Ended
  <1>14. RowInv(task)
    <2>1. 0 \in 0..MaxOps /\ \A o \in Ops : task[o].status # "none" <=> o <= 0
      BY <1>2, <1>8 DEF NoTask, Ops
    <2>2. /\ NoTask.status = "none" /\ NoTask.role = "none" /\ ~NoTask.auto /\ ~NoTask.abandoned
          /\ ~NoTask.structural /\ NoTask.recovers = NoOp
      BY DEF NoTask
    <2>3. \A o \in Ops : RowOK(task, o) /\ ~IsTurn(task, o)
      BY <1>8, <2>2 DEF RowOK, IsTurn, Recoverable
    <2> QED  BY <2>1, <2>3 DEF RowInv
  <1>15. PaidInv(ep[This], task)
    <2>1. Paid(task) = {}
      BY <1>8 DEF Paid, NoTask
    <2> QED  BY <1>8, <1>11, <2>1, FS_EmptySet DEF PaidInv, NoEpisode, NoTask
  <1>16. SpawnInv(task, cmd, work)
    BY <1>8, <1>9 DEF SpawnInv, PaidWork, NoTask, NoCommand, NoRoute
  <1>17. CommandInv(ep[This], cmd, call, thr)
    BY <1>1, <1>9, <1>10 DEF CommandInv, CommandOK, Answerable, Serves, Redrives, NoCommand, NoCall
  <1>18. NoticeInv(task, notice)
    BY <1>8 DEF NoticeInv, Untold
  <1>19. EndInv(ep[This], task, cmd, notice)
    BY <1>11 DEF EndInv, NoEpisode
  <1>20. SpentInv(ep[This], thr)
    BY <1>10 DEF SpentInv
  <1>21. Lines(task, rec, thr, boot)
    <2>1. /\ Poller \in Threads /\ \A o \in Ops : o \in Threads
          /\ \A t \in Threads, p \in PassNames : ~Left(thr, t, p)
          /\ \A o \in Ops : ~Retrying(thr, o) /\ ~IsTurn(task, o)
          /\ \A t \in Threads : ~Recovers(thr[t]) /\ Ordered(thr[t].rest)
      BY <1>8, <1>10, PassesAre DEF Threads, Left, Retrying, Recovers, IsTurn, NoTask
    <2>2. RecoveryInv(task, rec)
      BY <1>8 DEF RecoveryInv, RecoveryOK, NoRecovery
    <2>3. LookInv(task, thr) /\ PassInv(task, thr, boot)
      BY <2>1 DEF LookInv, PassInv, PassNames
    <2>4. RetryInv(task, rec, thr)
      BY <2>1 DEF RetryInv, PassNames
    <2>5. AttemptInv(task, rec, thr)
      <3> SUFFICES ASSUME NEW a \in Ops
                   PROVE  AttemptOK(rec[a], Attempted(task, thr, a))
        BY DEF AttemptInv
      <3>1. Attempted(task, thr, a) = {}
        BY <1>8, <2>1 DEF Attempted, AutoRows, NoTask
      <3> QED  BY <1>2, <1>8, <3>1, FS_EmptySet DEF AttemptOK, NoRecovery
    <2>6. FenceInv(task, rec, thr)
      BY <1>10 DEF FenceInv, Fences
    <2> QED  BY <2>2, <2>3, <2>4, <2>5, <2>6 DEF Lines
  <1> QED  BY <1>7, <1>12, <1>13, <1>14, <1>15, <1>16, <1>17, <1>18, <1>19, <1>20, <1>21 DEF IInv, All

LEMMA InvStep == IInv /\ [Next]_vars => IInv'
  <1> SUFFICES ASSUME IInv, [Next]_vars
               PROVE  IInv'
    OBVIOUS
  <1>1. CASE UNCHANGED vars
    <2>1. UNCHANGED <<ep, report, task, cmd, work, notice, mail, rec, plan, call, thr, boot>>
      BY <1>1 DEF vars, ledgerVars, reportVars
    <2> QED  BY <2>1 DEF IInv, Shape
  <1>2. CASE System
    BY <1>2, ServeStep, ReportStep, ThreadStep, TurnEndsStep DEF System
  <1>3. CASE Authorize \/ Restart \/ RequestStop
    BY <1>3, AuthorizeStep, RestartStep, RequestStopStep
  <1>4. CASE \E o \in Ops : TurnFails(o) \/ PersonAbandons(o)
    BY <1>4, TurnFailsStep, PersonAbandonsStep
  <1>5. CASE \E o \in Ops, k \in Keys : Issue(o, k) \/ Repeat(o, k)
    BY <1>5, IssueStep, RepeatStep
  <1>6. CASE \E m \in Messages : SendMail(m)
    BY <1>6, SendMailStep
  <1>7. CASE \E o, c \in Ops : PersonRecovers(o, c)
    BY <1>7, PersonRecoversStep
  <1> QED  BY <1>1, <1>2, <1>3, <1>4, <1>5, <1>6, <1>7 DEF Next

(* The strengthened invariant holds of every behaviour. *)
THEOREM InvAlways == Spec => []IInv
  BY InvInit, InvStep, PTL DEF Spec

-----------------------------------------------------------------------------
(* The ledger. *)

(* Each automatic recovery is of a turn of its own. *)
LEMMA AutoRowsAreFew ==
    ASSUME IInv, NEW a \in Ops
    PROVE  Cardinality(AutoRows(task, a)) <= max_attempts
  <1> DEFINE S == AutoRows(task, a)
             T == Attempted(task, thr, a)
             f == [c \in S |-> task[c].recovers]
  <1>1. task \in [Ops -> TaskRow] /\ RowInv(task) /\ Lines(task, rec, thr, boot)
    BY Parts
  <1>2. f \in [S -> T]
    BY DEF Attempted
  <1>3. \A c, d \in S : f[c] = f[d] => c = d
    BY <1>1 DEF AutoRows, RowInv, RowOK
  <1>4. f \in Injection(S, T)
    BY <1>2, <1>3 DEF Injection, IsInjective
  <1>5. IsFiniteSet(T) /\ Cardinality(T) \in Nat
    BY <1>1, AttemptedIsFinite
  <1>6. Cardinality(T) <= max_attempts
    BY <1>1 DEF Lines, AttemptInv, AttemptOK
  <1> HIDE DEF f, S, T
  <1>7. IsFiniteSet(S) /\ Cardinality(S) <= Cardinality(T)
    BY <1>4, <1>5, FS_Injection
  <1>8. Cardinality(S) \in Nat
    BY <1>7, FS_CardinalityType
  <1>9. max_attempts \in Nat
    BY LedgerAssumption
  <1>10. Cardinality(S) <= max_attempts
    BY <1>5, <1>6, <1>7, <1>8, <1>9
  <1> QED  BY <1>10 DEF S

LEMMA TurnsPaid ==
    ASSUME IInv
    PROVE  TurnsArePaid
  <1> DEFINE x == ep[This]
  <1>1. /\ x \in Episode /\ RecordOK(x, report[This]) /\ task \in [Ops -> TaskRow] /\ RowInv(task)
        /\ PaidInv(x, task)
    BY Parts
  <1>2. PaidRows = Paid(task)
    BY DEF PaidRows, Paid, Rows
  <1>3. Cardinality(PaidRows) = x.used
    BY <1>1, <1>2 DEF PaidInv
  <1>4. x.used <= x.ceiling
    BY <1>1 DEF RecordOK, NoEpisode
  <1>5. \A o \in Rows : task[o].alloc \in PaidRows
    BY <1>1 DEF Rows, PaidRows, RowInv, RowOK
  <1>6. ASSUME NEW a \in Ops
        PROVE  Cardinality({o \in Rows : task[o].alloc = a /\ task[o].auto}) <= max_attempts
    <2>1. {o \in Rows : task[o].alloc = a /\ task[o].auto} = AutoRows(task, a)
      BY <1>1 DEF AutoRows, Rows, RowInv, RowOK, NoTask
    <2> QED  BY <2>1, AutoRowsAreFew
  <1>7. Cardinality(LiveTurns) <= 1
    <2>1. \A o, p \in LiveTurns : o = p
      BY <1>1 DEF LiveTurns, Turns, Rows, RowInv, IsTurn, Live
    <2>2. LiveTurns = {} \/ \E o : LiveTurns = {o}
      BY <2>1
    <2>3. Cardinality(LiveTurns) = 0 \/ Cardinality(LiveTurns) = 1
      BY <2>2, FS_EmptySet, FS_Singleton, Zenon
    <2> QED  BY <2>3
  <1> QED  BY <1>3, <1>4, <1>5, <1>6, <1>7 DEF TurnsArePaid

LEMMA TakesEffectOnce ==
    ASSUME IInv
    PROVE  CommandsTakeEffectOnce
  <1>1. /\ task \in [Ops -> TaskRow] /\ RowInv(task) /\ SpawnInv(task, cmd, work)
        /\ CommandInv(ep[This], cmd, call, thr)
    BY Parts
  <1> SUFFICES ASSUME NEW k \in Keys
               PROVE  /\ Cardinality(Spawned(k)) = (IF cmd[k].adm = "reflected" THEN 1 ELSE 0)
                      /\ cmd[k].verb = "spawn" /\ cmd[k].exit = "ok" => cmd[k].adm = "reflected"
                      /\ cmd[k].verb = "finish" /\ cmd[k].exit = "ok" => ep[This].ending = "completed"
    BY DEF CommandsTakeEffectOnce
  <1>2. /\ cmd[k].verb = "spawn" /\ cmd[k].exit = "ok" => cmd[k].adm = "reflected"
        /\ cmd[k].verb = "finish" /\ cmd[k].exit = "ok" => ep[This].ending = "completed"
    BY <1>1 DEF CommandInv, CommandOK, Answerable
  <1>3. Spawned(k) = {o \in Ops : PaidWork(task, o) /\ task[o].key = k}
    BY <1>1 DEF Spawned, PaidRows, Rows, PaidWork, RowInv, RowOK, NoTask
  <1>4. CASE cmd[k].adm = "reflected"
    <2>1. PICK o \in Ops : PaidWork(task, o) /\ task[o].key = k
      BY <1>1, <1>4 DEF SpawnInv
    <2>2. Spawned(k) = {o}
      BY <1>1, <1>3, <2>1 DEF SpawnInv
    <2> QED  BY <1>2, <1>4, <2>2, FS_Singleton
  <1>5. CASE cmd[k].adm # "reflected"
    <2>1. Spawned(k) = {}
      BY <1>1, <1>3, <1>5 DEF SpawnInv
    <2> QED  BY <1>2, <1>5, <2>1, FS_EmptySet
  <1> QED  BY <1>4, <1>5

(* What the ledger says is what was done: the invocations counted are the rows paid for and
   stay within the authorization, automatic recoveries of a payment stay under their limit,
   the orchestrator has one turn at a time, and a Spawn makes exactly one worker, however
   its key is given again, redriven or cancelled and wherever the process ended
   (storage/auto_research.py, storage/auto_research_children.py). *)
THEOREM LedgerAlwaysExact == Spec => []LedgerIsExact
  <1>1. IInv => LedgerIsExact
    <2> SUFFICES ASSUME IInv
                 PROVE  LedgerIsExact
      OBVIOUS
    <2>1. TypeOK
      BY Parts DEF TypeOK, TaskRow, Command, Route, Notice, Recovery, Shape
    <2> QED  BY <2>1, TurnsPaid, TakesEffectOnce DEF LedgerIsExact
  <1> QED  BY <1>1, InvAlways, PTL

(* An episode completes only with no Work, notice or admitted Spawn left, is stopped or
   exhausted only with no live turn (but for an invocation that a person retried), and no
   report is written beside a live row (auto_research_effects.py, episodes/reconcile.py). *)
THEOREM EndingsAlwaysEarned == Spec => []EndingsAreEarned
  <1>1. IInv => EndingsAreEarned
    <2> SUFFICES ASSUME IInv
                 PROVE  EndingsAreEarned
      OBVIOUS
    <2>1. /\ EndInv(ep[This], task, cmd, notice) /\ RecordOK(ep[This], report[This])
          /\ notice \in [Ops -> Notice] /\ RowInv(task)
      BY Parts
    <2>2. \A o \in Ops : task[o].status # "none" => task[o].role # "none"
      BY <2>1 DEF RowInv, RowOK
    <2>3. ep[This].ending = "completed" =>
            Pending(notice) = {} /\ Admitted = {} /\ \A o \in Rows \ Turns : task[o].status \notin LiveRow
      BY <2>1 DEF EndInv, Pending, Admitted, Rows, Turns, Live, IsTurn
    <2>4. \A a \in Ops : RetriedIn(task, a) => Retried(a)
      <3> SUFFICES ASSUME NEW a \in Ops, RetriedIn(task, a)
                   PROVE  Retried(a)
        OBVIOUS
      <3>1. PICK o \in Ops : IsTurn(task, o) /\ task[o].alloc = a /\ task[o].recovers # NoOp /\ ~task[o].auto
        BY DEF RetriedIn
      <3>2. o \in Turns
        BY <2>1, <3>1 DEF Turns, Rows, IsTurn, RowInv, RowOK, NoTask
      <3> QED  BY <3>1, <3>2 DEF Retried
    <2>5. ep[This].ending = "exhausted" => \A o \in LiveTurns : Retried(task[o].alloc)
      <3> SUFFICES ASSUME ep[This].ending = "exhausted", NEW o \in LiveTurns
                   PROVE  Retried(task[o].alloc)
        OBVIOUS
      <3>1. o \in Ops /\ IsTurn(task, o) /\ Live(task, o) /\ task[o].status # "none"
        BY DEF LiveTurns, Turns, Rows, IsTurn, Live
      <3>2. task[o].alloc \in Ops
        BY <2>1, <3>1 DEF RowInv, RowOK
      <3> QED  BY <2>1, <2>4, <3>1, <3>2 DEF EndInv
    <2>6. ep[This].ending = "stopped" => LiveTurns = {}
      BY <2>1 DEF EndInv, LiveTurns, Turns, Rows, IsTurn, Live
    <2>7. report[This].step # "none" => \A o \in Rows : task[o].status \notin LiveRow
      BY <2>1 DEF EndInv, RecordOK, Rows, Live
    <2> QED  BY <2>3, <2>5, <2>6, <2>7 DEF EndingsAreEarned
  <1> QED  BY <1>1, InvAlways, PTL

-----------------------------------------------------------------------------
(* What was handed over or answered stays so. *)
NoticesStay(next) == \A o \in Ops : notice[o].state \in {"delivered", "acknowledged"} => next[o] = notice[o]
MailStays(next) == \A m \in Messages : mail[m].state = "delivered" => next[m] = mail[m]
ExitsStay(next) == \A k \in Keys : cmd[k].exit # "none" => next[k].exit = cmd[k].exit

LEMMA HandedKeeps ==
    ASSUME IInv, NEW xs, NEW ms, NEW state, NEW by
    PROVE  /\ xs \subseteq Pending(notice) => NoticesStay(Hand(notice, xs, state, by))
           /\ ms \subseteq Pending(mail) => MailStays(Hand(mail, ms, state, by))
  <1>1. DOMAIN notice = Ops /\ DOMAIN mail = Messages
    BY Parts DEF Shape
  <1> QED  BY <1>1 DEF NoticesStay, MailStays, Hand, Pending

(* A row that was live has told nothing yet. *)
LEMMA ToldKeeps ==
    ASSUME IInv
    PROVE  NoticesStay(Told(task'))
  <1>1. NoticeInv(task, notice)
    BY Parts
  <1> QED  BY <1>1 DEF NoticesStay, Told, NoticeInv

LEMMA CommandKeeps ==
    ASSUME IInv, NEW k \in Keys
    PROVE  /\ \A out : ExitsStay([cmd EXCEPT ![k].exit = IF @ = "none" THEN out ELSE @])
           /\ \A adm : ExitsStay([cmd EXCEPT ![k].adm = adm])
           /\ \A receipt : ExitsStay([cmd EXCEPT ![k].receipt = receipt])
           /\ \A c : cmd[k].by = NoOp => ExitsStay([cmd EXCEPT ![k] = c])
  <1>1. cmd \in [Keys -> Command] /\ CommandInv(ep[This], cmd, call, thr)
    BY Parts
  <1>2. cmd[k].by = NoOp => cmd[k].exit = "none"
    BY <1>1 DEF CommandInv, CommandOK, NoCommand
  <1> QED  BY <1>1, <1>2 DEF ExitsStay, Command

LEMMA ChildKeeps ==
    ASSUME IInv, NEW k \in Keys, NEW o, create_auto_research_child_work(k, o)
    PROVE  ExitsStay(cmd')
  <1>1. cmd' = [cmd EXCEPT ![k].adm = "reflected"]
    BY DEF create_auto_research_child_work
  <1> QED  BY <1>1, CommandKeeps

LEMMA GuardKeeps ==
    ASSUME IInv, NEW k \in Keys, guard_auto_research_finish(k)
    PROVE  ExitsStay(cmd')
  <1>1. \E receipt \in {"blocked", "completed"} : cmd' = [cmd EXCEPT ![k].receipt = receipt]
    BY DEF guard_auto_research_finish
  <1> QED  BY <1>1, CommandKeeps

LEMMA NothingHanded ==
    /\ UNCHANGED notice => NoticesStay(notice')
    /\ UNCHANGED mail => MailStays(mail')
    /\ UNCHANGED cmd => ExitsStay(cmd')
  BY DEF NoticesStay, MailStays, ExitsStay

Handed == NoticesStay(notice') /\ MailStays(mail') /\ ExitsStay(cmd')

LEMMA ServeHands ==
    ASSUME IInv, Serve
    PROVE  Handed
  <1>1. CASE Prove \/ Guard
    BY <1>1, NothingHanded DEF Prove, Guard, ledgerVars, Handed
  <1>2. CASE Answer
    <2>1. call.key \in Keys
      BY <1>2, Parts DEF Answer, CommandInv, Serves
    <2>2. ExitsStay(cmd')
      BY <1>2, <2>1, CommandKeeps DEF Answer, finish_agent_command
    <2> QED  BY <1>2, <2>2, NothingHanded DEF Answer, Handed
  <1>3. CASE Execute
    <2>1. call.key \in Keys /\ cmd \in [Keys -> Command]
      BY <1>3, Parts DEF Execute, CommandInv, Serves
    <2>2. CASE Spawn
      <3>1. CASE UNCHANGED cmd
        BY <2>2, <3>1, NothingHanded DEF Spawn, Handed
      <3>2. CASE \E o \in Ops : create_auto_research_child_work(call.key, o)
        <4>1. ExitsStay(cmd')
          BY <2>1, <3>2, ChildKeeps
        <4> QED  BY <2>2, <4>1, NothingHanded DEF Spawn, Handed
      <3>3. CASE cancel_auto_research_child_admission(call.key)
        <4>1. cmd' = [cmd EXCEPT ![call.key].adm = IF cmd[call.key].adm = "accepted" THEN "cancelled"
                                                   ELSE cmd[call.key].adm]
          BY <2>1, <3>3 DEF cancel_auto_research_child_admission
        <4>2. ExitsStay(cmd')
          BY <2>1, <4>1, CommandKeeps
        <4> QED  BY <2>2, <4>2, NothingHanded DEF Spawn, Handed
      <3> QED  BY <2>2, <3>1, <3>2, <3>3 DEF Spawn
    <2>3. CASE Pause \/ StopWork \/ Resume
      BY <2>3, NothingHanded DEF Pause, StopWork, Resume, Handed
    <2>4. CASE Inbox
      <3>1. NoticesStay(notice') /\ ExitsStay(cmd')
        BY <2>1, <2>4, HandedKeeps, CommandKeeps, NothingHanded DEF Inbox,
                                                                    process_auto_research_lifecycle_inbox
      <3> QED  BY <2>4, <3>1, NothingHanded DEF Inbox, Handed
    <2>5. CASE Finish
      <3>1. ExitsStay(cmd')
        BY <2>1, <2>5, GuardKeeps, NothingHanded DEF Finish
      <3> QED  BY <2>5, <3>1, NothingHanded DEF Finish, Handed
    <2> QED  BY <1>3, <2>2, <2>3, <2>4, <2>5 DEF Execute
  <1> QED  BY <1>1, <1>2, <1>3 DEF Serve

LEMMA PassHands ==
    ASSUME IInv, NEW t \in Threads, Pass(t)
    PROVE  Handed
  <1>1. CASE UNCHANGED <<cmd, notice, mail>>
    BY <1>1, NothingHanded DEF Handed
  <1>2. ASSUME NEW here, NEW after, Admitted # {}, Drive(t, here, after)
        PROVE  Handed
    <2> DEFINE k == Least(Admitted)
    <2>1. k \in Keys /\ cmd \in [Keys -> Command]
      <3>1. Admitted \subseteq Nat /\ Admitted \subseteq Keys
        BY LedgerAssumption DEF Admitted, Keys
      <3> QED  BY <1>2, <3>1, LeastIn, Parts
    <2> HIDE DEF k
    <2>2. ExitsStay(cmd')
      <3>1. CASE UNCHANGED cmd
        BY <3>1, NothingHanded
      <3>2. CASE \E o \in Ops : create_auto_research_child_work(k, o)
        BY <2>1, <3>2, ChildKeeps
      <3>3. CASE cancel_auto_research_child_admission(k)
        <4>1. cmd' = [cmd EXCEPT ![k].adm = IF cmd[k].adm = "accepted" THEN "cancelled" ELSE cmd[k].adm]
          BY <2>1, <3>3 DEF cancel_auto_research_child_admission
        <4> QED  BY <2>1, <4>1, CommandKeeps
      <3> QED  BY <1>2, <3>1, <3>2, <3>3 DEF Drive, k
    <2> QED  BY <1>2, <2>2, NothingHanded DEF Drive, Handed
  <1> DEFINE ps == Passes(t)
             due == {j \in DOMAIN ps : HasWork(ps[j])}
             i == Least(due)
             here == SubSeq(ps, i, Len(ps))
             after == SubSeq(ps, i + 1, Len(ps))
  <1>3. CASE due = {}
    BY <1>1, <1>3 DEF Pass, ledgerVars
  <1>4. CASE due # {}
    <2>1. due \subseteq Nat /\ DOMAIN ps \subseteq Nat
      <3>1. ps \in Seq(PassNames)
        BY PassesAre, RestIs DEF Passes, RestOK
      <3> QED  BY <3>1
    <2>2. i \in due
      BY <1>4, <2>1, LeastIn
    <2>3. HasWork(ps[i])
      BY <2>2
    <2> HIDE DEF ps, i, here, after
    <2>4. CASE ps[i] = "children" /\ Drive(t, here, after)
      BY <1>2, <2>3, <2>4 DEF HasWork
    <2>5. CASE ReadWake(t, ps[i], after) \/ EpisodePass(t, here, after) \/ Settle(t, after)
      BY <1>1, <2>5 DEF ReadWake, EpisodePass, Settle, ledgerVars
    <2>6. CASE SettleStop(t, after) \/ ReadRecovery(t, after)
      BY <1>1, <2>6 DEF SettleStop, ReadRecovery, ledgerVars
    <2>7. CASE Orphan(t, here, after) \/ RestartReport(t, after) \/ UNCHANGED <<ledgerVars, budget>>
      BY <1>1, <2>7 DEF Orphan, RestartReport, ledgerVars
    <2> QED  BY <1>4, <2>4, <2>5, <2>6, <2>7 DEF Pass, ps, i, here, after
  <1> QED  BY <1>3, <1>4

LEMMA ThreadHands ==
    ASSUME IInv, NEW t \in Threads, Thread(t)
    PROVE  Handed
  <1>1. CASE Pass(t)
    BY <1>1, PassHands
  <1>2. CASE Redriven(t)
    <2>1. thr[t].at \in Keys
      BY <1>2, Parts DEF Redriven, CommandInv, Redrives
    <2>2. ExitsStay(cmd')
      BY <1>2, <2>1, CommandKeeps, NothingHanded DEF Redriven, finish_agent_command
    <2> QED  BY <1>2, <2>2, NothingHanded DEF Redriven, Handed
  <1>3. CASE Claim(t)
    <2>1. CASE UNCHANGED <<notice, mail>>
      BY <1>3, <2>1, NothingHanded DEF Claim, Handed
    <2>2. CASE /\ WakeAccepted(thr[t].notices, thr[t].letters)
               /\ \E o \in Ops : create_auto_research_lifecycle_wake_task(o, thr[t].notices, thr[t].letters)
      <3>1. NoticesStay(notice') /\ MailStays(mail')
        BY <2>2, HandedKeeps DEF create_auto_research_lifecycle_wake_task, WakeAccepted
      <3> QED  BY <1>3, <3>1, NothingHanded DEF Claim, Handed
    <2> QED  BY <1>3, <2>1, <2>2 DEF Claim
  <1>4. CASE FenceExhausted(t) \/ Retry(t) \/ StopAbandoned(t) \/ Complete(t) \/ RetryFailed(t)
    BY <1>4, NothingHanded DEF FenceExhausted, Retry, StopAbandoned, Complete, RetryFailed, Handed
  <1> QED  BY <1>1, <1>2, <1>3, <1>4 DEF Thread

LEMMA OthersHand ==
    ASSUME IInv, [Next]_vars, ~Serve, ~\E t \in Threads : Thread(t)
    PROVE  Handed
  <1>1. CASE Report \/ Authorize \/ RequestStop \/ UNCHANGED vars
    BY <1>1, NothingHanded DEF Report, Authorize, RequestStop, vars, ledgerVars, Handed
  <1>2. CASE Restart
    <2>1. NoticesStay(notice')
      BY <1>2, ToldKeeps DEF Restart
    <2> QED  BY <1>2, <2>1, NothingHanded DEF Restart, Handed
  <1>3. ASSUME NEW o \in Ops, NEW row, EndsAs(o, row)
        PROVE  Handed
    <2>1. NoticesStay(notice')
      BY <1>3, ToldKeeps DEF EndsAs
    <2> QED  BY <1>3, <2>1, NothingHanded DEF EndsAs, Handed
  <1>4. CASE \E o \in Ops : TurnEnds(o) \/ TurnFails(o)
    BY <1>3, <1>4 DEF TurnEnds, TurnFails
  <1>5. CASE \E o \in Ops : PersonAbandons(o)
    BY <1>5, NothingHanded DEF PersonAbandons, Handed
  <1>6. ASSUME NEW o \in Ops, NEW k \in Keys, Issue(o, k)
        PROVE  Handed
    <2>1. ExitsStay(cmd')
      BY <1>6, CommandKeeps DEF Issue, start_agent_command
    <2> QED  BY <1>6, <2>1, NothingHanded DEF Issue, Handed
  <1>7. CASE \E o \in Ops, k \in Keys : Repeat(o, k)
    BY <1>7, NothingHanded DEF Repeat, ledgerVars, Handed
  <1>8. ASSUME NEW m \in Messages, SendMail(m)
        PROVE  Handed
    <2>1. MailStays(mail')
      BY <1>8, Parts DEF SendMail, record_auto_research_message, MailStays, Shape
    <2> QED  BY <1>8, <2>1, NothingHanded DEF SendMail, Handed
  <1>9. CASE \E o, c \in Ops : PersonRecovers(o, c)
    BY <1>9, NothingHanded DEF PersonRecovers, Handed
  <1> QED  BY <1>1, <1>2, <1>4, <1>5, <1>6, <1>7, <1>8, <1>9 DEF Next, System

(* A notice that was handed to a wake or acknowledged, a letter that was delivered and the
   exit a command was first answered with stay what they are, whatever is read late, given
   again or redriven (create_auto_research_lifecycle_wake_task, finish_agent_command). *)
THEOREM AlwaysHandedOverOnce == Spec => HandedOverOnce
  <1>1. IInv /\ [Next]_vars =>
          [ /\ \A o \in Ops : notice[o].state \in {"delivered", "acknowledged"} => notice'[o] = notice[o]
            /\ \A m \in Messages : mail[m].state = "delivered" => mail'[m] = mail[m]
            /\ \A k \in Keys : cmd[k].exit # "none" => cmd'[k].exit = cmd[k].exit ]_vars
    BY ServeHands, ThreadHands, OthersHand DEF Handed, NoticesStay, MailStays, ExitsStay
  <1> QED  BY <1>1, InvAlways, PTL DEF Spec, HandedOverOnce

-----------------------------------------------------------------------------
(* What one step does to the episode's record, as EpisodeLifecycle sees it. *)
SameLife(x, z) == z.status = x.status /\ z.used = x.used /\ z.ending = x.ending
LifeMoves(x, z) ==
    \/ SameLife(x, z)
    \/ x.status = "none" /\ z.status = "running" /\ z.used = 1 /\ z.ending = x.ending
    \/ /\ x.status = "running" /\ x.used < Ceiling /\ z.status = x.status /\ z.used = x.used + 1
       /\ z.ending = x.ending
    \/ x.status = "running" /\ z.status = "stopping" /\ z.used = x.used /\ z.ending = x.ending
    \/ /\ x.status = "running" /\ z.status = "wrapping_up" /\ z.used = x.used
       /\ z.ending \in Endings \ {"stopped"}
    \/ x.status = "stopping" /\ z.status = "stopped" /\ z.used = x.used /\ z.ending = "stopped"
    \/ /\ x.status = "wrapping_up" /\ z.status = _status_for_ending[x.ending] /\ z.used = x.used
       /\ z.ending = x.ending

LEMMA LifeStep ==
    ASSUME IInv, IInv', LifeMoves(ep[This], ep'[This])
    PROVE  [Lifecycle!Next]_(Lifecycle!lifecycleVars)
  <1> DEFINE x == ep[This]
             z == ep'[This]
             status == [e \in Episodes |-> ep[e].status]
             spent == [e \in Episodes |-> ep[e].used]
             ending == [e \in Episodes |-> ep[e].ending]
             newStatus == [e \in Episodes |-> ep'[e].status]
             newSpent == [e \in Episodes |-> ep'[e].used]
             newEnding == [e \in Episodes |-> ep'[e].ending]
  <1>1. Episodes = {This} /\ This \in Episodes
    BY Parts, OneEpisode
  <1>2. /\ newStatus = [status EXCEPT ![This] = z.status]
        /\ newSpent = [spent EXCEPT ![This] = z.used]
        /\ newEnding = [ending EXCEPT ![This] = z.ending]
    BY <1>1
  <1>3. /\ z.status = x.status => newStatus = status
        /\ z.used = x.used => newSpent = spent
        /\ z.ending = x.ending => newEnding = ending
    BY <1>2
  <1>4. CASE SameLife(x, z)
    <2>1. newStatus = status /\ newSpent = spent /\ newEnding = ending
      BY <1>3, <1>4 DEF SameLife
    <2> QED  BY <2>1 DEF Lifecycle!lifecycleVars
  <1>5. CASE x.status = "none" /\ z.status = "running" /\ z.used = 1 /\ z.ending = x.ending
    <2>1. Lifecycle!Authorize(This)
      BY <1>1, <1>2, <1>3, <1>5 DEF Lifecycle!Authorize, Lifecycle!Live
    <2> QED  BY <1>1, <2>1 DEF Lifecycle!Next
  <1>6. CASE /\ x.status = "running" /\ x.used < Ceiling /\ z.status = x.status /\ z.used = x.used + 1
             /\ z.ending = x.ending
    <2>1. newSpent = [spent EXCEPT ![This] = @ + 1]
      BY <1>1, <1>2, <1>6
    <2>2. Lifecycle!Spend(This)
      BY <1>1, <1>3, <1>6, <2>1 DEF Lifecycle!Spend
    <2> QED  BY <1>1, <2>2 DEF Lifecycle!Next
  <1>7. CASE x.status = "running" /\ z.status = "stopping" /\ z.used = x.used /\ z.ending = x.ending
    <2>1. Lifecycle!Stop(This)
      BY <1>1, <1>2, <1>3, <1>7 DEF Lifecycle!Stop
    <2> QED  BY <1>1, <2>1 DEF Lifecycle!Next
  <1>8. CASE /\ x.status = "running" /\ z.status = "wrapping_up" /\ z.used = x.used
             /\ z.ending \in Endings \ {"stopped"}
    <2>1. Lifecycle!Fence(This)
      BY <1>1, <1>2, <1>3, <1>8 DEF Lifecycle!Fence
    <2> QED  BY <1>1, <2>1 DEF Lifecycle!Next
  <1>9. CASE x.status = "stopping" /\ z.status = "stopped" /\ z.used = x.used /\ z.ending = "stopped"
    <2>1. newEnding[This] = "stopped" /\ _status_for_ending["stopped"] = "stopped"
      BY <1>1, <1>9 DEF _status_for_ending, Endings
    <2>2. Lifecycle!Settle(This)
      BY <1>1, <1>2, <1>3, <1>9, <2>1 DEF Lifecycle!Settle
    <2> QED  BY <1>1, <2>2 DEF Lifecycle!Next
  <1>10. CASE /\ x.status = "wrapping_up" /\ z.status = _status_for_ending[x.ending] /\ z.used = x.used
              /\ z.ending = x.ending
    <2>1. newEnding[This] = x.ending
      BY <1>1, <1>10
    <2>2. Lifecycle!Settle(This)
      BY <1>1, <1>2, <1>3, <1>10, <2>1 DEF Lifecycle!Settle
    <2> QED  BY <1>1, <2>2 DEF Lifecycle!Next
  <1> QED  BY <1>4, <1>5, <1>6, <1>7, <1>8, <1>9, <1>10 DEF LifeMoves

(* One lemma per transaction that writes the episode. *)
LEMMA SameRecord ==
    ASSUME UNCHANGED ep
    PROVE  LifeMoves(ep[This], ep'[This])
  BY DEF LifeMoves, SameLife

LEMMA PayLives ==
    ASSUME IInv, Accepting, Affordable, ep' = [ep EXCEPT ![This].used = @ + 1]
    PROVE  LifeMoves(ep[This], ep'[This])
  <1> DEFINE x == ep[This]
  <1>1. x \in Episode /\ This \in Episodes /\ ep \in [Episodes -> Episode]
    BY Parts, OneEpisode DEF Shape
  <1>2. x.status = "running" /\ x.used < Ceiling
    <2>1. x.used < x.ceiling /\ x.used \in Nat /\ x.ceiling \in 0..Ceiling /\ Ceiling \in Nat
      BY <1>1, LedgerAssumption DEF Affordable, Episode
    <2> QED  BY <2>1 DEF Accepting
  <1>3. ep'[This].status = x.status /\ ep'[This].used = x.used + 1 /\ ep'[This].ending = x.ending
    BY <1>1 DEF Episode
  <1> QED  BY <1>2, <1>3 DEF LifeMoves

LEMMA FenceLives ==
    ASSUME IInv, NEW ending \in Endings \ {"stopped"}, fence_episode_ending(This, ending),
           ep[This].ending = "none" => ep[This].status = "running"
    PROVE  LifeMoves(ep[This], ep'[This])
  <1>1. This \in Episodes /\ ep \in [Episodes -> Episode]
    BY Parts, OneEpisode DEF Shape
  <1>2. CASE ep[This].ending = "none"
    <2>1. ep' = [ep EXCEPT ![This].status = "wrapping_up", ![This].ending = ending]
      BY <1>2 DEF fence_episode_ending
    <2>2. ep'[This].status = "wrapping_up" /\ ep'[This].used = ep[This].used /\ ep'[This].ending = ending
      BY <1>1, <2>1 DEF Episode
    <2> QED  BY <1>2, <2>2 DEF LifeMoves
  <1>3. CASE ep[This].ending # "none"
    BY <1>3, SameRecord DEF fence_episode_ending
  <1> QED  BY <1>2, <1>3

LEMMA StopLives ==
    ASSUME IInv, settle_auto_research_stop
    PROVE  LifeMoves(ep[This], ep'[This])
  <1> DEFINE x == ep[This]
  <1>1. This \in Episodes /\ ep \in [Episodes -> Episode] /\ x \in Episode /\ RecordOK(x, report[This])
    BY Parts, OneEpisode DEF Shape
  <1>2. CASE x.stop /\ x.status # "stopped" /\ auto_research_is_quiescent
    <2>1. x.status = "stopping"
      BY <1>1, <1>2 DEF RecordOK
    <2>2. ep' = [ep EXCEPT ![This] = Skipped(@)]
      BY <1>2 DEF settle_auto_research_stop
    <2>3. ep'[This].status = "stopped" /\ ep'[This].used = x.used /\ ep'[This].ending = "stopped"
      BY <1>1, <2>2 DEF Skipped, Episode
    <2> QED  BY <2>1, <2>3 DEF LifeMoves
  <1>3. CASE ~(x.stop /\ x.status # "stopped" /\ auto_research_is_quiescent)
    BY <1>3, SameRecord DEF settle_auto_research_stop
  <1> QED  BY <1>2, <1>3

(* The records of the report: its episode is wrapping up, and ends as its fence says. *)
LEMMA FinishedLives ==
    ASSUME IInv, ep[This].status = "wrapping_up", NEW wrap, NEW turn,
           \/ ep' = [ep EXCEPT ![This] = Finished(@, wrap)]
           \/ ep' = [ep EXCEPT ![This] = [Finished(@, wrap) EXCEPT !.concluding = turn]]
    PROVE  LifeMoves(ep[This], ep'[This])
  <1> DEFINE x == ep[This]
  <1>1. This \in Episodes /\ ep \in [Episodes -> Episode] /\ x \in Episode
    BY Parts, OneEpisode DEF Shape
  <1>2. \/ ep'[This] = Finished(x, wrap)
        \/ ep'[This] = [Finished(x, wrap) EXCEPT !.concluding = turn]
    BY <1>1
  <1>3. /\ ep'[This].status = _status_for_ending[x.ending] /\ ep'[This].used = x.used
        /\ ep'[This].ending = x.ending
    BY <1>1, <1>2 DEF Finished, Episode
  <1> QED  BY <1>3 DEF LifeMoves

LEMMA AwaitsLives ==
    ASSUME IInv, NEW wrap, NEW n, NEW turn,
           \/ ep' = ep
           \/ ep' = [ep EXCEPT ![This].wrap = wrap]
           \/ ep' = [ep EXCEPT ![This].wrap = wrap, ![This].attempts = n]
           \/ ep' = [ep EXCEPT ![This].wrap = wrap, ![This].concluding = turn]
    PROVE  LifeMoves(ep[This], ep'[This])
  <1>1. This \in Episodes /\ ep \in [Episodes -> Episode]
    BY Parts, OneEpisode DEF Shape
  <1>2. SameLife(ep[This], ep'[This])
    BY <1>1 DEF SameLife, Episode
  <1> QED  BY <1>2 DEF LifeMoves

LEMMA RestartsLives ==
    ASSUME IInv, start_episode_report(This)
    PROVE  LifeMoves(ep[This], ep'[This])
  <1>1. CASE ~Startable(This)
    BY <1>1, SameRecord DEF start_episode_report, reportVars
  <1>2. CASE Startable(This) /\ Exhausted(This)
    <2>1. ep' = [ep EXCEPT ![This] = Finished(@, "failed")] /\ ep[This].status = "wrapping_up"
      BY <1>2 DEF start_episode_report, requeue_interrupted_episode_report_allocation, Startable
    <2> QED  BY <2>1, FinishedLives
  <1>3. CASE Startable(This) /\ ~Exhausted(This)
    <2>1. ep' = [ep EXCEPT ![This].wrap = "pending"]
      BY <1>3 DEF start_episode_report, requeue_interrupted_episode_report_allocation
    <2> QED  BY <2>1, AwaitsLives
  <1> QED  BY <1>1, <1>2, <1>3

LEMMA WrapupLives ==
    ASSUME IInv, ep[This].status = "wrapping_up", NEW turn, NEW ending, NEW session,
           begin_episode_report_wrapup(This, turn, ending, session)
    PROVE  LifeMoves(ep[This], ep'[This])
  <1>1. CASE UNCHANGED reportVars
    BY <1>1, SameRecord DEF reportVars
  <1>2. CASE end_episode_without_report(This)
    BY <1>2, FinishedLives DEF end_episode_without_report
  <1>3. CASE start_episode_report(This)
    BY <1>3, RestartsLives
  <1>4. CASE begin_episode_wrapup(This, turn)
    BY <1>4, AwaitsLives DEF begin_episode_wrapup
  <1>5. CASE fail_episode_wrapup_unlaunchable(This, turn)
    BY <1>5, FinishedLives DEF fail_episode_wrapup_unlaunchable
  <1> QED  BY <1>1, <1>2, <1>3, <1>4, <1>5 DEF begin_episode_report_wrapup

LEMMA ReportLives ==
    ASSUME IInv, ReportWorker(This)
    PROVE  LifeMoves(ep[This], ep'[This])
  <1>1. RecordOK(ep[This], report[This])
    BY Parts
  <1>2. report[This].step # "none" => ep[This].status = "wrapping_up"
    BY <1>1 DEF RecordOK
  <1>3. CASE allocate_episode_report_attempt(This)
    <2>1. ep' = ep \/ \E n : ep' = [ep EXCEPT ![This].wrap = "running", ![This].attempts = n]
      <3>1. ep' = ep \/ ep' = [ep EXCEPT ![This].wrap = "running", ![This].attempts = ep[This].attempts + 1]
        BY <1>3, Parts, OneEpisode DEF allocate_episode_report_attempt, Shape, Episode
      <3> QED  BY <3>1
    <2> QED  BY <2>1, AwaitsLives
  <1>4. CASE ReportUnlaunchable(This)
    BY <1>2, <1>4, FinishedLives DEF ReportUnlaunchable
  <1>5. CASE mark_episode_report_attempt_running(This) \/ ProviderWrites(This)
    BY <1>5, SameRecord DEF mark_episode_report_attempt_running, ProviderWrites
  <1>6. CASE finish_episode_report_ready(This)
    BY <1>2, <1>6, FinishedLives DEF finish_episode_report_ready
  <1>7. ASSUME NEW final \in BOOLEAN, report[This].step = "call", FailedAttempt(This, final)
        PROVE  LifeMoves(ep[This], ep'[This])
    <2>1. \/ ep' = [ep EXCEPT ![This] = Finished(@, "failed")]
          \/ ep' = [ep EXCEPT ![This].wrap = "pending"]
      BY <1>7 DEF FailedAttempt
    <2> QED  BY <1>2, <1>7, <2>1, FinishedLives, AwaitsLives
  <1>8. CASE record_episode_report_attempt_error(This) \/ finish_episode_report_error(This)
    BY <1>7, <1>8 DEF record_episode_report_attempt_error, finish_episode_report_error
  <1> QED  BY <1>3, <1>4, <1>5, <1>6, <1>8 DEF ReportWorker

LEMMA ServeLives ==
    ASSUME IInv, Serve
    PROVE  LifeMoves(ep[This], ep'[This])
  <1>1. CASE UNCHANGED ep
    BY <1>1, SameRecord
  <1>2. CASE Spawn
    <2>1. CASE ChildAccepted(call.key) /\ \E o \in Ops : create_auto_research_child_work(call.key, o)
      <3>1. Accepting /\ Affordable /\ ep' = [ep EXCEPT ![This].used = @ + 1]
        BY <2>1 DEF ChildAccepted, create_auto_research_child_work, Pay
      <3> QED  BY <3>1, PayLives
    <2> QED  BY <1>1, <1>2, <2>1 DEF Spawn, reportVars
  <1>3. CASE Finish
    <2>1. CASE guard_auto_research_finish(call.key)
      <3>1. ep[This].ending = "none" => ep[This].status = "running"
        BY <2>1 DEF guard_auto_research_finish, FinishRefused, Accepting
      <3>2. CASE fence_episode_ending(This, "completed")
        BY <3>1, <3>2, FenceLives DEF Endings
      <3> QED  BY <1>1, <2>1, <3>2 DEF guard_auto_research_finish
    <2> QED  BY <1>1, <1>3, <2>1 DEF Finish
  <1>4. CASE Pause \/ StopWork \/ Resume \/ Inbox
    BY <1>1, <1>4 DEF Pause, StopWork, Resume, Inbox, reportVars
  <1>5. CASE Prove \/ Guard \/ Answer
    BY <1>1, <1>5 DEF Prove, Guard, Answer, ledgerVars, reportVars
  <1> QED  BY <1>2, <1>3, <1>4, <1>5 DEF Serve, Execute

LEMMA AcceptedFenceLives ==
    ASSUME IInv, NEW ending \in Endings \ {"stopped"}, FenceAccepted(This, ending),
           fence_episode_ending(This, ending)
    PROVE  LifeMoves(ep[This], ep'[This])
  <1>1. ep[This].ending = "none" => ep[This].status = "running"
    BY DEF FenceAccepted
  <1> QED  BY <1>1, FenceLives

LEMMA EpisodePassLives ==
    ASSUME IInv, NEW t, NEW here, NEW after, EpisodeDue, EpisodePass(t, here, after)
    PROVE  LifeMoves(ep[This], ep'[This])
  <1>1. CASE settle_auto_research_stop
    BY <1>1, StopLives
  <1>2. CASE start_episode_report(This)
    BY <1>2, RestartsLives
  <1>3. CASE UNCHANGED reportVars
    BY <1>3, SameRecord DEF reportVars
  <1>4. CASE /\ ~ep[This].stop /\ ep[This].ending # "none" /\ ep[This].wrap = "not_started"
             /\ begin_episode_report_wrapup(This, Latest, ep[This].ending, task[Latest].session)
    <2>1. ep[This].status = "wrapping_up"
      BY <1>4 DEF EpisodeDue
    <2> QED  BY <1>4, <2>1, WrapupLives
  <1> QED  BY <1>1, <1>2, <1>3, <1>4 DEF EpisodePass

LEMMA PassLives ==
    ASSUME IInv, NEW t \in Threads, Pass(t)
    PROVE  LifeMoves(ep[This], ep'[This])
  <1>1. CASE UNCHANGED ep
    BY <1>1, SameRecord
  <1>2. ASSUME NEW here, NEW after, Drive(t, here, after)
        PROVE  LifeMoves(ep[This], ep'[This])
    <2> DEFINE k == Least(Admitted)
    <2>1. CASE ChildAccepted(k) /\ \E o \in Ops : create_auto_research_child_work(k, o)
      <3>1. Accepting /\ Affordable /\ ep' = [ep EXCEPT ![This].used = @ + 1]
        BY <2>1 DEF ChildAccepted, create_auto_research_child_work, Pay
      <3> QED  BY <3>1, PayLives
    <2> QED  BY <1>1, <1>2, <2>1 DEF Drive
  <1>3. ASSUME NEW after, Settle(t, after)
        PROVE  LifeMoves(ep[This], ep'[This])
    <2>1. CASE settle_auto_research_stop
      BY <2>1, StopLives
    <2>2. CASE FenceAccepted(This, "failed") /\ fence_episode_ending(This, "failed")
      BY <2>2, AcceptedFenceLives DEF Endings
    <2> QED  BY <1>1, <1>3, <2>1, <2>2 DEF Settle
  <1>4. ASSUME NEW here, NEW after, Orphan(t, here, after)
        PROVE  LifeMoves(ep[This], ep'[This])
    <2>1. CASE FenceAccepted(This, "failed") /\ fence_episode_ending(This, "failed")
      BY <2>1, AcceptedFenceLives DEF Endings
    <2> QED  BY <1>1, <1>4, <2>1 DEF Orphan
  <1> DEFINE ps == Passes(t)
             due == {j \in DOMAIN ps : HasWork(ps[j])}
             i == Least(due)
             here == SubSeq(ps, i, Len(ps))
             after == SubSeq(ps, i + 1, Len(ps))
  <1>5. CASE due = {}
    BY <1>1, <1>5 DEF Pass, ledgerVars, reportVars
  <1>6. CASE due # {}
    <2>1. due \subseteq Nat /\ DOMAIN ps \subseteq Nat
      <3>1. ps \in Seq(PassNames)
        BY PassesAre, RestIs DEF Passes, RestOK
      <3> QED  BY <3>1
    <2>2. i \in due
      BY <1>6, <2>1, LeastIn
    <2>3. HasWork(ps[i])
      BY <2>2
    <2> HIDE DEF ps, i, here, after
    <2>4. CASE Drive(t, here, after)
      BY <1>2, <2>4
    <2>5. CASE ReadWake(t, ps[i], after) \/ ReadRecovery(t, after)
      BY <1>1, <2>5 DEF ReadWake, ReadRecovery, ledgerVars, reportVars
    <2>6. CASE ps[i] = "episode" /\ EpisodePass(t, here, after)
      BY <2>3, <2>6, EpisodePassLives DEF HasWork
    <2>7. CASE Settle(t, after)
      BY <1>3, <2>7
    <2>8. CASE SettleStop(t, after)
      BY <2>8, StopLives DEF SettleStop
    <2>9. CASE Orphan(t, here, after)
      BY <1>4, <2>9
    <2>10. CASE RestartReport(t, after)
      BY <2>10, RestartsLives DEF RestartReport
    <2>11. CASE UNCHANGED <<ledgerVars, budget>>
      BY <1>1, <2>11 DEF ledgerVars, reportVars
    <2> QED  BY <1>6, <2>4, <2>5, <2>6, <2>7, <2>8, <2>9, <2>10, <2>11 DEF Pass, ps, i, here, after
  <1> QED  BY <1>5, <1>6

LEMMA ThreadLives ==
    ASSUME IInv, NEW t \in Threads, Thread(t)
    PROVE  LifeMoves(ep[This], ep'[This])
  <1>1. CASE UNCHANGED ep
    BY <1>1, SameRecord
  <1>2. CASE Claim(t)
    <2>1. CASE /\ WakeAccepted(thr[t].notices, thr[t].letters)
               /\ \E o \in Ops : create_auto_research_lifecycle_wake_task(o, thr[t].notices, thr[t].letters)
      <3>1. Accepting /\ Affordable /\ ep' = [ep EXCEPT ![This].used = @ + 1]
        BY <2>1 DEF WakeAccepted, create_auto_research_lifecycle_wake_task, Pay
      <3> QED  BY <3>1, PayLives
    <2> QED  BY <1>1, <1>2, <2>1 DEF Claim, reportVars
  <1>3. CASE FenceExhausted(t)
    <2>1. CASE FenceAccepted(This, "exhausted") /\ fence_episode_ending(This, "exhausted")
      BY <2>1, AcceptedFenceLives DEF Endings
    <2> QED  BY <1>1, <1>3, <2>1 DEF FenceExhausted
  <1>4. CASE StopAbandoned(t)
    BY <1>4, StopLives DEF StopAbandoned
  <1>5. CASE Redriven(t) \/ Retry(t) \/ Complete(t) \/ RetryFailed(t)
    BY <1>1, <1>5 DEF Redriven, Retry, Complete, RetryFailed, reportVars
  <1> QED  BY <1>2, <1>3, <1>4, <1>5, PassLives DEF Thread

LEMMA OthersLive ==
    ASSUME IInv, [Next]_vars, ~Serve, ~\E t \in Threads : Thread(t)
    PROVE  LifeMoves(ep[This], ep'[This])
  <1>1. CASE UNCHANGED ep
    BY <1>1, SameRecord
  <1>2. Episodes = {This} /\ This \in Episodes /\ ep \in [Episodes -> Episode]
    BY Parts, OneEpisode DEF Shape
  <1>3. CASE Report
    BY <1>3, ReportLives DEF Report
  <1>4. CASE Authorize
    <2>1. /\ ep[This].status = "none"
          /\ ep' = [ep EXCEPT ![This].status = "running", ![This].used = 1, ![This].ceiling = plan.ceiling]
      BY <1>4 DEF Authorize, create_auto_research_episode_with_root_task
    <2>2. ep'[This].status = "running" /\ ep'[This].used = 1 /\ ep'[This].ending = ep[This].ending
      BY <1>2, <2>1 DEF Episode
    <2> QED  BY <2>1, <2>2 DEF LifeMoves
  <1>5. CASE RequestStop
    <2>1. /\ ep[This].status \in {"running", "stopping"}
          /\ ep' = [ep EXCEPT ![This].status = "stopping", ![This].stop = TRUE]
      BY <1>5 DEF RequestStop, StopAccepted, request_episode_stop
    <2>2. ep'[This].status = "stopping" /\ ep'[This].used = ep[This].used /\ ep'[This].ending = ep[This].ending
      BY <1>2, <2>1 DEF Episode
    <2> QED  BY <2>1, <2>2 DEF LifeMoves, SameLife
  <1>6. CASE Restart
    <2>1. PICK graceful \in BOOLEAN : ep' = [e \in Episodes |-> EpisodeLeft(e, graceful)]
      BY <1>6 DEF Restart
    <2>2. SameLife(ep[This], ep'[This])
      BY <1>2, <2>1 DEF EpisodeLeft, SameLife, Episode
    <2> QED  BY <2>2 DEF LifeMoves
  <1>7. CASE \E o \in Ops : TurnEnds(o) \/ TurnFails(o) \/ PersonAbandons(o)
    BY <1>1, <1>7 DEF TurnEnds, TurnFails, PersonAbandons, EndsAs, reportVars
  <1>8. CASE \E o \in Ops, k \in Keys : Issue(o, k) \/ Repeat(o, k)
    BY <1>1, <1>8 DEF Issue, Repeat, ledgerVars, reportVars
  <1>9. CASE (\E m \in Messages : SendMail(m)) \/ \E o, c \in Ops : PersonRecovers(o, c)
    BY <1>1, <1>9 DEF SendMail, PersonRecovers, reportVars
  <1>10. CASE UNCHANGED vars
    BY <1>1, <1>10 DEF vars, ledgerVars, reportVars
  <1> QED  BY <1>3, <1>4, <1>5, <1>6, <1>7, <1>8, <1>9, <1>10 DEF Next, System

(* Auto-research is an episode as every mode promises one: it spends at most what it was
   given, only while it is running; it is fenced once, by Stop or by one ending; it ends as
   that fence says and stays ended (storage/episodes.py). *)
THEOREM AutoResearchIsAnEpisode == Spec => LifecycleSpec
  <1>1. Init => Lifecycle!Init
    BY DEF Init, LedgerInit, ReportsInit, NoEpisode, Lifecycle!Init
  <1>2. IInv /\ [Next]_vars => [Lifecycle!Next]_(Lifecycle!lifecycleVars)
    BY InvStep, LifeStep, ServeLives, ThreadLives, OthersLive
  <1> QED  BY <1>1, <1>2, InvAlways, PTL DEF Spec, LifecycleSpec, Lifecycle!Spec
=============================================================================
