---------------------------- MODULE BranchMerge -----------------------------
(***************************************************************************)
(* The graph branch of one Auto-research episode and its merges to main:   *)
(* the branch cut from an exact head of main, the turns that write it, and *)
(* a merge task that reads branch and main without a lock, lets an agent   *)
(* write a candidate, and appends it to main under the append lock at the  *)
(* head the candidate was written for.                                     *)
(*                                                                         *)
(* A graph is a function of its fields; an entity that is created or       *)
(* removed is a field that gets or loses its value.  A publication to the  *)
(* remote repository whose outcome was not seen may land later, while no   *)
(* other holder of the append lock can start (see GraphHistory).           *)
(*                                                                         *)
(* Source: history/branches.py, history/manager.py, runs/branch_merge.py,  *)
(* runs/tasks/branch_merge.py, runs/branch_merge_admission.py,             *)
(* api/episode_branches.py, storage/agent_tasks.py.                        *)
(***************************************************************************)
EXTENDS Integers, Sequences, FiniteSets

CONSTANTS
    Fields,          \* what a graph has values for
    Values,          \* what a field can hold
    AgentValues,     \* the values agents write, on the branch and in a candidate
    MaxMerges,       \* the merges a human asks for
    MaxRebases,      \* MAX_BRANCH_MERGE_REBASE_ROUNDS
    MaxCorrections,  \* PATCH_CORRECTION_MAX_ROUNDS
    MaxWrites,       \* the most writes of the branch in any budget
    Budgets          \* how often each thing outside the merge happens

(* Edits of main, writes of the branch, faulty publications, crashes. *)
Events == {"edits", "writes", "faults", "crashes"}

ASSUME MergeAssumption ==
    /\ Values \subseteq Nat /\ 0 \in Values /\ AgentValues \subseteq Values
    /\ {MaxMerges, MaxRebases, MaxCorrections} \subseteq Nat
    /\ MaxWrites \in Nat /\ Budgets \subseteq [Events -> Nat]
    /\ \A b \in Budgets : b["writes"] <= MaxWrites

VARIABLES
    main,      \* the accepted patches of main: the graph after each, the branch head it merged
    branch,    \* the graph after each patch of the branch, its base first
    receipts,  \* branches/<id>/merges/<merge id>.json
    late,      \* a publication reported as failed that the remote machine still holds
    base,      \* graph_base_head of the episode
    phase,     \* the episode
    writer,    \* the graph-capable turn on the branch: none, working, or its patch is made
    run,       \* the merge tasks
    left       \* what remains of the budget

history == <<main, branch, receipts, late>>
episode == <<base, phase, writer>>
bmVars == <<history, episode, run, left>>

Keep == -1
NoMerge == 0
Merges == 1..MaxMerges
Heads == 1..(MaxWrites + 1)
MainRevisions == Nat \ {0}
Graphs == [Fields -> Values]
AgentPatches == [Fields -> AgentValues \cup {Keep}]
Empty == [f \in Fields |-> Keep]

NoReceipt == [outcome |-> "none", revision |-> 0]
Committed(r) == [outcome |-> "committed", revision |-> r]
NoChange(r) == [outcome |-> "no_change", revision |-> r]
Receipts == [outcome : {"committed", "no_change"}, revision : MainRevisions] \cup {NoReceipt}

(* A candidate that could not be read as a patch has a problem instead. *)
Problem == [ok |-> FALSE, ops |-> Empty]
Candidates == [ok : {TRUE}, ops : AgentPatches] \cup {Problem}

NoPublication == [what |-> "nothing"]
Patch(g, h) == [what |-> "main", graph |-> g, merge |-> h]
BranchPatch(g) == [what |-> "branch", graph |-> g]
Receipt(h, x) == [what |-> "receipt", head |-> h, receipt |-> x]
BranchFile == [what |-> "create"]

NoRun == [status |-> "none", pc |-> "none", head |-> 1, rev |-> 0, cand |-> Problem,
          session |-> FALSE, rebases |-> 0, corrections |-> 0, receipt |-> NoReceipt]
Ended(status, h) == [NoRun EXCEPT !.status = status, !.head = h]

Active(m) == run[m].status \in {"queued", "running"}
BranchTip == Len(branch)
Tip == Len(main)

BMInit ==
    /\ main = <<[graph |-> [f \in Fields |-> 0], merge |-> NoMerge]>>
    /\ branch = <<>>
    /\ receipts = [h \in Heads |-> NoReceipt]
    /\ late = NoPublication
    /\ base = 0 /\ phase = "none" /\ writer = "none"
    /\ run = [m \in Merges |-> NoRun]
    /\ left \in Budgets

-----------------------------------------------------------------------------
(* Publication under the append lock. *)

Spend(event) == left[event] > 0 /\ left' = [left EXCEPT ![event] = @ - 1]

Lands(x) ==
    /\ main' = IF x.what = "main" THEN Append(main, [graph |-> x.graph, merge |-> x.merge])
                                  ELSE main
    /\ branch' = CASE x.what = "branch" -> Append(branch, x.graph)
                   [] x.what = "create" -> <<main[base].graph>>
                   [] OTHER -> branch
    /\ receipts' = IF x.what = "receipt" THEN [receipts EXCEPT ![x.head] = x.receipt]
                                         ELSE receipts

(* Seen to land, or an error: absent, or unknown and perhaps still to come. *)
Publish(x, Confirmed, Failed) ==
    \/ Lands(x) /\ Confirmed /\ UNCHANGED <<late, left>>
    \/ /\ Spend("faults")
       /\ Failed
       /\ late' \in {NoPublication, x}
       /\ UNCHANGED <<main, branch, receipts>>

(* The holder of the remote lock finishes what it was sent, or dies first. *)
LateSettles ==
    /\ late # NoPublication
    /\ late' = NoPublication
    /\ \/ Lands(late)
       \/ UNCHANGED <<main, branch, receipts>>
    /\ UNCHANGED <<episode, run, left>>

Unlocked == late = NoPublication

(* A change of main by a person or by another turn. *)
Edit(f, v) ==
    /\ Unlocked
    /\ Spend("edits")
    /\ main[Tip].graph[f] # v
    /\ main' = Append(main, [graph |-> [main[Tip].graph EXCEPT ![f] = v], merge |-> NoMerge])
    /\ UNCHANGED <<branch, receipts, late, episode, run>>

-----------------------------------------------------------------------------
(* The branch of the episode. *)

reserve_auto_research ==
    /\ phase = "none"
    /\ phase' = "reserved" /\ base' = Tip
    /\ UNCHANGED <<history, writer, run, left>>

(* Cut from the exact current head of main or not at all; a reservation
   found again at startup uses the branch it already made. *)
create_auto_research_branch ==
    /\ phase = "reserved"
    /\ Unlocked
    /\ IF branch # <<>> THEN phase' = "running" /\ UNCHANGED <<history, left>>
       ELSE IF base # Tip THEN phase' = "failed" /\ UNCHANGED <<history, left>>
       ELSE Publish(BranchFile, phase' \in {"running", "reserved"}, phase' = "failed")
    /\ UNCHANGED <<base, writer, run>>

(* The episode's own turns, and after its ending the recovery of a child's. *)
WriterStarts ==
    /\ phase \in {"running", "ended"} /\ writer = "none"
    /\ Spend("writes")
    /\ writer' = "working"
    /\ UNCHANGED <<history, base, phase, run>>

WriterEnds ==
    /\ writer # "none" /\ writer' = "none"
    /\ UNCHANGED <<history, base, phase, run, left>>

branch_append(g) ==
    /\ writer = "working"
    /\ Unlocked
    /\ Publish(BranchPatch(g), writer' = "wrote", writer' = "wrote")
    /\ UNCHANGED <<base, phase, run>>

EpisodeEnds ==
    /\ phase = "running" /\ writer = "none"
    /\ phase' = "ended"
    /\ UNCHANGED <<history, base, writer, run, left>>

-----------------------------------------------------------------------------
(* What a branch head changes, and what of it main must take. *)

build_semantic_delta(h) == {f \in Fields : branch[h][f] # branch[1][f]}

detect_branch_merge_conflicts(h, r) ==
    {f \in build_semantic_delta(h) : main[r].graph[f] \notin {branch[1][f], branch[h][f]}}

Mandatory(h, r) == build_semantic_delta(h) \ detect_branch_merge_conflicts(h, r)

Carries(g, h, fs) == \A f \in fs : g[f] = branch[h][f]

semantic_delta_is_subsumed(h, r) == Carries(main[r].graph, h, build_semantic_delta(h))

branch_merge_can_resolve_without_patch(h, r) == Carries(main[r].graph, h, Mandatory(h, r))

Result(g, ops) == [f \in Fields |-> IF ops[f] = Keep THEN g[f] ELSE ops[f]]

validate_branch_merge_candidate_conformance(h, r, ops) ==
    /\ \A f \in Fields : ops[f] # Keep => f \in build_semantic_delta(h)
    /\ Carries(Result(main[r].graph, ops), h, Mandatory(h, r))

(* Mutant: only the newest patch of main is looked at. *)
MergedAt_Newest(h) == IF main[Tip].merge = h THEN Tip ELSE 0

(* The revision of main that merged a head, none if 0. *)
MergedAt(h) ==
    LET rs == {r \in 1..Tip : main[r].merge = h} IN IF rs = {} THEN 0 ELSE CHOOSE r \in rs : TRUE

(* The receipt read for a head: the file, or the one its patch of main implies. *)
_read_branch_snapshot(h) == IF MergedAt(h) # 0 THEN Committed(MergedAt(h)) ELSE receipts[h]

-----------------------------------------------------------------------------
(* Asking for a merge. *)

RunGoes(m, from, to) == run[m].pc = from /\ run' = [run EXCEPT ![m].pc = to]

(* merge_eligible of the summary, read before the task is admitted. *)
merge_episode_branch(m) ==
    /\ run[m].status = "none"
    /\ m > 1 => run[m - 1].status # "none" \/ run[m - 1].pc = "admitting"
    /\ phase = "ended"
    /\ BranchTip > 1 /\ writer = "none"
    /\ \A n \in Merges : ~Active(n)
    /\ _read_branch_snapshot(BranchTip) = NoReceipt
    /\ RunGoes(m, "none", "admitting")
    /\ UNCHANGED <<history, episode, left>>

(* One active merge of a branch, none beside a writer. *)
create_branch_merge_task(m) ==
    /\ run[m].pc = "admitting"
    /\ run' = [run EXCEPT ![m] =
           IF writer = "none" /\ \A n \in Merges : ~Active(n)
             THEN [NoRun EXCEPT !.status = "running", !.pc = "opening"]
             ELSE Ended("refused", 1)]
    /\ UNCHANGED <<history, episode, left>>

-----------------------------------------------------------------------------
(* The merge task. *)

(* load_context refuses a branch with an active writer; the task then fails. *)
Loads == writer = "none"

Fails(m) == run' = [run EXCEPT ![m] = Ended("failed", 1)]
Succeeds(m) == run' = [run EXCEPT ![m] = Ended("succeeded", run[m].head)]
Continue(m, to) == run' = [run EXCEPT ![m] = [to EXCEPT !.cand = Problem]]
Resolves(m, x) == run' = [run EXCEPT ![m].pc = "receipt", ![m].rev = 0, ![m].receipt = x,
                                     ![m].cand = Problem, ![m].session = FALSE,
                                     ![m].rebases = 0, ![m].corrections = 0]

(* The task opens its stage and the branch and looks for a settled merge. *)
reconcile_merge_receipt(m) ==
    /\ run[m].pc = "opening"
    /\ Unlocked
    /\ IF ~Loads THEN Fails(m)
       ELSE run' = [run EXCEPT ![m].head = BranchTip,
                               ![m].pc = IF receipts[BranchTip] # NoReceipt THEN "reported"
                                         ELSE IF MergedAt(BranchTip) # 0 THEN "receipt" ELSE "starting",
                               ![m].receipt = IF receipts[BranchTip] = NoReceipt /\ MergedAt(BranchTip) # 0
                                                THEN Committed(MergedAt(BranchTip)) ELSE NoReceipt]
    /\ UNCHANGED <<history, episode, left>>

(* stream_branch_merge_run takes its first context: nothing to merge, or a
   turn of the agent. *)
TakeContext(m) ==
    /\ run[m].pc = "starting"
    /\ IF ~Loads THEN Fails(m)
       ELSE IF semantic_delta_is_subsumed(BranchTip, Tip)
         THEN run' = [run EXCEPT ![m].pc = "receipt", ![m].head = BranchTip,
                                 ![m].receipt = NoChange(Tip)]
         ELSE run' = [run EXCEPT ![m].pc = "turn", ![m].head = BranchTip, ![m].rev = Tip]
    /\ UNCHANGED <<history, episode, left>>

(* A turn of the agent ends with a candidate, or without completing. *)
_provider_turn(m) ==
    /\ run[m].pc = "turn"
    /\ \/ \E c \in Candidates, s \in BOOLEAN :
            /\ run[m].session => s
            /\ run[m].rebases + run[m].corrections > 0 => run[m].session
            /\ run' = [run EXCEPT ![m].pc = "refreshing", ![m].cand = c, ![m].session = s]
       \/ \E status \in {"paused", "failed"} : run' = [run EXCEPT ![m] = Ended(status, 1)]
    /\ UNCHANGED <<history, episode, left>>

(* Mutant: the bound on corrections is not applied. *)
Correct_Unbounded(m) ==
    IF run[m].session
      THEN Continue(m, [run[m] EXCEPT !.pc = "turn",
                            !.corrections = IF @ < MaxCorrections THEN @ + 1 ELSE @])
      ELSE Fails(m)

(* A candidate with a problem goes back to the same session, twice at most. *)
Correct(m) ==
    IF run[m].session /\ run[m].corrections < MaxCorrections
      THEN Continue(m, [run[m] EXCEPT !.pc = "turn", !.corrections = @ + 1])
      ELSE Fails(m)

(* Main moved: the agent is given the new head, a bounded number of times. *)
Rebase(m) ==
    IF run[m].session /\ run[m].rebases < MaxRebases
      THEN Continue(m, [run[m] EXCEPT !.pc = "turn", !.rev = Tip, !.rebases = @ + 1])
      ELSE Fails(m)

(* Mutant: an empty candidate is taken for a resolution whatever it omits. *)
EmptyResolves_Always(m, r) == run[m].cand.ok /\ run[m].cand.ops = Empty

EmptyResolves(m, r) ==
    /\ run[m].cand.ok /\ run[m].cand.ops = Empty
    /\ branch_merge_can_resolve_without_patch(run[m].head, r)

(* classify_refreshed_context and what follows from it. *)
classify_refreshed_context(m) ==
    /\ run[m].pc = "refreshing"
    /\ IF ~Loads \/ BranchTip # run[m].head THEN Fails(m)
       ELSE IF Tip # run[m].rev
         THEN IF semantic_delta_is_subsumed(BranchTip, Tip) \/ EmptyResolves(m, Tip)
                THEN Resolves(m, NoChange(Tip))
                ELSE Rebase(m)
       ELSE IF EmptyResolves(m, Tip) THEN Resolves(m, NoChange(Tip))
       ELSE IF run[m].cand.ok /\ run[m].cand.ops # Empty
         THEN run' = [run EXCEPT ![m].pc = "preparing"]
         ELSE Correct(m)
    /\ UNCHANGED <<history, episode, left>>

(* Under the lock, without writing; a conflict of revisions reads again. *)
prepare_branch_merge_with_history(m) ==
    /\ run[m].pc = "preparing"
    /\ Unlocked
    /\ IF Tip # run[m].rev
         THEN IF Loads /\ BranchTip = run[m].head THEN RunGoes(m, "preparing", "refreshing") ELSE Fails(m)
       ELSE IF validate_branch_merge_candidate_conformance(run[m].head, Tip, run[m].cand.ops)
         THEN RunGoes(m, "preparing", "appending")
         ELSE Correct(m)
    /\ UNCHANGED <<history, episode, left>>

Appends(m) ==
    Publish(Patch(Result(main[Tip].graph, run[m].cand.ops), run[m].head),
            Resolves(m, Committed(Tip + 1)), Fails(m))

(* Mutant: the revision the candidate was written for is not compared. *)
append_AnyRevision(m) ==
    /\ run[m].pc = "appending"
    /\ Unlocked
    /\ IF MergedAt(run[m].head) # 0 \/ receipts[run[m].head] # NoReceipt
         THEN Resolves(m, _read_branch_snapshot(run[m].head)) /\ UNCHANGED <<history, left>>
         ELSE Appends(m)
    /\ UNCHANGED episode

(* The merge already committed or resolved, main elsewhere, or the append. *)
commit_branch_merge_with_history(m) ==
    /\ run[m].pc = "appending"
    /\ Unlocked
    /\ IF MergedAt(run[m].head) # 0 \/ receipts[run[m].head] # NoReceipt
         THEN Resolves(m, _read_branch_snapshot(run[m].head)) /\ UNCHANGED <<history, left>>
       ELSE IF Tip # run[m].rev
         THEN /\ IF Loads /\ BranchTip = run[m].head THEN RunGoes(m, "appending", "refreshing") ELSE Fails(m)
              /\ UNCHANGED <<history, left>>
         ELSE Appends(m)
    /\ UNCHANGED episode

(* The receipt main implies wins; a file already there must agree with it. *)
write_merge_receipt(m) ==
    /\ run[m].pc = "receipt"
    /\ Unlocked
    /\ LET h == run[m].head
           x == IF MergedAt(h) # 0 THEN Committed(MergedAt(h)) ELSE run[m].receipt
       IN IF receipts[h] # NoReceipt
            THEN /\ IF receipts[h] = x \/ {receipts[h].outcome, x.outcome} = {"no_change"}
                      THEN RunGoes(m, "receipt", "reported") ELSE Fails(m)
                 /\ UNCHANGED <<history, left>>
            ELSE IF x.outcome = "committed" /\ MergedAt(h) # x.revision
                   THEN Fails(m) /\ UNCHANGED <<history, left>>
            ELSE Publish(Receipt(h, x), RunGoes(m, "receipt", "reported"), Fails(m))
    /\ UNCHANGED episode

TaskSucceeds(m) ==
    /\ run[m].pc = "reported"
    /\ Succeeds(m)
    /\ UNCHANGED <<history, episode, left>>

(* The process dies: what the merge tasks and the turns held is gone. *)
Crash ==
    /\ Spend("crashes")
    /\ writer' = "none"
    /\ run' = [m \in Merges |-> IF Active(m) THEN Ended("interrupted", 1)
                                ELSE IF run[m].pc = "admitting" THEN NoRun ELSE run[m]]
    /\ UNCHANGED <<history, base, phase>>

-----------------------------------------------------------------------------
Task(m) ==
    \/ create_branch_merge_task(m)
    \/ reconcile_merge_receipt(m)
    \/ TakeContext(m)
    \/ _provider_turn(m)
    \/ classify_refreshed_context(m)
    \/ prepare_branch_merge_with_history(m)
    \/ commit_branch_merge_with_history(m)
    \/ write_merge_receipt(m)
    \/ TaskSucceeds(m)

BMNext ==
    \/ LateSettles
    \/ \E f \in Fields, v \in Values : Edit(f, v)
    \/ reserve_auto_research
    \/ create_auto_research_branch
    \/ WriterStarts
    \/ \E g \in [Fields -> AgentValues] : branch_append(g)
    \/ WriterEnds
    \/ EpisodeEnds
    \/ \E m \in Merges : merge_episode_branch(m) \/ Task(m)
    \/ Crash

Fairness == WF_bmVars(LateSettles) /\ \A m \in Merges : WF_bmVars(Task(m))

BMSpec == BMInit /\ [][BMNext]_bmVars /\ Fairness

-----------------------------------------------------------------------------
BMTypeOK ==
    /\ \A r \in 1..Tip : main[r].graph \in Graphs /\ main[r].merge \in Heads \cup {NoMerge}
    /\ Tip \in MainRevisions
    /\ BranchTip \in Heads \cup {0} /\ \A h \in 1..BranchTip : branch[h] \in Graphs
    /\ receipts \in [Heads -> Receipts]
    /\ base \in 0..Tip
    /\ phase \in {"none", "reserved", "running", "failed", "ended"}
    /\ writer \in {"none", "working", "wrote"}
    /\ \A m \in Merges :
         /\ run[m].status \in {"none", "running", "refused", "succeeded", "failed", "paused",
                               "interrupted"}
         /\ run[m].cand \in Candidates /\ run[m].receipt \in Receipts
         /\ run[m].rebases \in 0..MaxRebases /\ run[m].corrections \in 0..MaxCorrections

(* A branch head reaches main in at most one patch, whatever publications
   were lost or landed late and however often the merge was asked for
   (HistoryManager._append_locked, reconcile_merge_receipt). *)
MergedOnce == \A h \in Heads : Cardinality({r \in 1..Tip : main[r].merge = h}) <= 1

(* A merge patch takes every change of the branch that does not conflict
   with the main it was appended to, and touches nothing the branch did not
   change, although both were read without a lock while main moved
   (stream_branch_merge_run, validate_branch_merge_candidate_conformance). *)
MergeKeepsBothSides ==
    \A r \in 2..Tip : main[r].merge # NoMerge =>
        LET h == main[r].merge IN
        /\ Carries(main[r].graph, h, Mandatory(h, r - 1))
        /\ \A f \in Fields \ build_semantic_delta(h) : main[r].graph[f] = main[r - 1].graph[f]

(* A receipt on disk is true: the patch it names merged that head, or the
   head of main it names needs nothing of the branch and no patch ever
   merged it; otherwise the branch cannot be read any more
   (write_merge_receipt, _read_branch_snapshot). *)
ReceiptsAreTrue ==
    \A h \in Heads :
        /\ receipts[h].outcome = "committed" => MergedAt(h) = receipts[h].revision
        /\ receipts[h].outcome = "no_change" =>
             /\ MergedAt(h) = 0
             /\ Carries(main[receipts[h].revision].graph, h, Mandatory(h, receipts[h].revision))

(* A merge reported as done is on record for the head it was about
   (stream_branch_merge_task). *)
SuccessIsOnRecord ==
    \A m \in Merges : run[m].status = "succeeded" => receipts[run[m].head] # NoReceipt

(* What the history and the receipts say of a merge agrees, for every head and task. *)
MergesAreOnRecord == BMTypeOK /\ MergedOnce /\ ReceiptsAreTrue /\ SuccessIsOnRecord

(* A merge task ends: corrections and rebases are bounded even while main
   keeps moving (stream_branch_merge_run). *)
MergeTaskEnds == \A m \in Merges : Active(m) ~> ~Active(m)

(* The merge of a head is decided once and the decision stands. *)
Resolution == INSTANCE BranchResolution WITH
    Heads <- Heads, Revisions <- MainRevisions,
    resolution <- [h \in Heads |->
        LET x == _read_branch_snapshot(h) IN
        [outcome |-> IF x = NoReceipt THEN "open" ELSE x.outcome, revision |-> x.revision]]
ResolutionSpec == Resolution!ResolutionSpec
=============================================================================
