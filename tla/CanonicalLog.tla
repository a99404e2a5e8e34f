---------------------------- MODULE CanonicalLog ----------------------------
(***************************************************************************)
(* What a project's canonical history promises: a log of patches that only *)
(* grows, one revision at a time, each patch admitted against exactly the  *)
(* history it follows and written by the space that is the project's home  *)
(* there.  The servers, mirrors, locks and channels that maintain the log  *)
(* are in GraphHistory.                                                    *)
(***************************************************************************)
EXTENDS Integers

CONSTANTS
    Spaces,      \* the spaces that may hold the project
    Nobody,      \* no space
    NoPatch,     \* a revision that is not written
    MaxRevision, \* revisions of the log
    MaxAppends,  \* patches that are ever written
    Origin       \* the log at the beginning

Revisions == 1..MaxRevision

(* A patch is known by its number (0 for one from before), written by a space
   against revision base; home is the project's home once it is applied. *)
Patches == [id : 0..MaxAppends, kind : {"claim", "edit", "transfer"},
            by : Spaces, home : Spaces, base : 0..MaxRevision]

Logs == [Revisions -> Patches \cup {NoPatch}]

(* The last revision whose patch file exists, 0 if none does. *)
LastRevision(f) ==
    LET written == {r \in Revisions : f[r] # NoPatch} IN
    IF written = {} THEN 0 ELSE CHOOSE r \in written : \A q \in written : q <= r

(* The home that replaying f yields. *)
HomeOf(f) == IF LastRevision(f) = 0 THEN Nobody ELSE f[LastRevision(f)].home

(* Only an unclaimed project is claimed, only its home writes or moves it. *)
Writable(f, kind, s) == HomeOf(f) = IF kind = "claim" THEN Nobody ELSE s

Admits(f, p) ==
    /\ p.base = LastRevision(f)
    /\ Writable(f, p.kind, p.by)
    /\ p.kind = "transfer" \/ p.home = p.by

ASSUME LogAssumption ==
    /\ MaxRevision \in Nat
    /\ MaxAppends \in Nat
    /\ Nobody \notin Spaces
    /\ NoPatch \notin Patches \cup Logs
    /\ Origin \in Logs
    /\ \E n \in 0..MaxRevision : \A r \in Revisions : Origin[r] # NoPatch <=> r <= n
    /\ \A r \in Revisions : Origin[r] # NoPatch => Origin[r].id = 0

VARIABLE log     \* the patch at each revision of the canonical repository

LogInit == log = Origin

Commit(r) ==
    /\ r = LastRevision(log) + 1
    /\ log'[r] \in Patches
    /\ Admits(log, log'[r])
    /\ log' = [log EXCEPT ![r] = log'[r]]

(***************************************************************************)
(* The canonical history only ever grows by the next revision, and the     *)
(* patch there was admitted against the whole history before it.           *)
(***************************************************************************)
LogSpec == LogInit /\ [][\E r \in Revisions : Commit(r)]_log
=============================================================================
