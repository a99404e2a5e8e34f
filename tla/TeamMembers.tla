---------------------------- MODULE TeamMembers ----------------------------
(***************************************************************************)
(* The people of a team space and what they may reach: enrollment by a      *)
(* bootstrap code or an invitation, permanent tokens and browser sessions,  *)
(* seats on projects and invitations to them, and the access fence of a     *)
(* member removal.  Every operation is one write transaction of the store.  *)
(*                                                                         *)
(* Source: storage/spaces.py, projects.py (_seat_first_member).            *)
(***************************************************************************)
EXTENDS Integers, Sequences, FiniteSets

CONSTANTS
    Members,    \* people who may ever enroll
    Projects,
    Codes,      \* enrollment codes that are ever created
    Bootstrap,  \* the one among them the server was initialised with
    Founders,   \* those enrolled so far, in this order, seated on every project
    TEAM_CODE_FAILED_ATTEMPT_LIMIT,
    NoOne

ASSUME MemberAssumption ==
    /\ NoOne \notin Members /\ Bootstrap \in Codes
    /\ IsFiniteSet(Members) /\ IsFiniteSet(Projects) /\ IsFiniteSet(Codes)
    /\ Founders \in Seq(Members)
    /\ \A i, j \in DOMAIN Founders : Founders[i] = Founders[j] => i = j
    /\ TEAM_CODE_FAILED_ATTEMPT_LIMIT \in Nat \ {0}

VARIABLES
    user,     \* absent, active, removing or removed
    order,    \* the members in the order they enrolled
    token,    \* members with a permanent token that is not revoked
    session,  \* members with a browser session
    code,     \* enrollment codes
    seats,    \* members of each project
    invited   \* pending project invitations: <<project, invitee, inviter>>

teamVars == <<user, order, token, session, code, seats, invited>>

Active(m) == user[m] = "active"

(* _active_enrolled_member_ids and _active_project_member_ids. *)
Authenticating == {m \in token : Active(m)}
AuthenticatingIn(p) == seats[p] \cap Authenticating

(* A space just initialised, or one its founders have claimed and signed in to. *)
TeamInit ==
    LET in == {Founders[i] : i \in DOMAIN Founders}
    IN  /\ user = [m \in Members |-> IF m \in in THEN "active" ELSE "absent"]
        /\ order = Founders
        /\ token = in /\ session = in
        /\ code = [c \in Codes |-> [by |-> NoOne, fails |-> 0,
                      state |-> IF c # Bootstrap THEN "none" ELSE IF in = {} THEN "open" ELSE "consumed"]]
        /\ seats = [p \in Projects |-> in] /\ invited = {}

-----------------------------------------------------------------------------
(* enroll_team_member: a code is consumed once; the bootstrap code only claims
   an empty space.  A project nobody is seated on falls to whoever enrolls. *)
enroll_team_member(m, c) ==
    /\ user[m] = "absent" /\ code[c].state = "open"
    /\ c = Bootstrap => order = <<>>
    /\ user' = [user EXCEPT ![m] = "active"]
    /\ order' = Append(order, m)
    /\ token' = token \cup {m}
    /\ code' = [code EXCEPT ![c].state = "consumed"]
    /\ seats' = [p \in Projects |-> IF seats[p] = {} THEN {m} ELSE seats[p]]
    /\ UNCHANGED <<session, invited>>

(* A wrong secret counts against the code, the last allowed one locks it. *)
FailedAttempt(c) ==
    /\ code[c].state = "open"
    /\ code' = [code EXCEPT ![c] = [by |-> code[c].by, fails |-> code[c].fails + 1,
                                    state |-> IF code[c].fails + 1 >= TEAM_CODE_FAILED_ATTEMPT_LIMIT
                                                THEN "locked" ELSE "open"]]
    /\ UNCHANGED <<user, order, token, session, seats, invited>>

create_team_invitation(m, c) ==
    /\ Active(m) /\ code[c].state = "none"
    /\ code' = [code EXCEPT ![c].state = "open", ![c].by = m]
    /\ UNCHANGED <<user, order, token, session, seats, invited>>

(* The clock passes the expiry of an invitation; a bootstrap code has none. *)
InvitationExpires(c) ==
    /\ c # Bootstrap /\ code[c].state = "open"
    /\ code' = [code EXCEPT ![c].state = "expired"]
    /\ UNCHANGED <<user, order, token, session, seats, invited>>

create_team_session(m) ==
    /\ m \in token /\ Active(m) /\ m \notin session
    /\ session' = session \cup {m}
    /\ UNCHANGED <<user, order, token, code, seats, invited>>

(* delete_team_session, or an idle session found expired by the next request. *)
delete_team_session(m) ==
    /\ m \in session
    /\ session' = session \ {m}
    /\ UNCHANGED <<user, order, token, code, seats, invited>>

(* resolve_team_session for a member whose removal has begun. *)
resolve_team_session(m) == m \in session /\ Active(m)

(* Mutant: a rotation does not look at the member's state again. *)
rotate_team_token_Unchecked(m) ==
    /\ user[m] # "absent"
    /\ token' = token \cup {m} /\ session' = session \ {m}
    /\ UNCHANGED <<user, order, code, seats, invited>>

(* rotate_team_token: the new token replaces the old one and every session. *)
rotate_team_token(m) ==
    /\ resolve_team_session(m)
    /\ token' = token \cup {m} /\ session' = session \ {m}
    /\ UNCHANGED <<user, order, code, seats, invited>>

(* Mutant: a credential may be revoked whoever is left. *)
Revocable_Always(m) == TRUE

(* _require_token_revocation_safe, and the blockers of a removal: someone else
   can authenticate, in the space and in each of the member's projects. *)
Revocable(m) ==
    m \in token => /\ Authenticating \ {m} # {}
                   /\ \A p \in Projects : m \in seats[p] => AuthenticatingIn(p) \ {m} # {}

revoke_team_token(m) ==
    /\ resolve_team_session(m) /\ Revocable(m)
    /\ token' = token \ {m} /\ session' = session \ {m}
    /\ UNCHANGED <<user, order, code, seats, invited>>

-----------------------------------------------------------------------------
(* Seats. *)

(* The enrolled members up to the first whose removal has begun. *)
SeatableBefore ==
    {order[i] : i \in {j \in DOMAIN order : \A k \in 1..j : Active(order[k])}}

(* _seat_first_member: the first member is whoever opens the project; opened
   from a console in a team space every user is seated in turn, and the first
   one who is not active ends it with a KeyError. *)
seat_first_member(p) ==
    /\ seats[p] = {}
    /\ \/ \E m \in Members : resolve_team_session(m) /\ seats' = [seats EXCEPT ![p] = {m}]
       \/ seats' = [seats EXCEPT ![p] = SeatableBefore]
    /\ UNCHANGED <<user, order, token, session, code, invited>>

invite_to_project(p, m, by) ==
    /\ resolve_team_session(by) /\ Active(m)
    /\ by \in seats[p] /\ m \notin seats[p]
    /\ ~\E q \in invited : q[1] = p /\ q[2] = m
    /\ invited' = invited \cup {<<p, m, by>>}
    /\ UNCHANGED <<user, order, token, session, code, seats>>

answer_project_invitation(q, accepts) ==
    /\ q \in invited /\ resolve_team_session(q[2])
    /\ invited' = invited \ {q}
    /\ seats' = IF accepts THEN [seats EXCEPT ![q[1]] = @ \cup {q[2]}] ELSE seats
    /\ UNCHANGED <<user, order, token, session, code>>

(* leave_project: the last member of a project stays, whether or not the
   others can authenticate. *)
leave_project(p, m) ==
    /\ resolve_team_session(m) /\ m \in seats[p] /\ seats[p] # {m}
    /\ seats' = [seats EXCEPT ![p] = @ \ {m}]
    /\ invited' = {q \in invited : ~(q[1] = p /\ q[2] = m)}
    /\ UNCHANGED <<user, order, token, session, code>>

-----------------------------------------------------------------------------
(* begin_member_removal, what it writes: the fence and every capability the
   member holds, in one transaction. *)
AccessFence(m) ==
    /\ user' = [user EXCEPT ![m] = "removing"]
    /\ token' = token \ {m} /\ session' = session \ {m}
    /\ code' = [c \in Codes |-> IF code[c].by = m /\ code[c].state \in {"open", "locked", "expired"}
                                  THEN [code[c] EXCEPT !.state = "revoked"] ELSE code[c]]
    /\ invited' = {q \in invited : m \notin {q[2], q[3]}}
    /\ seats' = [p \in Projects |-> seats[p] \ {m}]
    /\ UNCHANGED order

TeamNext ==
    \/ \E m \in Members, c \in Codes : enroll_team_member(m, c) \/ create_team_invitation(m, c)
    \/ \E c \in Codes : FailedAttempt(c) \/ InvitationExpires(c)
    \/ \E m \in Members : \/ create_team_session(m) \/ delete_team_session(m)
                          \/ rotate_team_token(m) \/ revoke_team_token(m)
    \/ \E p \in Projects : \/ seat_first_member(p)
                           \/ \E m, by \in Members : invite_to_project(p, m, by)
    \/ \E q \in invited, accepts \in BOOLEAN : answer_project_invitation(q, accepts)

-----------------------------------------------------------------------------
TeamTypeOK ==
    /\ user \in [Members -> {"absent", "active", "removing", "removed"}]
    /\ \A i, j \in DOMAIN order : order[i] = order[j] => i = j
    /\ token \subseteq Members /\ session \subseteq Members
    /\ seats \in [Projects -> SUBSET Members]
    /\ invited \subseteq Projects \X Members \X Members
    /\ \A c \in Codes : /\ code[c].by \in Members \cup {NoOne}
                        /\ code[c].fails \in 0..TEAM_CODE_FAILED_ATTEMPT_LIMIT

(* A member whose removal has begun holds nothing that lets anyone in, and no
   later enrollment, rotation, seat or answer gives any of it back. *)
AccessStaysRevoked ==
    \A m \in Members : user[m] \in {"removing", "removed"} =>
        /\ m \notin token \cup session
        /\ \A p \in Projects : m \notin seats[p]
        /\ \A q \in invited : m \notin {q[2], q[3]}
        /\ \A c \in Codes : code[c].by = m => code[c].state # "open"

(* Once the space is claimed someone can always authenticate, whatever is
   revoked and whoever is removed, in any order. *)
SomeoneCanEnter == order # <<>> => Authenticating # {}

(* Removals and rotations take exactly what they should. *)
AccessIsRight == AccessStaysRevoked /\ SomeoneCanEnter
=============================================================================
