--------------------------- MODULE MemberWorkProofs ---------------------------
(***************************************************************************)
(* For any number of people, projects, turns, episodes and requests: a     *)
(* removed member gets no access back, work a member had does not outlive  *)
(* the removal, and turns and files of one conversation do not mix.        *)
(***************************************************************************)
EXTENDS MemberWork, TLAPS

-----------------------------------------------------------------------------
(* People and what they may reach. *)

UserStates == {"absent", "active", "removing", "removed"}
CodeStates == {"none", "open", "locked", "expired", "consumed", "revoked"}
CodeRows == [by : Members \cup {NoOne}, fails : 0..TEAM_CODE_FAILED_ATTEMPT_LIMIT, state : CodeStates]

TeamType ==
    /\ user \in [Members -> UserStates]
    /\ order \in Seq(Members)
    /\ token \subseteq Members /\ session \subseteq Members
    /\ seats \in [Projects -> SUBSET Members]
    /\ invited \subseteq Projects \X Members \X Members
    /\ code \in [Codes -> CodeRows]

(* Who is enrolled is in the order once, and a code that is open can still be tried. *)
Enrolled ==
    /\ \A i \in DOMAIN order : user[order[i]] # "absent"
    /\ \A i, j \in DOMAIN order : order[i] = order[j] => i = j
    /\ \A c \in Codes : /\ code[c].state = "open" => code[c].fails < TEAM_CODE_FAILED_ATTEMPT_LIMIT
                        /\ code[c].state = "none" => code[c].fails = 0

TeamInv == TeamType /\ Enrolled /\ AccessIsRight

LEMMA TeamConstants ==
    /\ NoOne \notin Members /\ Bootstrap \in Codes /\ Founders \in Seq(Members)
    /\ \A i, j \in DOMAIN Founders : Founders[i] = Founders[j] => i = j
    /\ TEAM_CODE_FAILED_ATTEMPT_LIMIT \in Nat /\ TEAM_CODE_FAILED_ATTEMPT_LIMIT >= 1
  BY MemberAssumption

LEMMA TeamStart == TeamInit => TeamInv
  <1> SUFFICES ASSUME TeamInit PROVE TeamInv
    OBVIOUS
  <1> DEFINE in == {Founders[i] : i \in DOMAIN Founders}
  <1>1. in \subseteq Members /\ Founders \in Seq(Members)
    BY TeamConstants
  <1>2. TeamType
    <2>1. code \in [Codes -> CodeRows]
      BY TeamConstants DEF TeamInit, CodeRows, CodeStates
    <2> QED BY <1>1, <2>1 DEF TeamType, TeamInit, UserStates
  <1>3. Enrolled
    <2>1. \A c \in Codes : code[c].fails = 0
      BY DEF TeamInit
    <2>2. \A i \in DOMAIN order : order[i] \in in /\ order[i] \in Members
      BY <1>1 DEF TeamInit
    <2>3. \A i \in DOMAIN order : user[order[i]] # "absent"
      BY <2>2 DEF TeamInit
    <2> QED BY <2>1, <2>3, TeamConstants DEF Enrolled, TeamInit
  <1>4. AccessStaysRevoked
    BY DEF AccessStaysRevoked, TeamInit
  <1>5. SomeoneCanEnter
    <2> SUFFICES ASSUME order # <<>> PROVE Authenticating # {}
      BY DEF SomeoneCanEnter
    <2>1. 1 \in DOMAIN Founders /\ Founders[1] \in in /\ Founders[1] \in Members
      BY <1>1 DEF TeamInit
    <2>2. Founders[1] \in token /\ user[Founders[1]] = "active"
      BY <2>1 DEF TeamInit
    <2> QED BY <2>2 DEF Authenticating, Active
  <1> QED BY <1>2, <1>3, <1>4, <1>5 DEF TeamInv, AccessIsRight

LEMMA TeamSame == ASSUME TeamInv, UNCHANGED teamVars PROVE TeamInv'
  BY DEF TeamInv, teamVars, TeamType, Enrolled, AccessIsRight, AccessStaysRevoked,
         SomeoneCanEnter, Authenticating, Active

LEMMA EnrollKeeps ==
    ASSUME TeamInv, NEW m \in Members, NEW c \in Codes, enroll_team_member(m, c)
    PROVE  TeamInv'
  <1>1. TeamType'
    <2>1. order' \in Seq(Members)
      BY DEF TeamInv, TeamType, enroll_team_member
    <2>2. code' \in [Codes -> CodeRows]
      BY DEF TeamInv, TeamType, enroll_team_member, CodeRows, CodeStates
    <2>3. seats' \in [Projects -> SUBSET Members]
      BY DEF TeamInv, TeamType, enroll_team_member
    <2> QED BY <2>1, <2>2, <2>3 DEF TeamInv, TeamType, enroll_team_member, UserStates
  <1>2. Enrolled'
    <2>1. /\ DOMAIN order' = 1..(Len(order) + 1) /\ DOMAIN order = 1..Len(order) /\ Len(order) \in Nat
          /\ order'[Len(order) + 1] = m /\ \A i \in DOMAIN order : order'[i] = order[i]
      BY DEF TeamInv, TeamType, enroll_team_member
    <2>2. \A i \in DOMAIN order : order[i] # m /\ order[i] \in Members
      BY DEF TeamInv, TeamType, Enrolled, enroll_team_member
    <2>3. \A i \in DOMAIN order' : i \in DOMAIN order \/ i = Len(order) + 1
      BY <2>1
    <2>4. \A i, j \in DOMAIN order' : order'[i] = order'[j] => i = j
      BY <2>1, <2>2, <2>3 DEF TeamInv, Enrolled
    <2>5. \A i \in DOMAIN order' : user'[order'[i]] # "absent"
      BY <2>1, <2>2, <2>3 DEF TeamInv, TeamType, Enrolled, enroll_team_member
    <2>6. \A k \in Codes : code'[k].fails = code[k].fails /\ code'[k].state \in {code[k].state, "consumed"}
      BY DEF TeamInv, TeamType, CodeRows, enroll_team_member
    <2> QED BY <2>4, <2>5, <2>6 DEF TeamInv, Enrolled
  <1>3. AccessStaysRevoked'
    <2> SUFFICES ASSUME NEW n \in Members, user'[n] \in {"removing", "removed"}
        PROVE  /\ n \notin token' \cup session'
               /\ \A p \in Projects : n \notin seats'[p]
               /\ \A q \in invited' : n \notin {q[2], q[3]}
               /\ \A k \in Codes : code'[k].by = n => code'[k].state # "open"
      BY DEF AccessStaysRevoked
    <2>1. n # m /\ user[n] \in {"removing", "removed"}
      BY DEF TeamInv, TeamType, enroll_team_member
    <2>2. \A k \in Codes : code'[k].by = code[k].by /\ code'[k].state \in {code[k].state, "consumed"}
      BY DEF TeamInv, TeamType, CodeRows, enroll_team_member
    <2>3. \A p \in Projects : seats'[p] \in {{m}, seats[p]}
      BY DEF enroll_team_member
    <2> QED BY <2>1, <2>2, <2>3 DEF TeamInv, AccessIsRight, AccessStaysRevoked, enroll_team_member
  <1>4. SomeoneCanEnter'
    BY DEF SomeoneCanEnter, Authenticating, Active, enroll_team_member, TeamInv, TeamType
  <1> QED BY <1>1, <1>2, <1>3, <1>4 DEF TeamInv, AccessIsRight

LEMMA CodesKeep ==
    ASSUME TeamInv,
           \E c \in Codes : FailedAttempt(c) \/ InvitationExpires(c) \/ \E m \in Members : create_team_invitation(m, c)
    PROVE  TeamInv'
  <1>1. PICK c \in Codes : FailedAttempt(c) \/ InvitationExpires(c) \/ \E m \in Members : create_team_invitation(m, c)
    OBVIOUS
  <1>2. UNCHANGED <<user, order, token, session, seats, invited>>
    BY <1>1 DEF FailedAttempt, InvitationExpires, create_team_invitation
  <1>3. code \in [Codes -> CodeRows] /\ Enrolled
    BY DEF TeamInv, TeamType
  <1>4. /\ code' \in [Codes -> CodeRows]
        /\ \A k \in Codes : /\ code'[k].state = "open" => code'[k].fails < TEAM_CODE_FAILED_ATTEMPT_LIMIT
                            /\ code'[k].state = "none" => code'[k].fails = 0
        /\ \A k \in Codes : code'[k].state = "open" =>
              (code'[k].by = code[k].by /\ code[k].state = "open") \/ user[code'[k].by] = "active"
    <2>1. CASE FailedAttempt(c)
      <3>1. code[c].fails + 1 \in 0..TEAM_CODE_FAILED_ATTEMPT_LIMIT
        BY <1>3, <2>1, TeamConstants DEF FailedAttempt, Enrolled, CodeRows
      <3>2. PICK row : row = [by |-> code[c].by, fails |-> code[c].fails + 1,
                 state |-> IF code[c].fails + 1 >= TEAM_CODE_FAILED_ATTEMPT_LIMIT THEN "locked" ELSE "open"]
        OBVIOUS
      <3>3. code' = [code EXCEPT ![c] = row]
        BY <2>1, <3>2, <1>3 DEF FailedAttempt
      <3>4. /\ row \in CodeRows /\ row.by = code[c].by /\ row.fails = code[c].fails + 1
            /\ row.state \in {"locked", "open"} /\ code[c].state = "open"
            /\ row.state = "open" => row.fails < TEAM_CODE_FAILED_ATTEMPT_LIMIT
        BY <1>3, <2>1, <3>1, <3>2, TeamConstants DEF FailedAttempt, CodeRows, CodeStates
      <3> QED BY <1>3, <3>3, <3>4 DEF Enrolled
    <2>2. CASE InvitationExpires(c)
      BY <1>3, <2>2, TeamConstants DEF InvitationExpires, Enrolled, CodeRows, CodeStates
    <2>3. ASSUME NEW m \in Members, create_team_invitation(m, c)
          PROVE  <1>4!1 /\ <1>4!2 /\ <1>4!3
      <3>1. PICK row : row = [code[c] EXCEPT !.state = "open", !.by = m]
        OBVIOUS
      <3>2. code' = [code EXCEPT ![c] = row] /\ user[m] = "active" /\ code[c].state = "none"
        BY <2>3, <3>1, <1>3 DEF create_team_invitation, Active
      <3>3. row \in CodeRows /\ row.by = m /\ row.fails = code[c].fails /\ row.state = "open"
        BY <1>3, <3>1 DEF CodeRows, CodeStates
      <3> QED BY <1>3, <3>2, <3>3, TeamConstants DEF Enrolled
    <2> QED BY <1>1, <2>1, <2>2, <2>3
  <1>5. TeamType'
    BY <1>2, <1>4 DEF TeamInv, TeamType
  <1>6. Enrolled'
    BY <1>2, <1>4 DEF TeamInv, Enrolled
  <1>7. AccessStaysRevoked'
    BY <1>2, <1>4 DEF TeamInv, AccessIsRight, AccessStaysRevoked
  <1>8. SomeoneCanEnter'
    BY <1>2 DEF TeamInv, AccessIsRight, SomeoneCanEnter, Authenticating, Active
  <1> QED BY <1>5, <1>6, <1>7, <1>8 DEF TeamInv, AccessIsRight

LEMMA CredentialsKeep ==
    ASSUME TeamInv, NEW m \in Members,
           create_team_session(m) \/ delete_team_session(m) \/ rotate_team_token(m) \/ revoke_team_token(m)
    PROVE  TeamInv'
  <1>1. /\ UNCHANGED <<user, order, code, seats, invited>>
        /\ token' \subseteq token \cup {m} /\ session' \subseteq session \cup {m}
        /\ (token' \subseteq token /\ session' \subseteq session) \/ user[m] = "active"
    BY DEF create_team_session, delete_team_session, rotate_team_token, revoke_team_token,
           resolve_team_session, Active
  <1>2. TeamType'
    BY <1>1 DEF TeamInv, TeamType
  <1>3. Enrolled'
    BY <1>1 DEF TeamInv, Enrolled
  <1>4. AccessStaysRevoked'
    BY <1>1 DEF TeamInv, AccessIsRight, AccessStaysRevoked
  <1>5. SomeoneCanEnter'
    <2>1. CASE revoke_team_token(m)
      BY <1>1, <2>1 DEF TeamInv, AccessIsRight, SomeoneCanEnter, Authenticating, Active,
                        revoke_team_token, Revocable
    <2>2. CASE token \subseteq token'
      BY <1>1, <2>2 DEF TeamInv, AccessIsRight, SomeoneCanEnter, Authenticating, Active
    <2> QED BY <2>1, <2>2 DEF create_team_session, delete_team_session, rotate_team_token
  <1> QED BY <1>2, <1>3, <1>4, <1>5 DEF TeamInv, AccessIsRight

(* A seat goes to someone active, an invitation from and to someone active. *)
LEMMA SeatsKeep ==
    ASSUME TeamInv, UNCHANGED <<user, order, token, session, code>>,
           seats' \in [Projects -> SUBSET Members], invited' \subseteq Projects \X Members \X Members,
           \A p \in Projects : \A m \in seats'[p] : m \in seats[p] \/ user[m] = "active",
           \A q \in invited' : q \in invited \/ (user[q[2]] = "active" /\ user[q[3]] = "active")
    PROVE  TeamInv'
  <1>1. TeamType' /\ Enrolled'
    BY DEF TeamInv, TeamType, Enrolled
  <1>2. AccessStaysRevoked'
    BY DEF TeamInv, AccessIsRight, AccessStaysRevoked
  <1>3. SomeoneCanEnter'
    BY DEF TeamInv, AccessIsRight, SomeoneCanEnter, Authenticating, Active
  <1> QED BY <1>1, <1>2, <1>3 DEF TeamInv, AccessIsRight

LEMMA SeatStepsKeep ==
    ASSUME TeamInv,
           \/ \E p \in Projects : seat_first_member(p) \/ \E m, by \in Members : invite_to_project(p, m, by)
           \/ \E q \in invited, accepts \in BOOLEAN : answer_project_invitation(q, accepts)
           \/ \E p \in Projects, m \in Members : leave_project(p, m)
    PROVE  TeamInv'
  <1>1. seats \in [Projects -> SUBSET Members] /\ invited \subseteq Projects \X Members \X Members
        /\ order \in Seq(Members)
    BY DEF TeamInv, TeamType
  <1>2. ASSUME NEW p \in Projects, seat_first_member(p) PROVE TeamInv'
    <2>1. SeatableBefore \subseteq Members /\ \A m \in SeatableBefore : user[m] = "active"
      <3> SUFFICES ASSUME NEW m \in SeatableBefore PROVE m \in Members /\ user[m] = "active"
        OBVIOUS
      <3>1. PICK j \in DOMAIN order : m = order[j] /\ \A k \in 1..j : Active(order[k])
        BY DEF SeatableBefore
      <3>2. j \in 1..j
        BY <1>1, <3>1
      <3> QED BY <1>1, <3>1, <3>2 DEF Active
    <2>2. PICK new : new \subseteq Members /\ (\A m \in new : user[m] = "active")
                     /\ seats' = [seats EXCEPT ![p] = new]
      BY <1>2, <2>1 DEF seat_first_member, resolve_team_session, Active
    <2> QED BY <1>1, <1>2, <2>2, SeatsKeep DEF seat_first_member
  <1>3. ASSUME NEW p \in Projects, NEW m \in Members, NEW by \in Members, invite_to_project(p, m, by)
        PROVE  TeamInv'
    <2>1. <<p, m, by>> \in Projects \X Members \X Members /\ user[m] = "active" /\ user[by] = "active"
      BY <1>3 DEF invite_to_project, resolve_team_session, Active
    <2>2. PICK q : q = <<p, m, by>>
      OBVIOUS
    <2>3. q \in Projects \X Members \X Members /\ user[q[2]] = "active" /\ user[q[3]] = "active"
          /\ invited' = invited \cup {q}
      BY <1>3, <2>1, <2>2 DEF invite_to_project
    <2> QED BY <1>1, <1>3, <2>3, SeatsKeep DEF invite_to_project
  <1>4. ASSUME NEW q \in invited, NEW accepts \in BOOLEAN, answer_project_invitation(q, accepts)
        PROVE  TeamInv'
    <2>1. q[1] \in Projects /\ q[2] \in Members /\ user[q[2]] = "active"
      BY <1>1, <1>4 DEF answer_project_invitation, resolve_team_session, Active
    <2>2. /\ seats' \in [Projects -> SUBSET Members]
          /\ \A p \in Projects : \A m \in seats'[p] : m \in seats[p] \/ user[m] = "active"
      BY <1>1, <1>4, <2>1 DEF answer_project_invitation
    <2> QED BY <1>1, <1>4, <2>2, SeatsKeep DEF answer_project_invitation
  <1>5. ASSUME NEW p \in Projects, NEW m \in Members, leave_project(p, m) PROVE TeamInv'
    <2>1. /\ seats' \in [Projects -> SUBSET Members] /\ invited' \subseteq invited
          /\ \A k \in Projects : seats'[k] \subseteq seats[k]
      BY <1>1, <1>5 DEF leave_project
    <2> QED BY <1>1, <1>5, <2>1, SeatsKeep DEF leave_project
  <1> QED BY <1>2, <1>3, <1>4, <1>5

LEMMA TeamNextKeeps == ASSUME TeamInv, TeamNext PROVE TeamInv'
  BY EnrollKeeps, CodesKeep, CredentialsKeep, SeatStepsKeep DEF TeamNext

(* The fence of a removal takes everything, and leaves someone who can enter. *)
LEMMA FenceKeeps ==
    ASSUME TeamInv, NEW m \in Members, AccessFence(m), m \in token => Authenticating \ {m} # {},
           user[m] = "active"
    PROVE  TeamInv' /\ user'[m] = "removing" /\ \A n \in Members : n # m => user'[n] = user[n]
  <1>1. /\ user' = [user EXCEPT ![m] = "removing"] /\ token' = token \ {m} /\ session' = session \ {m}
        /\ invited' = {q \in invited : m \notin {q[2], q[3]}} /\ order' = order
        /\ \A p \in Projects : seats'[p] = seats[p] \ {m}
    BY DEF AccessFence
  <1>2. \A n \in Members : user'[n] = IF n = m THEN "removing" ELSE user[n]
    BY <1>1 DEF TeamInv, TeamType
  <1>3. \A c \in Codes : code'[c] = code[c] \/ code'[c] = [code[c] EXCEPT !.state = "revoked"]
    BY DEF AccessFence
  <1>4. code' \in [Codes -> CodeRows]
    <2>0. \A x \in CodeRows : [x EXCEPT !.state = "revoked"] \in CodeRows
      BY DEF CodeRows, CodeStates
    <2>1. \A c \in Codes : code'[c] \in CodeRows
      BY <1>3, <2>0 DEF TeamInv, TeamType
    <2> QED BY <2>1 DEF AccessFence
  <1>5. \A c \in Codes : /\ code'[c].by = code[c].by /\ code'[c].fails = code[c].fails
                         /\ code'[c].state \in {code[c].state, "revoked"}
                         /\ code[c].by = m => code'[c].state # "open"
    BY DEF TeamInv, TeamType, CodeRows, AccessFence
  <1>6. TeamType'
    BY <1>1, <1>4 DEF TeamInv, TeamType, UserStates, AccessFence
  <1>7. Enrolled'
    <2>1. \A i \in DOMAIN order : order[i] \in Members
      BY DEF TeamInv, TeamType
    <2>2. \A i \in DOMAIN order : user'[order[i]] # "absent"
      BY <1>2, <2>1 DEF TeamInv, Enrolled
    <2>3. \A c \in Codes : /\ code'[c].state = "open" => code'[c].fails < TEAM_CODE_FAILED_ATTEMPT_LIMIT
                           /\ code'[c].state = "none" => code'[c].fails = 0
      BY <1>5 DEF TeamInv, Enrolled
    <2>4. order' = order
      BY DEF AccessFence
    <2>5. \A i, j \in DOMAIN order : order[i] = order[j] => i = j
      BY DEF TeamInv, Enrolled
    <2>6. \A i \in DOMAIN order' : user'[order'[i]] # "absent"
      BY <2>2, <2>4, Zenon
    <2>7. \A i, j \in DOMAIN order' : order'[i] = order'[j] => i = j
      BY <2>4, <2>5, Zenon
    <2> QED BY <2>3, <2>6, <2>7, Zenon DEF Enrolled
  <1>8. AccessStaysRevoked'
    <2> SUFFICES ASSUME NEW n \in Members, user'[n] \in {"removing", "removed"}
        PROVE  /\ n \notin token' \cup session'
               /\ \A p \in Projects : n \notin seats'[p]
               /\ \A q \in invited' : n \notin {q[2], q[3]}
               /\ \A k \in Codes : code'[k].by = n => code'[k].state # "open"
      BY DEF AccessStaysRevoked
    <2>0. \A q : q \in invited' => q \in invited /\ m # q[2] /\ m # q[3]
      BY DEF AccessFence
    <2>a. n # m => user[n] \in {"removing", "removed"}
      BY <1>2
    <2>b. n # m => /\ n \notin token /\ n \notin session /\ \A p \in Projects : n \notin seats[p]
                   /\ \A q \in invited : n # q[2] /\ n # q[3]
                   /\ \A k \in Codes : code[k].by = n => code[k].state # "open"
      BY <2>a DEF TeamInv, AccessIsRight, AccessStaysRevoked
    <2>1. n \notin token' \cup session' /\ \A p \in Projects : n \notin seats'[p]
      BY <1>1, <2>b
    <2>2. \A q \in invited' : n \notin {q[2], q[3]}
      BY <2>0, <2>b
    <2>3. \A k \in Codes : code'[k].by = n => code'[k].state # "open"
      <3> TAKE k \in Codes
      <3>1. code'[k].by = code[k].by /\ code'[k].state \in {code[k].state, "revoked"}
        BY <1>5, Zenon
      <3>2. code[k].by = m => code'[k].state # "open"
        BY <1>5, Zenon
      <3>3. n # m /\ code[k].by = n => code[k].state # "open"
        BY <2>b, Zenon
      <3>4. "revoked" # "open"
        OBVIOUS
      <3> QED BY <3>1, <3>2, <3>3, <3>4, Zenon
    <2> QED BY <2>1, <2>2, <2>3
  <1>9. SomeoneCanEnter'
    <2> SUFFICES ASSUME order # <<>> PROVE Authenticating' # {}
      BY <1>1 DEF SomeoneCanEnter
    <2>1. \E n \in token : n # m /\ user[n] = "active"
      BY DEF TeamInv, AccessIsRight, SomeoneCanEnter, Authenticating, Active
    <2> QED BY <1>1, <1>2, <2>1 DEF Authenticating, Active, TeamInv, TeamType
  <1> QED BY <1>2, <1>6, <1>7, <1>8, <1>9 DEF TeamInv, AccessIsRight

LEMMA CompleteKeeps ==
    ASSUME TeamInv, NEW m \in Members, user[m] \in {"removing", "removed"},
           user' = [user EXCEPT ![m] = "removed"], UNCHANGED <<order, token, session, code, seats, invited>>
    PROVE  TeamInv'
  <1>1. \A n \in Members : user'[n] = IF n = m THEN "removed" ELSE user[n]
    BY DEF TeamInv, TeamType
  <1>2. TeamType'
    BY DEF TeamInv, TeamType, UserStates
  <1>3. Enrolled'
    <2>1. \A i \in DOMAIN order : order[i] \in Members
      BY DEF TeamInv, TeamType
    <2> QED BY <1>1, <2>1 DEF TeamInv, Enrolled
  <1>4. AccessStaysRevoked'
    BY <1>1 DEF TeamInv, AccessIsRight, AccessStaysRevoked
  <1>5. SomeoneCanEnter'
    BY <1>1 DEF TeamInv, TeamType, AccessIsRight, SomeoneCanEnter, Authenticating, Active
  <1> QED BY <1>2, <1>3, <1>4, <1>5 DEF TeamInv, AccessIsRight

-----------------------------------------------------------------------------
(* The work of the members. *)

Statuses == Live \cup {"none", "paused", "done", "failed", "interrupted"}
Over == {"paused", "done", "failed", "interrupted"}

Rows == [status : Statuses, by : Members \cup {NoOne}, parent : Ops \cup {NoOp}, saved : BOOLEAN,
         owned : BOOLEAN, runs : BOOLEAN, stop : BOOLEAN, via : Episodes \cup {"none", "turn"},
         batch : Nat, staged : Nat]
EpisodeRows == [status : LiveEpisode \cup {"none", "stopped"}, by : Members \cup {NoOne}]
ReqRows == [step : {"idle", "entered", "checked", "claimed"}, by : Members \cup {NoOne},
            kind : {"none", "turn", "resume", "run"}, op : Ops \cup {NoOp}, target : Ops \cup {NoOp},
            batch : Nat]

WorkType ==
    /\ task \in [Ops -> Rows] /\ episode \in [Episodes -> EpisodeRows] /\ req \in [Requests -> ReqRows]
    /\ set \in [ver : Nat, by : Ops \cup {NoOp}] /\ budget \in [Events -> Nat]
    /\ raced \in BOOLEAN /\ died \in BOOLEAN

(* A row that is free is empty; a row that is used has an author and a reason, a
   worker while it runs, and is given the files it was admitted with or none. *)
RowInv ==
    \A o \in Ops : /\ task[o].status = "none" => task[o] = NoTask
                   /\ task[o].status # "none" => task[o].by \in Members /\ task[o].via # "none"
                   /\ task[o].runs => task[o].owned /\ task[o].status \in {"running", "pausing"}
                   /\ task[o].staged # 0 => task[o].staged = task[o].batch

(* A turn is taken further once it is over; a turn of an episode is in its
   authorizer's name, and while it is live the episode is. *)
LinkInv ==
    \A o \in Ops :
        /\ task[o].parent \in Ops => task[task[o].parent].status \in Over
        /\ task[o].via \in Episodes =>
              /\ episode[task[o].via].status # "none" /\ task[o].by = episode[task[o].via].by
              /\ task[o].status \in Live => episode[task[o].via].status \in LiveEpisode

EpisodeInv ==
    /\ \A e \in Episodes : episode[e].status # "none" => episode[e].by \in Members
    /\ \A m \in Members : user[m] = "removed" =>
          LiveEpisodes(m) \subseteq late /\ \A o \in LiveTasks(m) : task[o].via = "turn" => o \in late

LiveTurn(o) == task[o].via = "turn" /\ task[o].status \in Live

(* One turn of the conversation is live; while a fresh one is being admitted
   none waits to be resumed, unless that pause raced. *)
TurnInv ==
    /\ \A o, c \in Ops : LiveTurn(o) /\ LiveTurn(c) => o = c
    /\ PausedTurnIsDecided
    /\ raced \/ ~Checking \/ \A o \in Ops : ~Resumable(o)

ReqInv ==
    /\ \A r \in Requests :
          /\ req[r].step # "idle" => req[r].by \in Members
          /\ req[r].step \in {"idle", "entered"} => req[r].op = NoOp
          /\ req[r].step # "claimed" => req[r].batch = 0
          /\ req[r].step = "entered" /\ req[r].kind = "resume" =>
                req[r].target \in Ops /\ task[req[r].target].status \in Over
          /\ req[r].step \in {"checked", "claimed"} => req[r].op \in Ops /\ task[req[r].op] = NoTask
    /\ \A r, s \in Requests : req[r].op = req[s].op /\ req[r].op # NoOp => r = s

(* Each upload has a version of its own; a version that was sent belongs to one
   fresh turn, which has the set; and who has the set exists. *)
FileInv ==
    /\ set.ver = 0 => set.by = NoOp
    /\ set.ver = 0 \/ set.ver > budget["uploads"]
    /\ \A o \in Ops : /\ task[o].batch = 0 \/ task[o].batch > budget["uploads"]
                      /\ task[o].parent = NoOp /\ task[o].batch # 0 /\ task[o].batch = set.ver => set.by = o
    /\ \A r \in Requests : /\ req[r].batch = 0 \/ req[r].batch > budget["uploads"]
                           /\ req[r].batch # 0 /\ req[r].batch = set.ver => set.by = req[r].op
    /\ died \/ set.by = NoOp \/ task[set.by] # NoTask
            \/ \E r \in Requests : req[r].op = set.by /\ req[r].batch # 0

RemovalInv ==
    /\ advance = [step |-> advance.step, who |-> advance.who, todo |-> advance.todo, shown |-> advance.shown]
    /\ advance.step = "shown" => advance.who \in Members /\ advance.shown[1] = "active"
    /\ advance.step \in {"pausing", "completing"} =>
          advance.who \in Members /\ user[advance.who] \in {"removing", "removed"}

WorkInv == WorkType /\ RowInv /\ LinkInv /\ EpisodeInv /\ TurnInv /\ ReqInv /\ FileInv
IInv == TeamInv /\ WorkInv /\ RemovalInv

LEMMA WorkConstants ==
    /\ Home \in Projects /\ NoOp \notin Ops /\ "none" \notin Episodes /\ "turn" \notin Episodes
    /\ NoOne \notin Members /\ Budgets \subseteq [Events -> Nat] /\ "uploads" \in Events
  BY WorkAssumption, MemberAssumption DEF Events

LEMMA EmptyRows ==
    /\ NoTask \in Rows /\ NoTask.status = "none" /\ NoTask.via = "none" /\ NoTask.parent = NoOp
    /\ NoTask.by = NoOne /\ NoTask.batch = 0 /\ NoTask.staged = 0 /\ ~NoTask.runs /\ ~NoTask.saved
    /\ NoReq \in ReqRows /\ NoReq.step = "idle" /\ NoReq.op = NoOp /\ NoReq.batch = 0
  BY DEF NoTask, Rows, Statuses, NoReq, ReqRows

(* A row of the ledger goes on: it keeps what it was admitted with, and is left
   alone once it is over. *)
Moved(x, y) ==
    /\ y.by = x.by /\ y.parent = x.parent /\ y.via = x.via /\ y.batch = x.batch
    /\ x.status = "none" => y = x
    /\ x.status # "none" => y.status # "none"
    /\ x.status \in Over => y.status = x.status /\ y.saved = x.saved
    /\ y.runs => y.owned /\ y.status \in {"running", "pausing"}
    /\ y.staged # 0 => y.staged = y.batch

(* Episodes end, and none that has a live turn. *)
Ends ==
    \A e \in Episodes :
        /\ episode'[e].by = episode[e].by
        /\ episode'[e].status = "none" <=> episode[e].status = "none"
        /\ episode'[e].status \in LiveEpisode => episode[e].status \in LiveEpisode
        /\ episode[e].status \in LiveEpisode /\ (\E o \in Ops : task[o].via = e /\ task[o].status \in Live) =>
              episode'[e].status \in LiveEpisode

LEMMA MovesKeep ==
    ASSUME WorkInv, task' \in [Ops -> Rows], \A o \in Ops : Moved(task[o], task'[o]),
           episode' \in [Episodes -> EpisodeRows], Ends,
           \A m \in Members : user'[m] = "removed" => user[m] = "removed" \/ (LiveTasks(m) = {} /\ LiveEpisodes(m) = {}),
           budget' \in [Events -> Nat], budget'["uploads"] = budget["uploads"],
           UNCHANGED <<set, late>>, raced' \in BOOLEAN, raced => raced',
           \/ req' = req /\ died' = died
           \/ req' = [r \in Requests |-> NoReq] /\ died' = TRUE,
           raced' \/ ~Checking' \/ \A o \in Ops : Resumable(o)' => Resumable(o)
    PROVE  WorkInv'
  <1>1. \A o \in Ops : /\ task[o].status \in Statuses /\ task'[o].status \in Statuses
                       /\ task'[o].parent \in Ops \cup {NoOp}
    BY DEF WorkInv, WorkType, Rows
  <1>2. \A o \in Ops : /\ task'[o].status \in Live => task[o].status \in Live
                       /\ task[o].status \in Over => task'[o].status = task[o].status
                       /\ task'[o] = NoTask <=> task[o] = NoTask
    BY <1>1, EmptyRows DEF Moved, Statuses, Live, Over, WorkInv, RowInv
  <1>3. WorkType'
    <2>1. req' \in [Requests -> ReqRows] /\ died' \in BOOLEAN
      BY EmptyRows DEF WorkInv, WorkType
    <2> QED BY <2>1 DEF WorkInv, WorkType
  <1>4. RowInv'
    BY <1>2 DEF Moved, WorkInv, RowInv
  <1>5. LinkInv'
    <2> SUFFICES ASSUME NEW o \in Ops
        PROVE  /\ task'[o].parent \in Ops => task'[task'[o].parent].status \in Over
               /\ task'[o].via \in Episodes =>
                     /\ episode'[task'[o].via].status # "none" /\ task'[o].by = episode'[task'[o].via].by
                     /\ task'[o].status \in Live => episode'[task'[o].via].status \in LiveEpisode
      BY DEF LinkInv
    <2>1. task'[o].parent = task[o].parent /\ task'[o].via = task[o].via /\ task'[o].by = task[o].by
      BY DEF Moved
    <2>2. /\ task[o].parent \in Ops => task[task[o].parent].status \in Over
          /\ task[o].via \in Episodes =>
                /\ episode[task[o].via].status # "none" /\ task[o].by = episode[task[o].via].by
                /\ task[o].status \in Live => episode[task[o].via].status \in LiveEpisode
      BY DEF WorkInv, LinkInv
    <2> QED BY <1>2, <2>1, <2>2 DEF Ends
  <1>6. EpisodeInv'
    <2>1. \A e \in Episodes : episode'[e].status # "none" => episode'[e].by \in Members
      BY DEF Ends, WorkInv, EpisodeInv
    <2>2. \A m \in Members : LiveEpisodes(m)' \subseteq LiveEpisodes(m)
      BY DEF Ends, LiveEpisodes
    <2>3. \A m \in Members : \A o \in LiveTasks(m)' : o \in LiveTasks(m) /\ task'[o].via = task[o].via
      BY <1>2 DEF Moved, LiveTasks
    <2> QED BY <2>1, <2>2, <2>3 DEF WorkInv, EpisodeInv
  <1>7. TurnInv'
    <2>1. \A o \in Ops : LiveTurn(o)' => LiveTurn(o)
      BY <1>2 DEF LiveTurn, Moved
    <2>2. \A o, c \in Ops : LiveTurn(o)' /\ LiveTurn(c)' => o = c
      BY <2>1 DEF WorkInv, TurnInv
    <2>3. \A o \in Ops : Resumable(o)' /\ ~Resumable(o) => LiveTurn(o) /\ ~LiveTurn(o)'
      <3> SUFFICES ASSUME NEW o \in Ops, Resumable(o)', ~Resumable(o) PROVE LiveTurn(o) /\ ~LiveTurn(o)'
        OBVIOUS
      <3>1. \A c \in Ops : task[c].parent # o
        BY DEF Moved, Resumable
      <3>2. task'[o].status = "paused" /\ task'[o].saved /\ task[o].via = "turn"
        BY DEF Resumable, Moved
      <3>3. task[o].status \notin Over
        BY <3>1, <3>2 DEF Resumable, Moved
      <3>4. task[o].status # "none"
        BY <3>2, <1>1, EmptyRows DEF Moved
      <3> QED BY <1>1, <3>2, <3>3, <3>4 DEF LiveTurn, Statuses, Live, Over
    <2>4. ~raced' => /\ \A o, c \in Ops : ~(Resumable(o)' /\ LiveTurn(c)' /\ task'[c].parent = NoOp)
      <3> SUFFICES ASSUME ~raced', NEW o \in Ops, NEW c \in Ops, Resumable(o)', LiveTurn(c)',
                          task'[c].parent = NoOp
          PROVE  FALSE
        OBVIOUS
      <3>1. ~Resumable(o) => c = o
        BY <2>1, <2>3 DEF WorkInv, TurnInv
      <3>2. Resumable(o)
        BY <2>3, <3>1
      <3>3. LiveTurn(c) /\ task[c].parent = NoOp
        BY <2>1 DEF Moved
      <3> QED BY <3>2, <3>3 DEF WorkInv, TurnInv, PausedTurnIsDecided, LiveTurn
    <2>5. raced' \/ ~Checking' \/ \A o \in Ops : ~Resumable(o)'
      <3> SUFFICES ASSUME ~raced', Checking', \A o \in Ops : Resumable(o)' => Resumable(o)
          PROVE  \A o \in Ops : ~Resumable(o)'
        OBVIOUS
      <3>1. Checking
        BY EmptyRows DEF Checking
      <3> QED BY <3>1 DEF WorkInv, TurnInv
    <2>6. PausedTurnIsDecided'
      BY <2>4 DEF PausedTurnIsDecided, LiveTurn
    <2> QED BY <2>2, <2>5, <2>6 DEF TurnInv
  <1>8. ReqInv'
    <2>1. CASE req' = req
      <3>1. \A r \in Requests : req[r].op \in Ops \cup {NoOp} /\ req[r].target \in Ops \cup {NoOp}
        BY DEF WorkInv, WorkType, ReqRows
      <3> QED BY <1>2, <2>1, <3>1 DEF WorkInv, ReqInv
    <2>2. CASE req' = [r \in Requests |-> NoReq]
      BY <2>2, EmptyRows DEF ReqInv
    <2> QED BY <2>1, <2>2
  <1>9. FileInv'
    <2>1. \A o \in Ops : task'[o].batch = task[o].batch /\ task'[o].parent = task[o].parent
      BY DEF Moved
    <2>2. set.by \in Ops \cup {NoOp}
      BY DEF WorkInv, WorkType
    <2>3. CASE req' = req /\ died' = died
      BY <1>2, <2>1, <2>2, <2>3 DEF WorkInv, FileInv
    <2>4. CASE req' = [r \in Requests |-> NoReq] /\ died' = TRUE
      BY <2>1, <2>4, EmptyRows DEF WorkInv, FileInv
    <2> QED BY <2>3, <2>4
  <1> QED BY <1>3, <1>4, <1>5, <1>6, <1>7, <1>8, <1>9 DEF WorkInv

(* A row is added to the ledger, by a request that is then answered or by the
   process itself. *)
LEMMA InsertKeeps ==
    ASSUME WorkInv, NEW o \in Ops, task[o] = NoTask, NEW row \in Rows, task' = [task EXCEPT ![o] = row],
           row.status = "queued", row.by \in Members, row.via # "none", ~row.runs, row.staged = 0,
           row.parent \in Ops => task[row.parent].status \in Over,
           episode' \in [Episodes -> EpisodeRows],
           \A e \in Episodes : \/ episode'[e] = episode[e]
                               \/ /\ episode[e].status = "none" /\ episode'[e].by \in Members
                                  /\ episode'[e].status # "none"
                                  /\ user[episode'[e].by] = "removed" => e \in late',
           row.via \in Episodes => /\ row.by = episode'[row.via].by
                                   /\ episode'[row.via].status \in LiveEpisode,
           late \subseteq late', row.via = "turn" /\ user[row.by] = "removed" => o \in late',
           row.via = "turn" => ~Busy("turn") /\ (row.parent = NoOp => raced \/ \A c \in Ops : ~Resumable(c)),
           row.batch = 0 \/ row.batch > budget["uploads"],
           row.parent = NoOp /\ row.batch # 0 /\ row.batch = set.ver => set.by = o,
           req' \in [Requests -> ReqRows],
           \A r \in Requests : \/ req'[r] = req[r] /\ req[r].op # o
                               \/ req'[r] = NoReq /\ req[r].op \in {o, NoOp},
           UNCHANGED <<user, set, raced, died, budget>>
    PROVE  WorkInv'
  <1>1. \A c \in Ops : task'[c] = IF c = o THEN row ELSE task[c]
    BY DEF WorkInv, WorkType
  <1>2. \A c \in Ops : task[c].parent # o /\ (task[c].status \in Over => task'[c] = task[c])
    BY <1>1, EmptyRows DEF WorkInv, LinkInv, Over
  <1>3. WorkType'
    BY DEF WorkInv, WorkType
  <1>4. RowInv'
    BY <1>1 DEF WorkInv, RowInv
  <1>5. \A e \in Episodes : episode'[e] = episode[e] \/ \A c \in Ops : task[c].via # e
    BY DEF WorkInv, LinkInv
  <1>6. LinkInv'
    <2>1. \A c \in Ops : task'[c].parent \in Ops => task'[task'[c].parent].status \in Over
      BY <1>1, <1>2, EmptyRows DEF WorkInv, LinkInv
    <2>2. ASSUME NEW c \in Ops, task'[c].via \in Episodes
          PROVE  /\ episode'[task'[c].via].status # "none" /\ task'[c].by = episode'[task'[c].via].by
                 /\ task'[c].status \in Live => episode'[task'[c].via].status \in LiveEpisode
      <3>1. CASE c = o
        BY <1>1, <2>2, <3>1 DEF LiveEpisode
      <3>2. CASE c # o
        <4>1. task'[c] = task[c] /\ episode'[task[c].via] = episode[task[c].via]
          BY <1>1, <1>5, <2>2, <3>2
        <4> QED BY <2>2, <4>1 DEF WorkInv, LinkInv
      <3> QED BY <3>1, <3>2
    <2> QED BY <2>1, <2>2 DEF LinkInv
  <1>7. EpisodeInv'
    <2>1. \A e \in Episodes : episode'[e].status # "none" => episode'[e].by \in Members
      BY DEF WorkInv, EpisodeInv
    <2>2. ASSUME NEW m \in Members, user[m] = "removed", NEW e \in LiveEpisodes(m)'
          PROVE  e \in late'
      <3>1. CASE episode'[e] = episode[e]
        <4>1. e \in LiveEpisodes(m)
          BY <2>2, <3>1 DEF LiveEpisodes
        <4> QED BY <2>2, <4>1 DEF WorkInv, EpisodeInv
      <3>2. CASE user[episode'[e].by] = "removed" => e \in late'
        BY <2>2, <3>2 DEF LiveEpisodes
      <3> QED BY <3>1, <3>2 DEF LiveEpisodes
    <2>3. ASSUME NEW m \in Members, user[m] = "removed", NEW c \in LiveTasks(m)', task'[c].via = "turn"
          PROVE  c \in late'
      <3>1. CASE c = o
        BY <1>1, <2>3, <3>1 DEF LiveTasks
      <3>2. CASE c # o
        <4>1. c \in LiveTasks(m) /\ task[c].via = "turn"
          BY <1>1, <2>3, <3>2 DEF LiveTasks
        <4> QED BY <2>3, <4>1 DEF WorkInv, EpisodeInv
      <3> QED BY <3>1, <3>2
    <2> QED BY <2>1, <2>2, <2>3 DEF EpisodeInv
  <1>8. TurnInv'
    <2>1. \A c \in Ops : LiveTurn(c)' => LiveTurn(c) \/ (c = o /\ row.via = "turn" /\ \A d \in Ops : ~LiveTurn(d))
      BY <1>1 DEF LiveTurn, Busy
    <2>2. \A c \in Ops : Resumable(c)' => Resumable(c)
      <3> SUFFICES ASSUME NEW c \in Ops, Resumable(c)' PROVE Resumable(c)
        OBVIOUS
      <3>1. c # o
        BY <1>1 DEF Resumable
      <3>2. \A d \in Ops : task[d].parent # c
        BY <1>1, EmptyRows, WorkConstants DEF Resumable
      <3> QED BY <1>1, <3>1, <3>2 DEF Resumable
    <2>3. \A c, d \in Ops : LiveTurn(c)' /\ LiveTurn(d)' => c = d
      BY <2>1 DEF WorkInv, TurnInv
    <2>4. PausedTurnIsDecided'
      <3> SUFFICES ASSUME ~raced, NEW c \in Ops, NEW d \in Ops, Resumable(c)', LiveTurn(d)',
                          task'[d].parent = NoOp
          PROVE  FALSE
        BY DEF PausedTurnIsDecided, LiveTurn
      <3>1. Resumable(c)
        BY <2>2
      <3>2. CASE d = o
        BY <1>1, <3>1, <3>2 DEF LiveTurn
      <3>3. CASE d # o
        BY <1>1, <3>1, <3>3 DEF LiveTurn, WorkInv, TurnInv, PausedTurnIsDecided
      <3> QED BY <3>2, <3>3
    <2>5. Checking' => Checking
      BY EmptyRows DEF Checking
    <2> QED BY <2>2, <2>3, <2>4, <2>5 DEF TurnInv, WorkInv
  <1>9. ReqInv'
    <2>1. \A r \in Requests : req[r].op \in Ops \cup {NoOp} /\ req[r].target \in Ops \cup {NoOp}
      BY DEF WorkInv, WorkType, ReqRows
    <2>2. ASSUME NEW r \in Requests
          PROVE  /\ req'[r].step # "idle" => req'[r].by \in Members
                 /\ req'[r].step \in {"idle", "entered"} => req'[r].op = NoOp
                 /\ req'[r].step # "claimed" => req'[r].batch = 0
                 /\ req'[r].step = "entered" /\ req'[r].kind = "resume" =>
                       req'[r].target \in Ops /\ task'[req'[r].target].status \in Over
                 /\ req'[r].step \in {"checked", "claimed"} => req'[r].op \in Ops /\ task'[req'[r].op] = NoTask
      <3>1. CASE req'[r] = NoReq
        BY <3>1, EmptyRows
      <3>2. CASE req'[r] = req[r] /\ req[r].op # o
        BY <1>1, <1>2, <2>1, <3>2 DEF WorkInv, ReqInv
      <3> QED BY <3>1, <3>2
    <2>3. \A r, s \in Requests : req'[r].op = req'[s].op /\ req'[r].op # NoOp => r = s
      BY EmptyRows DEF WorkInv, ReqInv
    <2> QED BY <2>2, <2>3 DEF ReqInv
  <1>10. FileInv'
    <2>1. \A c \in Ops : /\ task'[c].batch = 0 \/ task'[c].batch > budget["uploads"]
                         /\ task'[c].parent = NoOp /\ task'[c].batch # 0 /\ task'[c].batch = set.ver => set.by = c
      BY <1>1 DEF WorkInv, FileInv
    <2>2. \A r \in Requests : /\ req'[r].batch = 0 \/ req'[r].batch > budget["uploads"]
                              /\ req'[r].batch # 0 /\ req'[r].batch = set.ver => set.by = req'[r].op
      BY EmptyRows DEF WorkInv, FileInv
    <2>3. \/ died \/ set.by = NoOp \/ task'[set.by] # NoTask
          \/ \E r \in Requests : req'[r].op = set.by /\ req'[r].batch # 0
      <3>1. set.by \in Ops \cup {NoOp} /\ row # NoTask
        BY EmptyRows DEF WorkInv, WorkType
      <3>2. CASE died \/ set.by = NoOp \/ set.by = o \/ task[set.by] # NoTask
        BY <1>1, <3>1, <3>2
      <3>3. CASE set.by \notin {NoOp, o} /\ \E r \in Requests : req[r].op = set.by /\ req[r].batch # 0
        BY <3>3
      <3> QED BY <3>2, <3>3 DEF WorkInv, FileInv
    <2> QED BY <2>1, <2>2, <2>3 DEF WorkInv, FileInv
  <1> QED BY <1>3, <1>4, <1>6, <1>7, <1>8, <1>9, <1>10 DEF WorkInv

(* Requests and the attachment set change; the ledger does not. *)
LEMMA RequestsKeep ==
    ASSUME WorkInv, UNCHANGED <<task, episode, user, late, raced, died>>, ReqInv', FileInv', WorkType',
           raced \/ ~Checking' \/ Checking \/ \A o \in Ops : ~Resumable(o)
    PROVE  WorkInv'
  <1>1. RowInv' /\ LinkInv'
    BY DEF WorkInv, RowInv, LinkInv
  <1>2. EpisodeInv'
    BY DEF WorkInv, EpisodeInv, LiveEpisodes, LiveTasks
  <1>3. \A o \in Ops : (LiveTurn(o)' <=> LiveTurn(o)) /\ (Resumable(o)' <=> Resumable(o))
    BY DEF LiveTurn, Resumable
  <1>4. PausedTurnIsDecided'
    BY <1>3 DEF WorkInv, TurnInv, PausedTurnIsDecided
  <1>5. TurnInv'
    BY <1>3, <1>4 DEF WorkInv, TurnInv
  <1> QED BY <1>1, <1>2, <1>5 DEF WorkInv

(* A request moves to its next step, or is answered. *)
LEMMA RequestKeeps ==
    ASSUME WorkInv, NEW r \in Requests, NEW q \in ReqRows, req' = [req EXCEPT ![r] = q],
           UNCHANGED <<task, episode, user, late, raced, died, set>>,
           budget' \in [Events -> Nat], budget'["uploads"] = budget["uploads"],
           q.step # "idle" => q.by \in Members,
           q.step \in {"idle", "entered"} => q.op = NoOp,
           q.batch = 0, q.step # "claimed" \/ req[r].step = "checked",
           q.step = "entered" /\ q.kind = "resume" => q.target \in Ops /\ task[q.target].status \in Over,
           q.step \in {"checked", "claimed"} => q.op \in Ops /\ task[q.op] = NoTask,
           q.op # NoOp => q.op = req[r].op \/ \A s \in Requests : req[s].op # q.op,
           q.step = "checked" => \A o \in Ops : ~Resumable(o),
           req[r].batch = 0
    PROVE  WorkInv'
  <1>1. \A s \in Requests : req'[s] = IF s = r THEN q ELSE req[s]
    BY DEF WorkInv, WorkType
  <1>2. WorkType'
    BY DEF WorkInv, WorkType
  <1>3. ReqInv'
    <2>1. \A s \in Requests :
              /\ req'[s].step # "idle" => req'[s].by \in Members
              /\ req'[s].step \in {"idle", "entered"} => req'[s].op = NoOp
              /\ req'[s].step # "claimed" => req'[s].batch = 0
      BY <1>1 DEF WorkInv, ReqInv
    <2>2. \A s \in Requests :
              /\ req'[s].step = "entered" /\ req'[s].kind = "resume" =>
                    req'[s].target \in Ops /\ task'[req'[s].target].status \in Over
              /\ req'[s].step \in {"checked", "claimed"} => req'[s].op \in Ops /\ task'[req'[s].op] = NoTask
      BY <1>1 DEF WorkInv, ReqInv
    <2>3. \A s, t \in Requests : req'[s].op = req'[t].op /\ req'[s].op # NoOp => s = t
      BY <1>1 DEF WorkInv, ReqInv
    <2> QED BY <2>1, <2>2, <2>3 DEF ReqInv
  <1>4. FileInv'
    <2>1. \A s \in Requests : /\ req'[s].batch = 0 \/ req'[s].batch > budget["uploads"]
                              /\ req'[s].batch # 0 /\ req'[s].batch = set.ver => set.by = req'[s].op
      BY <1>1 DEF WorkInv, FileInv
    <2>2. \A s \in Requests : req[s].batch # 0 => req'[s] = req[s]
      BY <1>1
    <2> QED BY <2>1, <2>2 DEF WorkInv, FileInv
  <1>5. raced \/ ~Checking' \/ Checking \/ \A o \in Ops : ~Resumable(o)
    BY <1>1 DEF Checking
  <1> QED BY <1>2, <1>3, <1>4, <1>5, RequestsKeep

LEMMA SpendKeeps ==
    ASSUME budget \in [Events -> Nat], NEW event \in Events, Spend(event)
    PROVE  /\ budget' \in [Events -> Nat]
           /\ event # "uploads" => budget'["uploads"] = budget["uploads"]
           /\ event = "uploads" => budget["uploads"] > 0 /\ budget'["uploads"] = budget["uploads"] - 1
  BY WorkConstants DEF Spend

(* Nothing of the work changes. *)
LEMMA WorkSame ==
    ASSUME WorkInv, UNCHANGED <<task, episode, req, set, raced, late, died>>,
           budget' \in [Events -> Nat], budget'["uploads"] = budget["uploads"],
           \A m \in Members : user'[m] = "removed" => user[m] = "removed" \/ (LiveTasks(m) = {} /\ LiveEpisodes(m) = {})
    PROVE  WorkInv'
  <1>1. \A o \in Ops : Moved(task[o], task'[o])
    BY DEF Moved, WorkInv, RowInv
  <1>2. Ends
    BY DEF Ends
  <1>3. \A o \in Ops : Resumable(o)' => Resumable(o)
    BY DEF Resumable
  <1>4. /\ task' \in [Ops -> Rows] /\ episode' \in [Episodes -> EpisodeRows] /\ raced' \in BOOLEAN
    BY DEF WorkInv, WorkType
  <1> QED BY <1>1, <1>2, <1>3, <1>4, MovesKeep

(* One row of the ledger goes on. *)
LEMMA MoveKeeps ==
    ASSUME WorkInv, NEW o \in Ops, NEW row \in Rows, task' = [task EXCEPT ![o] = row], Moved(task[o], row),
           episode' \in [Episodes -> EpisodeRows], Ends, raced' \in BOOLEAN, raced => raced',
           budget' \in [Events -> Nat], budget'["uploads"] = budget["uploads"],
           UNCHANGED <<user, req, set, late, died>>,
           row.status = "paused" /\ row.saved /\ row.via = "turn" /\ task[o].status # "paused" /\ Checking => raced'
    PROVE  WorkInv'
  <1>1. \A c \in Ops : task'[c] = IF c = o THEN row ELSE task[c]
    BY DEF WorkInv, WorkType
  <1>2. \A c \in Ops : Moved(task[c], task'[c])
    BY <1>1 DEF Moved, WorkInv, RowInv
  <1>3. raced' \/ ~Checking' \/ \A c \in Ops : Resumable(c)' => Resumable(c)
    <2> SUFFICES ASSUME ~raced', Checking', NEW c \in Ops, Resumable(c)' PROVE Resumable(c)
      OBVIOUS
    <2>1. Checking
      BY DEF Checking
    <2>2. \A d \in Ops : task[d].parent # c
      BY <1>2 DEF Resumable, Moved
    <2>3. task'[c].status = "paused" /\ task'[c].saved /\ task'[c].via = "turn"
      BY DEF Resumable
    <2>4. CASE c = o
      <3>1. task[c].status = "paused"
        BY <1>1, <2>1, <2>3, <2>4
      <3>2. task[c].saved /\ task[c].via = "turn"
        BY <1>2, <2>3, <3>1 DEF Moved, Over
      <3> QED BY <2>2, <3>1, <3>2 DEF Resumable
    <2>5. CASE c # o
      BY <1>1, <2>2, <2>3, <2>5 DEF Resumable
    <2> QED BY <2>4, <2>5
  <1>4. task' \in [Ops -> Rows]
    BY DEF WorkInv, WorkType
  <1> QED BY <1>2, <1>3, <1>4, MovesKeep

(* Settling the stopped episodes, after a fence or without one, ends none that
   still has a live turn: a live turn has not been taken further. *)
LEMMA SettledKeeps ==
    ASSUME WorkInv, NEW runs \in [Episodes -> EpisodeRows],
           \A e \in Episodes : /\ runs[e].by = episode[e].by
                               /\ runs[e].status = "none" <=> episode[e].status = "none"
                               /\ runs[e].status \in LiveEpisode <=> episode[e].status \in LiveEpisode,
           episode' = Settled(task, runs)
    PROVE  episode' \in [Episodes -> EpisodeRows] /\ Ends
  <1>1. \A x \in EpisodeRows : \E y \in EpisodeRows :
            y = [x EXCEPT !.status = "stopped"] /\ y.status = "stopped" /\ y.by = x.by
    <2> TAKE x \in EpisodeRows
    <2>1. PICK y : y = [x EXCEPT !.status = "stopped"]
      OBVIOUS
    <2>2. y \in EpisodeRows /\ y.status = "stopped" /\ y.by = x.by
      BY <2>1 DEF EpisodeRows
    <2> QED BY <2>1, <2>2
  <1>2. \A e \in Episodes : \/ episode'[e] = runs[e]
                            \/ /\ runs[e].status = "stopping" /\ Unresolved(task, e) = {}
                               /\ episode'[e] = [runs[e] EXCEPT !.status = "stopped"]
    BY DEF Settled
  <1>3. \A e \in Episodes : \/ episode'[e] = runs[e]
                            \/ /\ runs[e].status = "stopping" /\ Unresolved(task, e) = {}
                               /\ episode'[e] \in EpisodeRows /\ episode'[e].status = "stopped"
                               /\ episode'[e].by = runs[e].by
    <2> TAKE e \in Episodes
    <2>1. PICK y \in EpisodeRows :
              y = [runs[e] EXCEPT !.status = "stopped"] /\ y.status = "stopped" /\ y.by = runs[e].by
      BY <1>1
    <2>2. episode'[e] = runs[e] \/ (runs[e].status = "stopping" /\ Unresolved(task, e) = {} /\ episode'[e] = y)
      BY <1>2, <2>1, Zenon
    <2> QED BY <2>1, <2>2, Zenon
  <1>4. episode' \in [Episodes -> EpisodeRows]
    <2>1. \A e \in Episodes : episode'[e] \in EpisodeRows
      BY <1>3
    <2> QED BY <2>1 DEF Settled
  <1>5. ASSUME NEW e \in Episodes, NEW o \in Ops, task[o].via = e, task[o].status \in Live
        PROVE  Unresolved(task, e) # {}
    <2>1. \A c \in Ops : task[c].parent # o
      BY <1>5 DEF WorkInv, LinkInv, Live, Over
    <2> QED BY <1>5, <2>1 DEF Unresolved, Leaves, Live
  <1>6. ASSUME NEW e \in Episodes
        PROVE  /\ episode'[e].by = episode[e].by
               /\ episode'[e].status = "none" <=> episode[e].status = "none"
               /\ episode'[e].status \in LiveEpisode => episode[e].status \in LiveEpisode
               /\ episode[e].status \in LiveEpisode /\ (\E o \in Ops : task[o].via = e /\ task[o].status \in Live) =>
                     episode'[e].status \in LiveEpisode
    <2>1. CASE episode'[e] = runs[e]
      BY <2>1
    <2>2. CASE runs[e].status = "stopping" /\ Unresolved(task, e) = {} /\ episode'[e].status = "stopped"
               /\ episode'[e].by = runs[e].by
      BY <1>5, <2>2 DEF LiveEpisode
    <2> QED BY <1>3, <2>1, <2>2, Zenon
  <1> QED BY <1>4, <1>6 DEF Ends

-----------------------------------------------------------------------------
(* The steps of a request. *)

(* What is known of the request that takes a step. *)
LEMMA RequestFacts ==
    ASSUME WorkInv, NEW r \in Requests
    PROVE  /\ req[r] \in ReqRows /\ req[r].batch \in Nat /\ req[r].op \in Ops \cup {NoOp}
           /\ req[r].step # "idle" => req[r].by \in Members
           /\ req[r].step \in {"idle", "entered"} => req[r].op = NoOp
           /\ req[r].step # "claimed" => req[r].batch = 0
           /\ req[r].step = "entered" /\ req[r].kind = "resume" =>
                 req[r].target \in Ops /\ task[req[r].target].status \in Over
           /\ req[r].step \in {"checked", "claimed"} => req[r].op \in Ops /\ task[req[r].op] = NoTask
           /\ \A s \in Requests : req[r].op = req[s].op /\ req[r].op # NoOp => r = s
           /\ req[r].batch = 0 \/ req[r].batch > budget["uploads"]
           /\ req[r].batch # 0 /\ req[r].batch = set.ver => set.by = req[r].op
  <1>1. req[r] \in ReqRows /\ req[r].batch \in Nat /\ req[r].op \in Ops \cup {NoOp}
    BY DEF WorkInv, WorkType, ReqRows
  <1> QED BY <1>1 DEF WorkInv, ReqInv, FileInv

LEMMA BudgetType == WorkInv => budget \in [Events -> Nat]
  BY DEF WorkInv, WorkType

(* A request that holds no files is answered. *)
LEMMA DropKeeps ==
    ASSUME WorkInv, NEW r \in Requests, req' = [req EXCEPT ![r] = NoReq], req[r].step # "claimed",
           UNCHANGED <<task, episode, user, late, raced, died, set, budget>>
    PROVE  WorkInv'
  <1>1. req[r].batch = 0
    BY RequestFacts
  <1>2. budget' \in [Events -> Nat] /\ budget'["uploads"] = budget["uploads"]
    BY BudgetType
  <1> QED BY <1>1, <1>2, EmptyRows, RequestKeeps

LEMMA AuthenticateKeeps ==
    ASSUME WorkInv, NEW r \in Requests, NEW m \in Members, NEW kind \in {"turn", "resume", "run"},
           NEW target \in Ops \cup {NoOp}, Authenticate(r, m, kind, target)
    PROVE  WorkInv'
  <1>1. PICK q : q = [NoReq EXCEPT !.step = "entered", !.by = m, !.kind = kind, !.target = target]
    OBVIOUS
  <1>2. /\ q \in ReqRows /\ q.step = "entered" /\ q.by = m /\ q.kind = kind /\ q.target = target
        /\ q.op = NoOp /\ q.batch = 0
    BY <1>1 DEF NoReq, ReqRows
  <1>3. req' = [req EXCEPT ![r] = q] /\ UNCHANGED <<task, episode, user, late, raced, died, set>>
    BY <1>1 DEF Authenticate, teamVars, workVars, ghostVars
  <1>4. kind = "resume" => target \in Ops /\ task[target].status \in Over
    BY DEF Authenticate, Over
  <1>5. budget' \in [Events -> Nat] /\ budget'["uploads"] = budget["uploads"]
    <2>1. PICK event \in Events : event # "uploads" /\ Spend(event)
      BY DEF Authenticate, Events
    <2> QED BY <2>1, BudgetType, SpendKeeps
  <1>6. req[r].batch = 0
    BY EmptyRows DEF Authenticate
  <1> QED BY <1>2, <1>3, <1>4, <1>5, <1>6, RequestKeeps

LEMMA CheckPausedTurnKeeps ==
    ASSUME WorkInv, NEW r \in Requests, CheckPausedTurn(r)
    PROVE  WorkInv'
  <1>1. UNCHANGED <<task, episode, user, late, raced, died, set, budget>>
    BY DEF CheckPausedTurn, teamVars, workVars, ghostVars
  <1>2. req[r].step = "entered"
    BY DEF CheckPausedTurn
  <1>3. CASE req' = [req EXCEPT ![r] = NoReq]
    BY <1>1, <1>2, <1>3, DropKeeps
  <1>4. ASSUME NEW o \in Ops, ~PausedTurnBlocks, Unused(o),
               req' = [req EXCEPT ![r] = [@ EXCEPT !.step = "checked", !.op = o]]
        PROVE  WorkInv'
    <2>1. PICK q : q = [req[r] EXCEPT !.step = "checked", !.op = o]
      OBVIOUS
    <2>2. /\ q \in ReqRows /\ q.step = "checked" /\ q.by = req[r].by /\ q.op = o /\ q.batch = req[r].batch
      BY <2>1, RequestFacts DEF ReqRows
    <2>3. req' = [req EXCEPT ![r] = q]
      BY <1>4, <2>1
    <2>4. \A s \in Requests : req[s].op # o
      BY <1>4 DEF Unused, Reserved
    <2>5. task[o] = NoTask /\ \A c \in Ops : ~Resumable(c)
      BY <1>4 DEF Unused, PausedTurnBlocks
    <2>6. req[r].batch = 0 /\ req[r].by \in Members
      BY <1>2, RequestFacts
    <2>7. budget' \in [Events -> Nat] /\ budget'["uploads"] = budget["uploads"]
      BY <1>1, BudgetType
    <2> QED BY <1>1, <2>2, <2>3, <2>4, <2>5, <2>6, <2>7, RequestKeeps
  <1> QED BY <1>3, <1>4 DEF CheckPausedTurn

LEMMA NothingLeftKeeps ==
    ASSUME WorkInv, NEW r \in Requests, NothingLeft(r)
    PROVE  WorkInv'
  <1>1. /\ UNCHANGED <<task, episode, user, late, raced, died, set, budget>>
        /\ req[r].step # "claimed" /\ req' = [req EXCEPT ![r] = NoReq]
    BY DEF NothingLeft, teamVars, workVars, ghostVars
  <1> QED BY <1>1, DropKeeps

(* Before its claim a request does not have the set, unless the process died. *)
LEMMA NotYetClaimed ==
    ASSUME WorkInv, NEW r \in Requests, req[r].step = "checked"
    PROVE  died \/ set.by # req[r].op
  <1>1. req[r].op \in Ops /\ task[req[r].op] = NoTask /\ req[r].batch = 0
    BY RequestFacts
  <1>2. \A s \in Requests : req[s].op = req[r].op => s = r
    BY <1>1, WorkConstants DEF WorkInv, ReqInv
  <1> QED BY <1>1, <1>2, WorkConstants DEF WorkInv, FileInv

LEMMA claimKeeps ==
    ASSUME WorkInv, NEW r \in Requests, claim(r)
    PROVE  WorkInv'
  <1>1. /\ UNCHANGED <<task, episode, user, late, raced, died, budget>> /\ req[r].step = "checked"
    BY DEF claim, teamVars, workVars, ghostVars
  <1>2. budget' \in [Events -> Nat] /\ budget'["uploads"] = budget["uploads"]
    BY <1>1, BudgetType
  <1>3. /\ req[r].op \in Ops /\ task[req[r].op] = NoTask /\ req[r].batch = 0 /\ req[r].by \in Members
        /\ req[r] \in ReqRows
    BY <1>1, RequestFacts
  <1>4. CASE req' = [req EXCEPT ![r] = [@ EXCEPT !.step = "claimed"]] /\ UNCHANGED set
    <2>1. PICK q : q = [req[r] EXCEPT !.step = "claimed"]
      OBVIOUS
    <2>2. q \in ReqRows /\ q.step = "claimed" /\ q.by = req[r].by /\ q.op = req[r].op /\ q.batch = req[r].batch
      BY <1>3, <2>1 DEF ReqRows
    <2>3. req' = [req EXCEPT ![r] = q]
      BY <1>4, <2>1
    <2> QED BY <1>1, <1>2, <1>3, <1>4, <2>2, <2>3, RequestKeeps
  <1>5. CASE req' = [req EXCEPT ![r] = NoReq] /\ UNCHANGED set
    BY <1>1, <1>5, DropKeeps
  <1>6. CASE /\ Claimable(req[r].op) /\ set' = [set EXCEPT !.by = req[r].op]
             /\ req' = [req EXCEPT ![r] = [@ EXCEPT !.step = "claimed", !.batch = set.ver]]
    <2>1. PICK q : q = [req[r] EXCEPT !.step = "claimed", !.batch = set.ver]
      OBVIOUS
    <2>2. set.ver \in Nat /\ set.ver # 0 /\ set.by \in {NoOp, req[r].op}
      BY <1>6 DEF Claimable, WorkInv, WorkType
    <2>3. /\ q \in ReqRows /\ q.step = "claimed" /\ q.by = req[r].by /\ q.op = req[r].op
          /\ q.batch = set.ver
      BY <1>3, <2>1, <2>2 DEF ReqRows
    <2>4. \A s \in Requests : req'[s] = IF s = r THEN q ELSE req[s]
      BY <1>6, <2>1 DEF WorkInv, WorkType
    <2>5. set' \in [ver : Nat, by : Ops \cup {NoOp}] /\ set'.ver = set.ver /\ set'.by = req[r].op
      BY <1>3, <1>6 DEF WorkInv, WorkType
    <2>6. WorkType'
      BY <1>1, <1>6, <2>1, <2>3, <2>5 DEF WorkInv, WorkType
    <2>7. ReqInv'
      <3>1. \A s \in Requests :
                /\ req'[s].step # "idle" => req'[s].by \in Members
                /\ req'[s].step \in {"idle", "entered"} => req'[s].op = NoOp
                /\ req'[s].step # "claimed" => req'[s].batch = 0
        BY <1>3, <2>3, <2>4 DEF WorkInv, ReqInv
      <3>2. \A s \in Requests :
                /\ req'[s].step = "entered" /\ req'[s].kind = "resume" =>
                      req'[s].target \in Ops /\ task'[req'[s].target].status \in Over
                /\ req'[s].step \in {"checked", "claimed"} => req'[s].op \in Ops /\ task'[req'[s].op] = NoTask
        BY <1>1, <1>3, <2>3, <2>4 DEF WorkInv, ReqInv
      <3>3. \A s, t \in Requests : req'[s].op = req'[t].op /\ req'[s].op # NoOp => s = t
        BY <2>3, <2>4 DEF WorkInv, ReqInv
      <3> QED BY <3>1, <3>2, <3>3 DEF ReqInv
    <2>8. FileInv'
      <3>1. \A o \in Ops : task[o].parent = NoOp /\ task[o].batch # 0 /\ task[o].batch = set.ver => o = req[r].op
        BY <2>2, WorkConstants DEF WorkInv, FileInv
      <3>2. \A s \in Requests : req[s].batch # 0 /\ req[s].batch = set.ver => req[s].op = req[r].op
        <4> SUFFICES ASSUME NEW s \in Requests, req[s].batch # 0, req[s].batch = set.ver
            PROVE  req[s].op = req[r].op
          OBVIOUS
        <4>1. set.by = req[s].op /\ req[s].op # NoOp
          BY RequestFacts, WorkConstants
        <4> QED BY <2>2, <4>1
      <3>3. \A s \in Requests : /\ req'[s].batch = 0 \/ req'[s].batch > budget["uploads"]
                                /\ req'[s].batch # 0 /\ req'[s].batch = set.ver => req'[s].op = req[r].op
        BY <2>2, <2>3, <2>4, <3>2 DEF WorkInv, FileInv
      <3>4. req'[r].op = req[r].op /\ req'[r].batch # 0
        BY <2>2, <2>3, <2>4
      <3> QED BY <1>1, <2>2, <2>5, <3>1, <3>3, <3>4 DEF WorkInv, FileInv
    <2>9. Checking
      BY <1>1 DEF Checking
    <2> QED BY <1>1, <2>6, <2>7, <2>8, <2>9, RequestsKeep
  <1> QED BY <1>4, <1>5, <1>6 DEF claim

(* create_agent_task refuses: the claim goes back. *)
LEMMA ReleaseKeeps ==
    ASSUME WorkInv, NEW r \in Requests, req[r].step = "claimed", release(r), req' = [req EXCEPT ![r] = NoReq],
           UNCHANGED <<task, episode, user, late, raced, died, budget>>
    PROVE  WorkInv'
  <1>1. \A s \in Requests : req'[s] = IF s = r THEN NoReq ELSE req[s]
    BY DEF WorkInv, WorkType
  <1>2. req[r].op \in Ops /\ task[req[r].op] = NoTask /\ \A s \in Requests : req[s].op = req[r].op => s = r
    <2>1. req[r].op \in Ops /\ task[req[r].op] = NoTask
      BY RequestFacts
    <2> QED BY <2>1, WorkConstants DEF WorkInv, ReqInv
  <1>3. /\ set' \in [ver : Nat, by : Ops \cup {NoOp}] /\ set'.ver = set.ver
        /\ set'.by = set.by \/ (set'.by = NoOp /\ set.by = req[r].op)
        /\ req[r].batch # 0 => set'.by # req[r].op
    BY <1>2, WorkConstants DEF WorkInv, WorkType, release
  <1>4. WorkType'
    BY <1>3, EmptyRows DEF WorkInv, WorkType
  <1>5. ReqInv'
    <2>1. \A s \in Requests :
              /\ req'[s].step # "idle" => req'[s].by \in Members
              /\ req'[s].step \in {"idle", "entered"} => req'[s].op = NoOp
              /\ req'[s].step # "claimed" => req'[s].batch = 0
      BY <1>1, EmptyRows DEF WorkInv, ReqInv
    <2>2. \A s \in Requests :
              /\ req'[s].step = "entered" /\ req'[s].kind = "resume" =>
                    req'[s].target \in Ops /\ task'[req'[s].target].status \in Over
              /\ req'[s].step \in {"checked", "claimed"} => req'[s].op \in Ops /\ task'[req'[s].op] = NoTask
      BY <1>1, EmptyRows DEF WorkInv, ReqInv
    <2>3. \A s, t \in Requests : req'[s].op = req'[t].op /\ req'[s].op # NoOp => s = t
      BY <1>1, EmptyRows DEF WorkInv, ReqInv
    <2> QED BY <2>1, <2>2, <2>3 DEF ReqInv
  <1>6. FileInv'
    <2>1. \A o \in Ops : task[o].parent = NoOp /\ task[o].batch # 0 /\ task[o].batch = set.ver => set'.by = o
      BY <1>2, <1>3, EmptyRows DEF WorkInv, FileInv
    <2>2. \A s \in Requests : /\ req'[s].batch = 0 \/ req'[s].batch > budget["uploads"]
                              /\ req'[s].batch # 0 /\ req'[s].batch = set.ver => set'.by = req'[s].op
      BY <1>1, <1>2, <1>3, EmptyRows DEF WorkInv, FileInv
    <2>3. \/ died \/ set'.by = NoOp \/ task[set'.by] # NoTask
          \/ \E s \in Requests : req'[s].op = set'.by /\ req'[s].batch # 0
      <3>1. CASE set'.by = set.by
        BY <1>1, <1>3, <3>1 DEF WorkInv, FileInv
      <3> QED BY <1>3, <3>1
    <2> QED BY <1>3, <2>1, <2>2, <2>3 DEF WorkInv, FileInv
  <1>7. Checking
    BY DEF Checking
  <1> QED BY <1>4, <1>5, <1>6, <1>7, RequestsKeep

(* A request of someone removed was overtaken: who is removed has no seat. *)
LEMMA OvertakenIs ==
    ASSUME TeamInv, NEW r \in Requests, req[r].by \in Members, NEW x
    PROVE  late \subseteq Overtaken(r, x) /\ (user[req[r].by] = "removed" => x \in Overtaken(r, x))
  BY WorkConstants DEF Overtaken, TeamInv, AccessIsRight, AccessStaysRevoked

LEMMA InsertTurnKeeps ==
    ASSUME TeamInv, WorkInv, NEW r \in Requests, InsertTurn(r)
    PROVE  WorkInv'
  <1>1. /\ UNCHANGED <<episode, user, raced, died, budget>> /\ req[r].step = "claimed"
        /\ req' = [req EXCEPT ![r] = NoReq]
    BY DEF InsertTurn, teamVars
  <1>2. CASE Overlap
    BY <1>1, <1>2, ReleaseKeeps DEF InsertTurn
  <1>3. CASE ~Overlap
    <2>1. PICK row : row = Row(r, "turn")
      OBVIOUS
    <2>2. /\ req[r].op \in Ops /\ task[req[r].op] = NoTask /\ req[r].by \in Members /\ req[r].batch \in Nat
          /\ req[r].batch = 0 \/ req[r].batch > budget["uploads"]
          /\ req[r].batch # 0 /\ req[r].batch = set.ver => set.by = req[r].op
          /\ \A s \in Requests : req[s].op = req[r].op => r = s
      BY <1>1, RequestFacts, WorkConstants
    <2>3. /\ row \in Rows /\ row.status = "queued" /\ row.by = req[r].by /\ row.via = "turn" /\ ~row.runs
          /\ row.staged = 0 /\ row.parent = NoOp /\ row.batch = req[r].batch
      BY <2>1, <2>2 DEF Row, NoTask, Rows, Statuses, Live
    <2>4. task' = [task EXCEPT ![req[r].op] = row] /\ UNCHANGED set /\ late' = Overtaken(r, req[r].op)
      BY <1>3, <2>1 DEF InsertTurn
    <2>5. \A s \in Requests : req'[s] = IF s = r THEN NoReq ELSE req[s]
      BY <1>1 DEF WorkInv, WorkType
    <2>6. req' \in [Requests -> ReqRows] /\ episode' \in [Episodes -> EpisodeRows]
      BY <1>1, EmptyRows DEF WorkInv, WorkType
    <2>7. ~Busy("turn") /\ (raced \/ \A c \in Ops : ~Resumable(c))
      BY <1>1, <1>3 DEF Overlap, WorkInv, TurnInv, Checking
    <2>8. \A s \in Requests : \/ req'[s] = req[s] /\ req[s].op # req[r].op
                              \/ req'[s] = NoReq /\ req[s].op \in {req[r].op, NoOp}
      BY <2>2, <2>5
    <2>9. PICK o \in Ops : o = req[r].op
      BY <2>2
    <2>10. /\ task[o] = NoTask /\ task' = [task EXCEPT ![o] = row]
           /\ \A s \in Requests : \/ req'[s] = req[s] /\ req[s].op # o
                                  \/ req'[s] = NoReq /\ req[s].op \in {o, NoOp}
      BY <2>2, <2>4, <2>8, <2>9
    <2>11. row.batch # 0 /\ row.batch = set.ver => set.by = o
      BY <2>2, <2>3, <2>9
    <2>12. row.batch = 0 \/ row.batch > budget["uploads"]
      BY <2>2, <2>3
    <2>13. row.by \in Members /\ row.via # "none" /\ row.via \notin Episodes /\ row.parent \notin Ops
      BY <2>2, <2>3, WorkConstants
    <2>14. late \subseteq late' /\ (user[row.by] = "removed" => o \in late')
      BY <2>2, <2>3, <2>4, <2>9, OvertakenIs
    <2> QED BY <1>1, <2>3, <2>4, <2>6, <2>7, <2>10, <2>11, <2>12, <2>13, <2>14, InsertKeeps
  <1> QED BY <1>2, <1>3

(* A turn is taken further by a person or by the start of the process. *)
LEMMA ChildKeeps ==
    ASSUME WorkInv, NEW l \in Ops, task[l].status \in Over, NEW o \in Ops, Unused(o), NEW by \in Members \cup {NoOne},
           task[l].via \in Episodes => episode[task[l].via].status \in LiveEpisode,
           task[l].via \notin Episodes => by \in Members,
           ~Busy(task[l].via), task' = [task EXCEPT ![o] = Child(l, by)],
           req' \in [Requests -> ReqRows],
           \A r \in Requests : req'[r] = req[r] \/ (req'[r] = NoReq /\ req[r].op = NoOp),
           UNCHANGED <<episode, user, set, raced, died, budget>>,
           late \subseteq late', task[l].via = "turn" /\ user[by] = "removed" => o \in late'
    PROVE  WorkInv'
  <1>1. task[o] = NoTask /\ \A r \in Requests : req[r].op # o
    BY DEF Unused, Reserved
  <1>2. task[l] \in Rows /\ task[l].via # "none" /\ task[l].by \in Members
    BY DEF WorkInv, WorkType, RowInv, Over
  <1>3. PICK who : who = IF task[l].via \in Episodes THEN episode[task[l].via].by ELSE by
    OBVIOUS
  <1>4. who \in Members
    BY <1>3 DEF WorkInv, EpisodeInv, LiveEpisode
  <1>5. PICK row : row = Child(l, by)
    OBVIOUS
  <1>6. row = [NoTask EXCEPT !.status = "queued", !.via = task[l].via, !.parent = l, !.saved = TRUE,
                             !.by = who, !.batch = task[l].batch]
    BY <1>3, <1>5 DEF Child
  <1>7. task[l].via \in Episodes \cup {"none", "turn"} /\ task[l].batch \in Nat
    BY <1>2 DEF Rows
  <1>8. /\ row \in Rows /\ row.status = "queued" /\ row.by = who /\ row.via = task[l].via /\ ~row.runs
        /\ row.staged = 0 /\ row.parent = l /\ row.batch = task[l].batch
    BY <1>4, <1>6, <1>7 DEF NoTask, Rows, Statuses, Live
  <1>9. task' = [task EXCEPT ![o] = row]
    BY <1>5
  <1>10. row.by \in Members /\ row.via # "none" /\ row.parent # NoOp /\ task[row.parent].status \in Over
    BY <1>2, <1>4, <1>8, WorkConstants
  <1>11. row.via \in Episodes => row.by = episode'[row.via].by /\ episode'[row.via].status \in LiveEpisode
    BY <1>3, <1>8
  <1>12. row.via = "turn" => ~Busy("turn")
    BY <1>8
  <1>13. row.batch = 0 \/ row.batch > budget["uploads"]
    BY <1>8 DEF WorkInv, FileInv
  <1>14. episode' \in [Episodes -> EpisodeRows]
    BY DEF WorkInv, WorkType
  <1>15. \A r \in Requests : \/ req'[r] = req[r] /\ req[r].op # o
                             \/ req'[r] = NoReq /\ req[r].op \in {o, NoOp}
    BY <1>1
  <1>16. row.via = "turn" /\ user[row.by] = "removed" => o \in late'
    BY <1>3, <1>8, WorkConstants
  <1> QED BY <1>1, <1>8, <1>9, <1>10, <1>11, <1>12, <1>13, <1>14, <1>15, <1>16, InsertKeeps

LEMMA InsertResumeKeeps ==
    ASSUME TeamInv, WorkInv, NEW r \in Requests, InsertResume(r)
    PROVE  WorkInv'
  <1>1. /\ UNCHANGED <<episode, user, raced, died, set, budget>> /\ req[r].step = "entered"
        /\ req' = [req EXCEPT ![r] = NoReq]
    BY DEF InsertResume, teamVars
  <1>2. CASE UNCHANGED <<task, late>>
    BY <1>1, <1>2, DropKeeps
  <1>3. CASE /\ ~Busy(task[req[r].target].via)
             /\ task[req[r].target].via \in Episodes => episode[task[req[r].target].via].status \in LiveEpisode
             /\ \E o \in Ops : /\ Unused(o) /\ late' = Overtaken(r, o)
                               /\ task' = [task EXCEPT ![o] = Child(req[r].target, req[r].by)]
    <2>1. PICK l \in Ops : l = req[r].target /\ task[l].status \in Over
      BY <1>1, RequestFacts DEF InsertResume
    <2>2. PICK o \in Ops : /\ Unused(o) /\ late' = Overtaken(r, o)
                           /\ task' = [task EXCEPT ![o] = Child(l, req[r].by)]
      BY <1>3, <2>1
    <2>3. req[r].by \in Members /\ req[r].op = NoOp
      BY <1>1, RequestFacts
    <2>4. req' \in [Requests -> ReqRows] /\ \A s \in Requests : req'[s] = IF s = r THEN NoReq ELSE req[s]
      BY <1>1, EmptyRows DEF WorkInv, WorkType
    <2>5. PICK by : by = req[r].by
      OBVIOUS
    <2>6. /\ task[l].via \in Episodes => episode[task[l].via].status \in LiveEpisode
          /\ ~Busy(task[l].via) /\ task' = [task EXCEPT ![o] = Child(l, by)] /\ by \in Members
      BY <1>3, <2>1, <2>2, <2>3, <2>5
    <2>7. \A s \in Requests : req'[s] = req[s] \/ (req'[s] = NoReq /\ req[s].op = NoOp)
      BY <2>3, <2>4
    <2>8. late \subseteq late' /\ (user[by] = "removed" => o \in late')
      BY <2>2, <2>3, <2>5, OvertakenIs
    <2> QED BY <1>1, <2>1, <2>2, <2>4, <2>6, <2>7, <2>8, ChildKeeps
  <1> QED BY <1>2, <1>3 DEF InsertResume

(* The first turn of an episode, and the one a watcher wakes. *)
EpisodeTurn(e, m) ==
    [status |-> "queued", by |-> m, parent |-> NoOp, saved |-> FALSE, owned |-> FALSE, runs |-> FALSE,
     stop |-> FALSE, via |-> e, batch |-> 0, staged |-> 0]

LEMMA EpisodeTurnRow ==
    ASSUME NEW e \in Episodes, NEW m \in Members, NEW row, row = EpisodeTurn(e, m)
    PROVE  /\ row \in Rows /\ row.status = "queued" /\ row.by = m /\ row.via = e /\ ~row.runs
           /\ row.staged = 0 /\ row.parent = NoOp /\ row.batch = 0
  BY DEF EpisodeTurn, Rows, Statuses, Live

LEMMA InsertEpisodeKeeps ==
    ASSUME TeamInv, WorkInv, NEW r \in Requests, InsertEpisode(r)
    PROVE  WorkInv'
  <1>1. /\ UNCHANGED <<user, raced, died, set, budget>> /\ req[r].step = "entered"
        /\ req' = [req EXCEPT ![r] = NoReq]
    BY DEF InsertEpisode, teamVars
  <1>2. PICK e \in Episodes, o \in Ops :
            /\ episode[e].status = "none" /\ Unused(o)
            /\ episode' = [episode EXCEPT ![e] = [status |-> "running", by |-> req[r].by]]
            /\ task' = [task EXCEPT ![o] = Row(r, e)]
            /\ late' = Overtaken(r, e)
    BY DEF InsertEpisode
  <1>3. req[r].by \in Members /\ req[r].op = NoOp /\ req[r].batch = 0
    BY <1>1, RequestFacts
  <1>4. task[o] = NoTask /\ \A s \in Requests : req[s].op # o
    BY <1>2 DEF Unused, Reserved
  <1>5. PICK row : row = Row(r, e)
    OBVIOUS
  <1>6. /\ row \in Rows /\ row.status = "queued" /\ row.by = req[r].by /\ row.via = e /\ ~row.runs
        /\ row.staged = 0 /\ row.parent = NoOp /\ row.batch = 0
    <2>1. PICK m \in Members : m = req[r].by
      BY <1>3
    <2>2. row = [NoTask EXCEPT !.status = "queued", !.by = m, !.via = e, !.batch = 0]
      BY <1>3, <1>5, <2>1 DEF Row
    <2>3. row = EpisodeTurn(e, m)
      BY <2>2 DEF NoTask, EpisodeTurn
    <2> QED BY <2>1, <2>3, EpisodeTurnRow
  <1>7. task' = [task EXCEPT ![o] = row]
    BY <1>2, <1>5
  <1>8. PICK new : new = [status |-> "running", by |-> req[r].by]
    OBVIOUS
  <1>9. /\ \A f \in Episodes : episode'[f] = IF f = e THEN new ELSE episode[f]
        /\ episode'[e].status = "running" /\ episode'[e].by = req[r].by
    <2>1. episode' = [episode EXCEPT ![e] = new] /\ new.status = "running" /\ new.by = req[r].by
      BY <1>2, <1>8
    <2> QED BY <2>1 DEF WorkInv, WorkType
  <1>10. episode' \in [Episodes -> EpisodeRows]
    BY <1>2, <1>3 DEF WorkInv, WorkType, EpisodeRows, LiveEpisode
  <1>11. user[req[r].by] = "removed" => e \in late'
    BY <1>2, <1>3, OvertakenIs
  <1>12. \A f \in Episodes : \/ episode'[f] = episode[f]
                             \/ /\ episode[f].status = "none" /\ episode'[f].by \in Members
                                /\ episode'[f].status # "none"
                                /\ user[episode'[f].by] = "removed" => f \in late'
    BY <1>2, <1>3, <1>9, <1>11
  <1>13. late \subseteq late'
    BY <1>2, <1>3, OvertakenIs
  <1>14. req' \in [Requests -> ReqRows] /\ \A s \in Requests : req'[s] = IF s = r THEN NoReq ELSE req[s]
    BY <1>1, EmptyRows DEF WorkInv, WorkType
  <1>15. \A s \in Requests : \/ req'[s] = req[s] /\ req[s].op # o
                             \/ req'[s] = NoReq /\ req[s].op \in {o, NoOp}
    BY <1>3, <1>4, <1>14
  <1>16. /\ row.by \in Members /\ row.via # "none" /\ row.via # "turn" /\ row.parent \notin Ops
         /\ row.by = episode'[row.via].by /\ episode'[row.via].status \in LiveEpisode
    BY <1>3, <1>6, <1>9, WorkConstants DEF LiveEpisode
  <1> QED BY <1>1, <1>4, <1>6, <1>7, <1>10, <1>12, <1>13, <1>14, <1>15, <1>16, InsertKeeps

-----------------------------------------------------------------------------
(* The attachment set. *)

LEMMA FilesKeep ==
    ASSUME WorkInv, add \/ remove \/ sweep
    PROVE  WorkInv'
  <1>1. UNCHANGED <<task, episode, user, req, late, raced, died>>
    BY DEF add, remove, sweep, teamVars, workVars, ghostVars
  <1>2. /\ budget' \in [Events -> Nat] /\ budget'["uploads"] \in Nat /\ budget["uploads"] \in Nat
        /\ budget'["uploads"] <= budget["uploads"]
        /\ add => budget["uploads"] > budget'["uploads"]
    <2>0. budget \in [Events -> Nat] /\ "expiries" \in Events /\ "uploads" \in Events /\ "uploads" # "expiries"
      BY BudgetType DEF Events
    <2>1. CASE add
      BY <2>0, <2>1, SpendKeeps DEF add
    <2>2. CASE sweep /\ ~add
      BY <2>0, <2>2, SpendKeeps DEF sweep
    <2>3. CASE remove /\ ~add
      BY <2>0, <2>3 DEF remove
    <2> QED BY <2>1, <2>2, <2>3
  <1>3. \/ set' = NoSet
        \/ add /\ set.by = NoOp /\ set' = [set EXCEPT !.ver = budget["uploads"]]
    BY DEF add, remove, sweep
  <1>4. /\ set' \in [ver : Nat, by : Ops \cup {NoOp}] /\ set'.by = NoOp
        /\ set'.ver = 0 \/ (set'.ver = budget["uploads"] /\ add)
    BY <1>2, <1>3 DEF NoSet, WorkInv, WorkType
  <1>5. WorkType'
    BY <1>1, <1>2, <1>4 DEF WorkInv, WorkType
  <1>6. ReqInv'
    BY <1>1 DEF WorkInv, ReqInv
  <1>7. FileInv'
    <2>1. \A o \in Ops : task[o].batch \in Nat /\ (task[o].batch = 0 \/ task[o].batch > budget["uploads"])
      BY DEF WorkInv, WorkType, Rows, FileInv
    <2>2. \A r \in Requests : req[r].batch \in Nat /\ (req[r].batch = 0 \/ req[r].batch > budget["uploads"])
      BY DEF WorkInv, WorkType, ReqRows, FileInv
    <2>3. \A n \in Nat : n > budget["uploads"] => n > budget'["uploads"] /\ n # set'.ver
      BY <1>2, <1>4
    <2>4. set'.ver = 0 \/ set'.ver > budget'["uploads"]
      BY <1>2, <1>4
    <2> QED BY <1>1, <1>4, <2>1, <2>2, <2>3, <2>4 DEF FileInv
  <1>8. Checking' => Checking
    BY <1>1 DEF Checking
  <1> QED BY <1>1, <1>5, <1>6, <1>7, <1>8, RequestsKeep

-----------------------------------------------------------------------------
(* Workers, watchers and the start of the process. *)

LEMMA TaskFacts ==
    ASSUME WorkInv, NEW o \in Ops
    PROVE  /\ task[o] \in Rows /\ task[o].status \in Statuses /\ task[o].batch \in Nat
           /\ task[o].owned \in BOOLEAN /\ task[o].runs \in BOOLEAN /\ task[o].saved \in BOOLEAN
           /\ task[o].status = "none" => task[o] = NoTask
           /\ task[o].status # "none" => task[o].by \in Members /\ task[o].via # "none"
           /\ task[o].runs => task[o].owned /\ task[o].status \in {"running", "pausing"}
           /\ task[o].staged # 0 => task[o].staged = task[o].batch
  <1>1. task[o] \in Rows
    BY DEF WorkInv, WorkType
  <1> QED BY <1>1 DEF WorkInv, RowInv, Rows

(* The episodes stay as they are. *)
LEMMA EpisodesSame ==
    ASSUME WorkInv, UNCHANGED episode
    PROVE  episode' \in [Episodes -> EpisodeRows] /\ Ends
  BY DEF WorkInv, WorkType, Ends

LEMMA LaunchKeeps ==
    ASSUME WorkInv, NEW o \in Ops, Launch(o)
    PROVE  WorkInv'
  <1>1. /\ UNCHANGED <<episode, user, req, set, late, raced, died, budget>> /\ task[o].status = "queued"
    BY DEF Launch, teamVars, ghostVars
  <1>2. \E row \in Rows : task' = [task EXCEPT ![o] = row] /\ Moved(task[o], row) /\ row.status # "paused"
    <2>1. CASE task' = [task EXCEPT ![o] = [@ EXCEPT !.owned = TRUE]]
      <3>1. PICK row : row = [task[o] EXCEPT !.owned = TRUE]
        OBVIOUS
      <3>2. row \in Rows /\ Moved(task[o], row) /\ row.status = "queued"
        BY <1>1, <3>1, TaskFacts DEF Moved, Rows, Over
      <3> QED BY <2>1, <3>1, <3>2
    <2>2. CASE task' = [task EXCEPT ![o] = [@ EXCEPT !.status = "failed"]]
      <3>1. PICK row : row = [task[o] EXCEPT !.status = "failed"]
        OBVIOUS
      <3>2. row \in Rows /\ Moved(task[o], row) /\ row.status = "failed"
        BY <1>1, <3>1, TaskFacts DEF Moved, Rows, Over, Statuses
      <3> QED BY <2>2, <3>1, <3>2
    <2>3. CASE /\ task[o].owned /\ ~(task[o].batch # 0 /\ ~StageFits(o))
               /\ task' = [task EXCEPT ![o] = [@ EXCEPT !.status = "running", !.runs = TRUE, !.saved = TRUE,
                                   !.staged = IF task[o].batch = 0 THEN 0 ELSE set.ver]]
      <3>0. PICK n \in Nat : n = (IF task[o].batch = 0 THEN 0 ELSE set.ver) /\ (n # 0 => n = task[o].batch)
        BY <2>3, TaskFacts DEF StageFits, WorkInv, WorkType
      <3>1. PICK row : row = [task[o] EXCEPT !.status = "running", !.runs = TRUE, !.saved = TRUE, !.staged = n]
        OBVIOUS
      <3>2. row \in Rows
        BY <3>1, TaskFacts DEF Rows, Statuses, Live
      <3>3. /\ row.status = "running" /\ row.runs /\ row.staged = n /\ row.owned = task[o].owned
            /\ row.by = task[o].by /\ row.parent = task[o].parent /\ row.via = task[o].via
            /\ row.batch = task[o].batch
        BY <3>1, TaskFacts DEF Rows
      <3>4. Moved(task[o], row)
        BY <1>1, <2>3, <3>0, <3>3 DEF Moved, Over
      <3>5. task' = [task EXCEPT ![o] = row]
        BY <2>3, <3>0, <3>1
      <3> QED BY <3>2, <3>3, <3>4, <3>5
    <2> QED BY <2>1, <2>2, <2>3 DEF Launch
  <1>3. budget' \in [Events -> Nat] /\ budget'["uploads"] = budget["uploads"] /\ raced' \in BOOLEAN
    BY <1>1 DEF WorkInv, WorkType
  <1>4. episode' \in [Episodes -> EpisodeRows] /\ Ends
    BY <1>1, EpisodesSame
  <1> QED BY <1>1, <1>2, <1>3, <1>4, MoveKeeps

LEMMA SettleKeeps ==
    ASSUME WorkInv, NEW o \in Ops, Settle(o)
    PROVE  WorkInv'
  <1>1. /\ UNCHANGED <<episode, user, req, set, late, died, budget>>
        /\ task[o].status \in {"running", "pausing"}
    BY DEF Settle, teamVars
  <1>2. PICK s \in {"done", "failed", "paused"} :
            /\ task' = [task EXCEPT ![o] = [@ EXCEPT !.status = s, !.runs = FALSE, !.stop = FALSE]]
            /\ raced' = (raced \/ (s = "paused" /\ task[o].saved /\ task[o].via = "turn" /\ Checking))
    BY DEF Settle
  <1>3. PICK row : row = [task[o] EXCEPT !.status = s, !.runs = FALSE, !.stop = FALSE]
    OBVIOUS
  <1>4. row \in Rows
    BY <1>3, TaskFacts DEF Rows, Statuses
  <1>5. /\ row.status = s /\ ~row.runs /\ row.staged = task[o].staged /\ row.by = task[o].by
        /\ row.parent = task[o].parent /\ row.via = task[o].via /\ row.batch = task[o].batch
        /\ row.saved = task[o].saved
    BY <1>3, TaskFacts DEF Rows
  <1>6. Moved(task[o], row)
    BY <1>1, <1>5, TaskFacts DEF Moved, Over
  <1>7. budget' \in [Events -> Nat] /\ budget'["uploads"] = budget["uploads"]
    BY <1>1 DEF WorkInv, WorkType
  <1>8. raced' \in BOOLEAN /\ (raced => raced')
    BY <1>2 DEF WorkInv, WorkType
  <1>9. row.status = "paused" /\ row.saved /\ row.via = "turn" /\ task[o].status # "paused" /\ Checking => raced'
    BY <1>2, <1>5
  <1>10. episode' \in [Episodes -> EpisodeRows] /\ Ends /\ task' = [task EXCEPT ![o] = row]
    BY <1>1, <1>2, <1>3, EpisodesSame
  <1> QED BY <1>1, <1>4, <1>6, <1>7, <1>8, <1>9, <1>10, MoveKeeps

LEMMA TaskSettledKeeps ==
    ASSUME WorkInv, NEW o \in Ops, _task_settled(o)
    PROVE  WorkInv'
  <1>1. /\ UNCHANGED <<user, req, set, late, raced, died, budget>> /\ task[o].status \notin Live
    BY DEF _task_settled, teamVars, ghostVars
  <1>2. PICK row : row = [task[o] EXCEPT !.owned = FALSE]
    OBVIOUS
  <1>3. row \in Rows
    BY <1>2, TaskFacts DEF Rows
  <1>4. /\ row.status = task[o].status /\ row.runs = task[o].runs /\ row.staged = task[o].staged
        /\ row.by = task[o].by /\ row.parent = task[o].parent /\ row.via = task[o].via
        /\ row.batch = task[o].batch /\ row.saved = task[o].saved
    BY <1>2, TaskFacts DEF Rows
  <1>5. task[o].status # "none" /\ ~task[o].runs
    BY <1>1, TaskFacts DEF _task_settled, NoTask, Live
  <1>6. Moved(task[o], row)
    BY <1>4, <1>5, TaskFacts DEF Moved
  <1>7. /\ budget' \in [Events -> Nat] /\ budget'["uploads"] = budget["uploads"] /\ raced' \in BOOLEAN
        /\ raced => raced'
    BY <1>1 DEF WorkInv, WorkType
  <1>8. episode' \in [Episodes -> EpisodeRows] /\ Ends
    <2>1. CASE episode' = episode
      BY <2>1, EpisodesSame
    <2>2. CASE episode' = Settled(task, episode)
      <3>1. episode \in [Episodes -> EpisodeRows]
        BY DEF WorkInv, WorkType
      <3> QED BY <2>2, <3>1, SettledKeeps
    <2> QED BY <2>1, <2>2 DEF _task_settled
  <1>9. task' = [task EXCEPT ![o] = row]
    BY <1>2 DEF _task_settled
  <1> QED BY <1>1, <1>3, <1>4, <1>6, <1>7, <1>8, <1>9, MoveKeeps

LEMMA pauseKeeps ==
    ASSUME WorkInv, NEW o \in Ops, pause(o)
    PROVE  WorkInv'
  <1>1. /\ UNCHANGED <<episode, user, req, set, late, raced, died>>
        /\ task[o].status \in {"queued", "running"} /\ Spend("pauses")
    BY DEF pause, teamVars, ghostVars
  <1>2. PICK row : row = [task[o] EXCEPT !.status = "pausing", !.stop = task[o].owned]
    OBVIOUS
  <1>3. row \in Rows
    BY <1>2, TaskFacts DEF Rows, Statuses, Live
  <1>4. /\ row.status = "pausing" /\ row.runs = task[o].runs /\ row.staged = task[o].staged
        /\ row.by = task[o].by /\ row.parent = task[o].parent /\ row.via = task[o].via
        /\ row.batch = task[o].batch /\ row.saved = task[o].saved /\ row.owned = task[o].owned
    BY <1>2, TaskFacts DEF Rows
  <1>5. Moved(task[o], row)
    BY <1>1, <1>4, TaskFacts DEF Moved, Over
  <1>6. budget' \in [Events -> Nat] /\ budget'["uploads"] = budget["uploads"]
    <2>1. "pauses" \in Events /\ "pauses" # "uploads"
      BY DEF Events
    <2> QED BY <1>1, <2>1, BudgetType, SpendKeeps
  <1>7. episode' \in [Episodes -> EpisodeRows] /\ Ends /\ task' = [task EXCEPT ![o] = row]
    BY <1>1, <1>2, EpisodesSame DEF pause
  <1>8. raced' \in BOOLEAN /\ (raced => raced')
    BY <1>1 DEF WorkInv, WorkType
  <1> QED BY <1>1, <1>3, <1>4, <1>5, <1>6, <1>7, <1>8, MoveKeeps

LEMMA RemovalPauseKeeps ==
    ASSUME WorkInv, NEW o \in Ops, request_member_removal_pause(o)
    PROVE  WorkInv'
  <1>1. UNCHANGED <<episode, user, req, set, late, died, budget>>
    BY DEF request_member_removal_pause, teamVars
  <1>2. /\ budget' \in [Events -> Nat] /\ budget'["uploads"] = budget["uploads"]
        /\ episode' \in [Episodes -> EpisodeRows] /\ Ends
    BY <1>1, EpisodesSame DEF WorkInv, WorkType
  <1>3. raced' = (raced \/ (task'[o].status = "paused" /\ task[o].status # "paused"
                              /\ task[o].saved /\ task[o].via = "turn" /\ Checking))
    BY DEF request_member_removal_pause
  <1>4. raced' \in BOOLEAN /\ (raced => raced')
    BY <1>3 DEF WorkInv, WorkType
  <1>5. PICK s \in {"pausing", "paused"} : s = IF task[o].owned THEN "pausing" ELSE "paused"
    OBVIOUS
  <1>6. CASE task[o].status \in {"queued", "running"} /\ task' = [task EXCEPT ![o] = [@ EXCEPT !.status = s]]
    <2>1. PICK row : row = [task[o] EXCEPT !.status = s]
      OBVIOUS
    <2>2. row \in Rows
      BY <1>5, <2>1, TaskFacts DEF Rows, Statuses, Live
    <2>3. /\ row.status = s /\ row.runs = task[o].runs /\ row.staged = task[o].staged
          /\ row.by = task[o].by /\ row.parent = task[o].parent /\ row.via = task[o].via
          /\ row.batch = task[o].batch /\ row.saved = task[o].saved /\ row.owned = task[o].owned
      BY <2>1, TaskFacts DEF Rows
    <2>4. Moved(task[o], row)
      BY <1>5, <1>6, <2>3, TaskFacts DEF Moved, Over
    <2>5. task' = [task EXCEPT ![o] = row]
      BY <1>6, <2>1
    <2>6. task'[o] = row
      BY <2>5 DEF WorkInv, WorkType
    <2>7. row.status = "paused" /\ row.saved /\ row.via = "turn" /\ task[o].status # "paused" /\ Checking => raced'
      BY <1>3, <2>3, <2>6
    <2> QED BY <1>1, <1>2, <1>4, <2>2, <2>4, <2>5, <2>7, MoveKeeps
  <1>7. CASE task' = task
    <2>1. PICK row \in Rows : row = task[o]
      BY TaskFacts
    <2>2. Moved(task[o], row) /\ task' = [task EXCEPT ![o] = row]
      BY <1>7, <2>1, TaskFacts DEF Moved, WorkInv, WorkType
    <2> QED BY <1>1, <1>2, <1>4, <2>1, <2>2, MoveKeeps
  <1> QED BY <1>5, <1>6, <1>7 DEF request_member_removal_pause

LEMMA WakeKeeps ==
    ASSUME WorkInv, NEW e \in Episodes, Wake(e)
    PROVE  WorkInv'
  <1>1. UNCHANGED <<episode, user, req, set, late, raced, died, budget>> /\ episode[e].status = "running"
    BY DEF Wake, teamVars, ghostVars
  <1>2. PICK m \in Members : m = episode[e].by
    BY <1>1 DEF WorkInv, EpisodeInv
  <1>3. PICK o \in Ops :
            Unused(o) /\ task' = [task EXCEPT ![o] = [NoTask EXCEPT !.status = "queued", !.via = e, !.by = m]]
    BY <1>2 DEF Wake
  <1>4. PICK row : row = [NoTask EXCEPT !.status = "queued", !.via = e, !.by = m]
    OBVIOUS
  <1>5. row = EpisodeTurn(e, m)
    BY <1>4 DEF NoTask, EpisodeTurn
  <1>6. /\ row \in Rows /\ row.status = "queued" /\ row.by = m /\ row.via = e /\ ~row.runs
        /\ row.staged = 0 /\ row.parent = NoOp /\ row.batch = 0
    BY <1>5, EpisodeTurnRow
  <1>7. task' = [task EXCEPT ![o] = row] /\ task[o] = NoTask /\ \A r \in Requests : req[r].op # o
    BY <1>3, <1>4 DEF Unused, Reserved
  <1>8. /\ row.via # "none" /\ row.via # "turn" /\ row.parent \notin Ops
        /\ row.by = episode'[row.via].by /\ episode'[row.via].status \in LiveEpisode
    BY <1>1, <1>2, <1>6, WorkConstants DEF LiveEpisode
  <1>9. /\ episode' \in [Episodes -> EpisodeRows] /\ req' \in [Requests -> ReqRows]
    BY <1>1 DEF WorkInv, WorkType
  <1> QED BY <1>1, <1>6, <1>7, <1>8, <1>9, InsertKeeps

(* Only the episodes change. *)
LEMMA EndsKeeps ==
    ASSUME WorkInv, episode' \in [Episodes -> EpisodeRows], Ends,
           UNCHANGED <<task, user, req, set, late, raced, died, budget>>
    PROVE  WorkInv'
  <1>1. \A o \in Ops : Moved(task[o], task'[o])
    BY DEF Moved, WorkInv, RowInv
  <1>2. \A o \in Ops : Resumable(o)' => Resumable(o)
    BY DEF Resumable
  <1>3. /\ task' \in [Ops -> Rows] /\ raced' \in BOOLEAN /\ budget' \in [Events -> Nat]
    BY DEF WorkInv, WorkType
  <1> QED BY <1>1, <1>2, <1>3, MovesKeep

LEMMA RecoveryKeeps ==
    ASSUME WorkInv, NEW e \in Episodes, restart_stopping_experiment_recovery(e)
    PROVE  WorkInv'
  <1>1. UNCHANGED <<user, req, set, late, raced, died, budget>>
    BY DEF restart_stopping_experiment_recovery, teamVars, ghostVars
  <1>2. episode \in [Episodes -> EpisodeRows] /\ req' \in [Requests -> ReqRows]
    BY <1>1 DEF WorkInv, WorkType
  <1>3. CASE UNCHANGED task /\ episode' = Settled(task, episode)
    <2>1. episode' \in [Episodes -> EpisodeRows] /\ Ends
      BY <1>2, <1>3, SettledKeeps
    <2> QED BY <1>1, <1>3, <2>1, EndsKeeps
  <1>4. ASSUME episode[e].status = "stopping", ~Busy(e), NEW l \in Unresolved(task, e), NEW o \in Ops, Unused(o),
               task' = [task EXCEPT ![o] = Child(l, NoOne)], UNCHANGED episode
        PROVE  WorkInv'
    <2>1. l \in Ops /\ task[l].via = e
      BY DEF Unresolved, Leaves
    <2>2. task[l].status \in Over
      <3>1. task[l].status \notin Live
        BY <1>4, <2>1 DEF Busy
      <3>2. task[l].status # "none"
        BY <2>1, TaskFacts, EmptyRows, WorkConstants
      <3>3. task[l].status \in Statuses
        BY <2>1, TaskFacts
      <3> QED BY <3>1, <3>2, <3>3 DEF Statuses, Over
    <2>3. PICK by \in Members \cup {NoOne} : by = NoOne
      OBVIOUS
    <2>4. /\ task[l].via \in Episodes /\ episode[task[l].via].status \in LiveEpisode /\ ~Busy(task[l].via)
          /\ task' = [task EXCEPT ![o] = Child(l, by)]
      BY <1>4, <2>1, <2>3 DEF LiveEpisode
    <2>5. task[l].via # "turn"
      BY <2>1, WorkConstants
    <2> QED BY <1>1, <1>2, <1>4, <2>1, <2>2, <2>4, <2>5, ChildKeeps
  <1>5. CASE /\ ~Busy(e) /\ episode[e].status = "stopping" /\ UNCHANGED task
             /\ episode' = [episode EXCEPT ![e] = [@ EXCEPT !.status = "stopped"]]
    <2>1. PICK new : new = [episode[e] EXCEPT !.status = "stopped"]
      OBVIOUS
    <2>2. new \in EpisodeRows /\ new.status = "stopped" /\ new.by = episode[e].by
      BY <1>2, <2>1 DEF EpisodeRows
    <2>3. episode' = [episode EXCEPT ![e] = new]
      BY <1>5, <2>1
    <2>4. episode' \in [Episodes -> EpisodeRows] /\ \A f \in Episodes : episode'[f] = IF f = e THEN new ELSE episode[f]
      BY <1>2, <2>2, <2>3
    <2>5. Ends
      BY <1>5, <2>2, <2>4 DEF Ends, Busy, LiveEpisode
    <2> QED BY <1>1, <1>5, <2>4, <2>5, EndsKeeps
  <1> QED BY <1>3, <1>4, <1>5 DEF restart_stopping_experiment_recovery

LEMMA FencedKeeps ==
    ASSUME WorkInv, NEW m, episode' = Fenced(m), UNCHANGED <<task, user, req, set, late, raced, died, budget>>
    PROVE  WorkInv'
  <1>1. PICK runs : runs = [e \in Episodes |-> IF episode[e].by = m /\ episode[e].status = "running"
                                                 THEN [episode[e] EXCEPT !.status = "stopping"] ELSE episode[e]]
    OBVIOUS
  <1>2. episode' = Settled(task, runs)
    BY <1>1 DEF Fenced
  <1>3. episode \in [Episodes -> EpisodeRows]
    BY DEF WorkInv, WorkType
  <1>4. ASSUME NEW e \in Episodes
        PROVE  /\ runs[e] \in EpisodeRows /\ runs[e].by = episode[e].by
               /\ runs[e].status = "none" <=> episode[e].status = "none"
               /\ runs[e].status \in LiveEpisode <=> episode[e].status \in LiveEpisode
    <2>1. PICK new : new = [episode[e] EXCEPT !.status = "stopping"]
      OBVIOUS
    <2>2. new \in EpisodeRows /\ new.status = "stopping" /\ new.by = episode[e].by
      BY <1>3, <2>1 DEF EpisodeRows, LiveEpisode
    <2>3. runs[e] = episode[e] \/ (runs[e] = new /\ episode[e].status = "running")
      BY <1>1, <2>1
    <2> QED BY <1>3, <2>2, <2>3 DEF LiveEpisode
  <1>5. runs \in [Episodes -> EpisodeRows]
    BY <1>1, <1>4
  <1>6. episode' \in [Episodes -> EpisodeRows] /\ Ends
    BY <1>2, <1>4, <1>5, SettledKeeps
  <1> QED BY <1>6, EndsKeeps

LEMMA RestartKeeps ==
    ASSUME WorkInv, Restart
    PROVE  WorkInv'
  <1>1. /\ UNCHANGED <<user, episode, set, raced, late>> /\ req' = [r \in Requests |-> NoReq] /\ died' = TRUE
    BY DEF Restart, teamVars
  <1>2. budget' \in [Events -> Nat] /\ budget'["uploads"] = budget["uploads"]
    <2>1. "restarts" \in Events /\ "restarts" # "uploads" /\ Spend("restarts")
      BY DEF Events, Restart
    <2> QED BY <2>1, BudgetType, SpendKeeps
  <1>3. ASSUME NEW o \in Ops PROVE task'[o] \in Rows /\ Moved(task[o], task'[o])
    <2>1. PICK s : s = IF task[o].status \notin Live THEN task[o].status
                       ELSE IF task[o].status = "pausing" THEN "paused" ELSE "interrupted"
      OBVIOUS
    <2>2. PICK row : row = [task[o] EXCEPT !.owned = FALSE, !.runs = FALSE, !.stop = FALSE, !.status = s]
      OBVIOUS
    <2>3. s \in Statuses /\ (task[o].status \notin Live => s = task[o].status)
          /\ (task[o].status \in Live => s \in {"paused", "interrupted"})
      BY <2>1, TaskFacts DEF Statuses
    <2>4. row \in Rows
      BY <2>2, <2>3, TaskFacts DEF Rows
    <2>5. /\ row.status = s /\ ~row.runs /\ row.staged = task[o].staged /\ row.by = task[o].by
          /\ row.parent = task[o].parent /\ row.via = task[o].via /\ row.batch = task[o].batch
          /\ row.saved = task[o].saved
      BY <2>2, TaskFacts DEF Rows
    <2>6. task'[o] = row
      BY <2>1, <2>2 DEF Restart
    <2>7. task[o].status = "none" => row = task[o]
      <3>1. CASE task[o].status = "none"
        <4>1. task[o] = NoTask /\ s = "none"
          BY <2>3, <3>1, TaskFacts DEF Live
        <4>2. row = [NoTask EXCEPT !.owned = FALSE, !.runs = FALSE, !.stop = FALSE, !.status = "none"]
          BY <2>2, <4>1
        <4>3. row = NoTask
          BY <4>2 DEF NoTask
        <4> QED BY <4>1, <4>3
      <3> QED BY <3>1
    <2>8. Moved(task[o], row)
      BY <2>3, <2>5, <2>7, TaskFacts DEF Moved, Over, Live
    <2> QED BY <2>4, <2>6, <2>8
  <1>4. task' \in [Ops -> Rows]
    BY <1>3 DEF Restart
  <1>5. ~Checking'
    BY <1>1, EmptyRows DEF Checking
  <1>6. episode' \in [Episodes -> EpisodeRows] /\ Ends /\ raced' \in BOOLEAN
    BY <1>1, EpisodesSame DEF WorkInv, WorkType
  <1> QED BY <1>1, <1>2, <1>3, <1>4, <1>5, <1>6, MovesKeep

-----------------------------------------------------------------------------
(* The removal coordinator, and all steps together. *)

LEMMA NoAdvanceRow ==
    /\ NoAdvance = [step |-> NoAdvance.step, who |-> NoAdvance.who, todo |-> NoAdvance.todo,
                    shown |-> NoAdvance.shown]
    /\ NoAdvance.step = "idle"
  BY DEF NoAdvance

(* Nobody who is going comes back, and only a completed removal is one. *)
LEMMA TeamNextUsers ==
    ASSUME TeamInv, TeamNext, NEW m \in Members
    PROVE  user'[m] = user[m] \/ (user[m] = "absent" /\ user'[m] = "active")
  <1>1. user \in [Members -> UserStates]
    BY DEF TeamInv, TeamType
  <1>2. user' = user \/ \E n \in Members : user[n] = "absent" /\ user' = [user EXCEPT ![n] = "active"]
    BY DEF TeamNext, enroll_team_member, create_team_invitation, FailedAttempt, InvitationExpires,
           create_team_session, delete_team_session, rotate_team_token, revoke_team_token,
           seat_first_member, invite_to_project, answer_project_invitation
  <1> QED BY <1>1, <1>2

LEMMA InitKeeps == Init => IInv
  <1> SUFFICES ASSUME Init PROVE IInv
    OBVIOUS
  <1>1. /\ TeamInit /\ task = [o \in Ops |-> NoTask]
        /\ episode = [e \in Episodes |-> [status |-> "none", by |-> NoOne]]
        /\ req = [r \in Requests |-> NoReq] /\ set = NoSet /\ advance = NoAdvance
        /\ raced = FALSE /\ late = {} /\ died = FALSE /\ budget \in [Events -> Nat]
    BY WorkConstants DEF Init
  <1>2. WorkType
    <2>1. episode \in [Episodes -> EpisodeRows]
      BY <1>1 DEF EpisodeRows
    <2>2. set \in [ver : Nat, by : Ops \cup {NoOp}]
      BY <1>1 DEF NoSet
    <2> QED BY <1>1, <2>1, <2>2, EmptyRows DEF WorkType
  <1>3. \A o \in Ops : task[o] = NoTask
    BY <1>1
  <1>4. RowInv /\ LinkInv
    BY <1>3, EmptyRows, WorkConstants DEF RowInv, LinkInv
  <1>5. EpisodeInv
    <2>1. \A m \in Members : LiveEpisodes(m) = {}
      BY <1>1 DEF LiveEpisodes, LiveEpisode
    <2>2. \A m \in Members : LiveTasks(m) = {}
      BY <1>3, EmptyRows DEF LiveTasks, Live
    <2>3. \A e \in Episodes : episode[e].status = "none"
      BY <1>1
    <2> QED BY <2>1, <2>2, <2>3 DEF EpisodeInv
  <1>6. TurnInv
    BY <1>3, EmptyRows DEF TurnInv, LiveTurn, Resumable, PausedTurnIsDecided
  <1>7. ReqInv
    BY <1>1, EmptyRows DEF ReqInv
  <1>8. FileInv
    <2>1. set.ver = 0 /\ set.by = NoOp
      BY <1>1 DEF NoSet
    <2>2. \A r \in Requests : req[r].batch = 0
      BY <1>1, EmptyRows
    <2> QED BY <1>3, <2>1, <2>2, EmptyRows DEF FileInv
  <1>9. TeamInv
    BY <1>1, TeamStart
  <1>10. RemovalInv
    BY <1>1, NoAdvanceRow DEF RemovalInv
  <1> QED BY <1>2, <1>4, <1>5, <1>6, <1>7, <1>8, <1>9, <1>10 DEF IInv, WorkInv

(* Steps that leave people, seats and the coordinator alone. *)
LEMMA WorkStepKeeps ==
    ASSUME IInv, WorkInv', UNCHANGED <<teamVars, advance>>
    PROVE  IInv'
  <1>1. TeamInv'
    BY TeamSame DEF IInv
  <1>2. RemovalInv'
    BY DEF IInv, RemovalInv, teamVars
  <1> QED BY <1>1, <1>2 DEF IInv

LEMMA AdmissionKeeps ==
    ASSUME IInv, Admission
    PROVE  IInv'
  <1>1. PICK r \in Requests : \/ CheckPausedTurn(r) \/ claim(r) \/ InsertTurn(r) \/ InsertResume(r)
                              \/ InsertEpisode(r) \/ NothingLeft(r)
    BY DEF Admission
  <1>2. WorkInv'
    BY <1>1, CheckPausedTurnKeeps, claimKeeps, InsertTurnKeeps, InsertResumeKeeps, InsertEpisodeKeeps,
       NothingLeftKeeps DEF IInv
  <1>3. UNCHANGED <<teamVars, advance>>
    BY <1>1 DEF CheckPausedTurn, claim, InsertTurn, InsertResume, InsertEpisode, NothingLeft, pending
  <1> QED BY <1>2, <1>3, WorkStepKeeps

LEMMA WorkKeeps ==
    ASSUME IInv, Work
    PROVE  IInv'
  <1>1. WorkInv'
    BY LaunchKeeps, SettleKeeps, TaskSettledKeeps, RecoveryKeeps DEF IInv, Work
  <1>2. UNCHANGED <<teamVars, advance>>
    BY DEF Work, Launch, Settle, _task_settled, restart_stopping_experiment_recovery, pending
  <1> QED BY <1>1, <1>2, WorkStepKeeps

LEMMA RemovalKeeps ==
    ASSUME IInv, Removal
    PROVE  IInv'
  <1>1. CASE GiveUp
    <2>1. UNCHANGED <<teamVars, task, episode, req, set, raced, late, died, budget>> /\ advance' = NoAdvance
      BY <1>1 DEF GiveUp, workVars, ghostVars
    <2>2. WorkInv'
      BY <2>1, BudgetType, WorkSame DEF IInv, teamVars
    <2>3. TeamInv'
      BY <2>1, TeamSame DEF IInv
    <2>4. RemovalInv'
      BY <2>1, NoAdvanceRow DEF RemovalInv
    <2> QED BY <2>2, <2>3, <2>4 DEF IInv
  <1>2. CASE begin_member_removal
    <2>1. /\ UNCHANGED <<task, episode, req, set, raced, late, died, budget>> /\ AccessFence(advance.who)
          /\ advance.step = "shown" /\ Inventory(advance.who) = advance.shown /\ Removable(advance.who)
          /\ advance' = [advance EXCEPT !.step = "pausing", !.todo = LiveTasks(advance.who), !.shown = <<>>]
      BY <1>2 DEF begin_member_removal, workVars, ghostVars
    <2>2. PICK m \in Members : m = advance.who
      BY <2>1 DEF IInv, RemovalInv
    <2>3. user[m] = "active"
      <3>1. advance.shown[1] = "active"
        BY <2>1 DEF IInv, RemovalInv
      <3>2. Inventory(m)[1] = user[m]
        BY DEF Inventory
      <3> QED BY <2>1, <2>2, <3>1, <3>2
    <2>4. AccessFence(m) /\ (m \in token => Authenticating \ {m} # {})
      BY <2>1, <2>2 DEF Removable
    <2>5. TeamInv' /\ user'[m] = "removing" /\ \A n \in Members : n # m => user'[n] = user[n]
      BY <2>3, <2>4, FenceKeeps DEF IInv
    <2>6. WorkInv'
      <3>1. \A n \in Members : user'[n] = "removed" => user[n] = "removed"
        BY <2>5
      <3> QED BY <2>1, <3>1, BudgetType, WorkSame DEF IInv
    <2>7. RemovalInv'
      <3>1. advance = [step |-> advance.step, who |-> advance.who, todo |-> advance.todo, shown |-> advance.shown]
        BY DEF IInv, RemovalInv
      <3>2. advance' = [step |-> "pausing", who |-> advance.who, todo |-> LiveTasks(advance.who), shown |-> <<>>]
        BY <2>1, <3>1
      <3>3. advance'.step = "pausing" /\ advance'.who = m
        BY <2>2, <3>2
      <3>4. advance' = [step |-> advance'.step, who |-> advance'.who, todo |-> advance'.todo, shown |-> advance'.shown]
        BY <3>2
      <3> QED BY <2>5, <3>3, <3>4 DEF RemovalInv
    <2> QED BY <2>5, <2>6, <2>7 DEF IInv
  <1>3. ASSUME NEW m \in Members, reconcile_pending(m) PROVE IInv'
    <2>1. /\ UNCHANGED <<teamVars, task, episode, req, set, raced, late, died, budget>>
          /\ \/ advance' = advance
             \/ /\ user[m] = "removing"
                /\ advance' = [NoAdvance EXCEPT !.step = "pausing", !.who = m, !.todo = LiveTasks(m)]
      BY <1>3 DEF reconcile_pending, workVars, ghostVars
    <2>2. WorkInv'
      BY <2>1, BudgetType, WorkSame DEF IInv, teamVars
    <2>3. TeamInv'
      BY <2>1, TeamSame DEF IInv
    <2>4. RemovalInv'
      <3>1. CASE advance' = advance
        BY <2>1, <3>1 DEF IInv, RemovalInv, teamVars
      <3>2. CASE /\ user[m] = "removing"
                 /\ advance' = [NoAdvance EXCEPT !.step = "pausing", !.who = m, !.todo = LiveTasks(m)]
        <4>1. advance' = [step |-> "pausing", who |-> m, todo |-> LiveTasks(m), shown |-> <<>>]
          BY <3>2 DEF NoAdvance
        <4>2. advance'.step = "pausing" /\ advance'.who = m
              /\ advance' = [step |-> advance'.step, who |-> advance'.who, todo |-> advance'.todo, shown |-> advance'.shown]
          BY <4>1
        <4> QED BY <2>1, <3>2, <4>2 DEF RemovalInv, teamVars
      <3> QED BY <2>1, <3>1, <3>2
    <2> QED BY <2>2, <2>3, <2>4 DEF IInv
  <1>4. ASSUME NEW o \in Ops, request_member_removal_pause(o) PROVE IInv'
    <2>1. /\ UNCHANGED teamVars /\ advance' = [advance EXCEPT !.todo = @ \ {o}] /\ advance.step = "pausing"
      BY <1>4 DEF request_member_removal_pause
    <2>2. WorkInv'
      BY <1>4, RemovalPauseKeeps DEF IInv
    <2>3. TeamInv'
      BY <2>1, TeamSame DEF IInv
    <2>4. RemovalInv'
      <3>1. advance = [step |-> advance.step, who |-> advance.who, todo |-> advance.todo, shown |-> advance.shown]
        BY DEF IInv, RemovalInv
      <3>2. advance' = [step |-> advance.step, who |-> advance.who, todo |-> advance.todo \ {o}, shown |-> advance.shown]
        BY <2>1, <3>1
      <3>3. advance'.step = advance.step /\ advance'.who = advance.who
            /\ advance' = [step |-> advance'.step, who |-> advance'.who, todo |-> advance'.todo, shown |-> advance'.shown]
        BY <3>2
      <3> QED BY <2>1, <3>3 DEF IInv, RemovalInv, teamVars
    <2> QED BY <2>2, <2>3, <2>4 DEF IInv
  <1>5. CASE fence_episodes_for_removed_member
    <2>1. /\ UNCHANGED <<teamVars, task, req, set, raced, late, died, budget>> /\ advance.step = "pausing"
          /\ episode' = Fenced(advance.who) /\ advance' = [advance EXCEPT !.step = "completing"]
      BY <1>5 DEF fence_episodes_for_removed_member, ghostVars
    <2>2. WorkInv'
      BY <2>1, FencedKeeps DEF IInv, teamVars
    <2>3. TeamInv'
      BY <2>1, TeamSame DEF IInv
    <2>4. RemovalInv'
      <3>1. advance = [step |-> advance.step, who |-> advance.who, todo |-> advance.todo, shown |-> advance.shown]
        BY DEF IInv, RemovalInv
      <3>2. advance' = [step |-> "completing", who |-> advance.who, todo |-> advance.todo, shown |-> advance.shown]
        BY <2>1, <3>1
      <3>3. advance'.step = "completing" /\ advance'.who = advance.who
            /\ advance' = [step |-> advance'.step, who |-> advance'.who, todo |-> advance'.todo, shown |-> advance'.shown]
        BY <3>2
      <3> QED BY <2>1, <3>3 DEF IInv, RemovalInv, teamVars
    <2> QED BY <2>2, <2>3, <2>4 DEF IInv
  <1>6. CASE complete_member_removal
    <2>1. /\ UNCHANGED <<order, token, session, code, seats, invited>>
          /\ UNCHANGED <<task, episode, req, set, raced, late, died, budget>> /\ advance' = NoAdvance
          /\ advance.step = "completing"
      BY <1>6 DEF complete_member_removal, workVars, ghostVars
    <2>2. PICK m \in Members : m = advance.who /\ user[m] \in {"removing", "removed"}
      BY <2>1 DEF IInv, RemovalInv
    <2>3. user' = user \/ (LiveTasks(m) = {} /\ LiveEpisodes(m) = {} /\ user' = [user EXCEPT ![m] = "removed"])
      BY <1>6, <2>2 DEF complete_member_removal
    <2>4. TeamInv'
      <3>1. CASE user' = user
        BY <2>1, <3>1, TeamSame DEF IInv, teamVars
      <3>2. CASE user' = [user EXCEPT ![m] = "removed"]
        BY <2>1, <2>2, <3>2, CompleteKeeps DEF IInv
      <3> QED BY <2>3, <3>1, <3>2
    <2>5. \A n \in Members : user'[n] = "removed" => user[n] = "removed" \/ (LiveTasks(n) = {} /\ LiveEpisodes(n) = {})
      BY <2>3 DEF IInv, TeamInv, TeamType
    <2>6. WorkInv'
      BY <2>1, <2>5, BudgetType, WorkSame DEF IInv
    <2>7. RemovalInv'
      BY <2>1, NoAdvanceRow DEF RemovalInv
    <2> QED BY <2>4, <2>6, <2>7 DEF IInv
  <1> QED BY <1>1, <1>2, <1>3, <1>4, <1>5, <1>6 DEF Removal

LEMMA ServingKeeps ==
    ASSUME IInv, Serving
    PROVE  IInv'
  <1>1. CASE TeamStep
    <2>1. /\ UNCHANGED <<task, episode, req, set, advance, raced, late, died>> /\ TeamNext /\ Spend("edits")
      BY <1>1 DEF TeamStep, workVars, pending, ghostVars
    <2>2. TeamInv'
      BY <2>1, TeamNextKeeps DEF IInv
    <2>3. \A m \in Members : user'[m] = user[m] \/ (user[m] = "absent" /\ user'[m] = "active")
      BY <2>1, TeamNextUsers DEF IInv
    <2>4. budget' \in [Events -> Nat] /\ budget'["uploads"] = budget["uploads"]
      <3>1. "edits" \in Events /\ "edits" # "uploads"
        BY DEF Events
      <3> QED BY <2>1, <3>1, BudgetType, SpendKeeps DEF IInv
    <2>5. WorkInv'
      BY <2>1, <2>3, <2>4, WorkSame DEF IInv
    <2>6. RemovalInv'
      BY <2>1, <2>3 DEF IInv, RemovalInv
    <2> QED BY <2>2, <2>5, <2>6 DEF IInv
  <1>2. ASSUME NEW r \in Requests, NEW m \in Members, NEW k \in {"turn", "resume", "run"},
               NEW o \in Ops \cup {NoOp}, Authenticate(r, m, k, o)
        PROVE  IInv'
    <2>1. WorkInv'
      BY <1>2, AuthenticateKeeps DEF IInv
    <2>2. UNCHANGED <<teamVars, advance>>
      BY <1>2 DEF Authenticate, pending
    <2> QED BY <2>1, <2>2, WorkStepKeeps
  <1>3. ASSUME NEW m \in Members, plan(m) PROVE IInv'
    <2>1. /\ UNCHANGED <<teamVars, task, episode, req, set, raced, late, died>> /\ Spend("removals")
          /\ user[m] = "active"
          /\ advance' = [NoAdvance EXCEPT !.step = "shown", !.who = m, !.shown = Inventory(m)]
      BY <1>3 DEF plan, workVars, ghostVars
    <2>2. TeamInv'
      BY <2>1, TeamSame DEF IInv
    <2>3. budget' \in [Events -> Nat] /\ budget'["uploads"] = budget["uploads"]
      <3>1. "removals" \in Events /\ "removals" # "uploads"
        BY DEF Events
      <3> QED BY <2>1, <3>1, BudgetType, SpendKeeps DEF IInv
    <2>4. WorkInv'
      BY <2>1, <2>3, WorkSame DEF IInv, teamVars
    <2>5. RemovalInv'
      <3>1. PICK shown : shown = Inventory(m)
        OBVIOUS
      <3>2. advance' = [step |-> "shown", who |-> m, todo |-> {}, shown |-> shown]
        BY <2>1, <3>1 DEF NoAdvance
      <3>3. advance'.step = "shown" /\ advance'.who = m /\ advance'.shown = shown
            /\ advance' = [step |-> advance'.step, who |-> advance'.who, todo |-> advance'.todo, shown |-> advance'.shown]
        BY <3>2
      <3>4. shown[1] = "active"
        BY <2>1, <3>1 DEF Inventory
      <3> QED BY <3>3, <3>4 DEF RemovalInv
    <2> QED BY <2>2, <2>4, <2>5 DEF IInv
  <1>4. ASSUME NEW m \in Members, Leave(m) PROVE IInv'
    <2>1. UNCHANGED <<user, task, episode, req, set, advance, raced, late, died, budget>> /\ leave_project(Home, m)
      BY <1>4 DEF Leave, workVars, ghostVars, leave_project
    <2>2. TeamInv'
      BY <2>1, WorkConstants, SeatStepsKeep DEF IInv
    <2>3. WorkInv'
      BY <2>1, BudgetType, WorkSame DEF IInv
    <2>4. RemovalInv'
      BY <2>1 DEF IInv, RemovalInv
    <2> QED BY <2>2, <2>3, <2>4 DEF IInv
  <1>5. CASE fence_episodes_for_departed_member
    <2>1. /\ UNCHANGED <<teamVars, task, req, set, advance, raced, late, died, budget>>
          /\ episode' = Fenced(leaving)
      BY <1>5 DEF fence_episodes_for_departed_member, ghostVars
    <2>2. WorkInv'
      BY <2>1, FencedKeeps DEF IInv, teamVars
    <2> QED BY <2>1, <2>2, WorkStepKeeps
  <1>6. ASSUME NEW o \in Ops, pause(o) PROVE IInv'
    <2>1. WorkInv' /\ UNCHANGED <<teamVars, advance>>
      BY <1>6, pauseKeeps DEF IInv, pause, pending
    <2> QED BY <2>1, WorkStepKeeps
  <1>7. ASSUME NEW e \in Episodes, Wake(e) PROVE IInv'
    <2>1. WorkInv' /\ UNCHANGED <<teamVars, advance>>
      BY <1>7, WakeKeeps DEF IInv, Wake, pending
    <2> QED BY <2>1, WorkStepKeeps
  <1>8. CASE add \/ remove \/ sweep
    <2>1. WorkInv' /\ UNCHANGED <<teamVars, advance>>
      BY <1>8, FilesKeep DEF IInv, add, remove, sweep, pending
    <2> QED BY <2>1, WorkStepKeeps
  <1> QED BY <1>1, <1>2, <1>3, <1>4, <1>5, <1>6, <1>7, <1>8, AdmissionKeeps, RemovalKeeps DEF Serving

LEMMA NextKeeps == ASSUME IInv, [Next]_vars PROVE IInv'
  <1>1. CASE UNCHANGED vars
    <2>1. UNCHANGED <<teamVars, advance, task, episode, req, set, raced, late, died, budget, user>>
      BY <1>1 DEF vars, teamVars, workVars, pending, ghostVars
    <2>2. WorkInv'
      BY <2>1, BudgetType, WorkSame DEF IInv
    <2> QED BY <2>1, <2>2, WorkStepKeeps
  <1>2. CASE Restart
    <2>1. WorkInv' /\ UNCHANGED teamVars /\ advance' = NoAdvance
      BY <1>2, RestartKeeps DEF IInv, Restart
    <2>2. TeamInv'
      BY <2>1, TeamSame DEF IInv
    <2>3. RemovalInv'
      BY <2>1, NoAdvanceRow DEF RemovalInv
    <2> QED BY <2>1, <2>2, <2>3 DEF IInv
  <1> QED BY <1>1, <1>2, WorkKeeps, ServingKeeps DEF Next

LEMMA InvariantHolds == Spec => []IInv
  BY InitKeeps, NextKeeps, PTL DEF Spec

-----------------------------------------------------------------------------
(* However people enroll, sign in, rotate and revoke tokens, are seated, invited,
   answer, leave and are removed, a member whose removal has begun has no token,
   session, seat, invitation or open code, and a claimed space can be entered. *)
THEOREM RemovalRevokesAccess == Spec => []AccessIsRight
  <1>1. IInv => AccessIsRight
    BY DEF IInv, TeamInv
  <1> QED BY <1>1, InvariantHolds, PTL

(* What a removed member had running is over: what is live in the name of someone
   removed, an episode, its turns or a turn of the conversation, was asked for by
   a request the fence overtook. *)
THEOREM RemovalLeavesNoWork == Spec => []NoWorkAfterRemoval
  <1>1. IInv => NoWorkAfterRemoval
    <2> SUFFICES ASSUME IInv, NEW m \in Members, user[m] = "removed"
        PROVE  LiveEpisodes(m) \subseteq late /\ \A o \in LiveTasks(m) : o \in late \/ task[o].via \in late
      BY DEF NoWorkAfterRemoval
    <2>1. /\ LiveEpisodes(m) \subseteq late
          /\ \A o \in LiveTasks(m) : task[o].via = "turn" => o \in late
      BY DEF IInv, WorkInv, EpisodeInv
    <2>2. ASSUME NEW o \in LiveTasks(m), task[o].via # "turn" PROVE task[o].via \in late
      <3>1. o \in Ops /\ task[o].status \in Live /\ task[o].by = m
        BY DEF LiveTasks
      <3>2. task[o].via \in Episodes
        <4>1. task[o].via \in Episodes \cup {"none", "turn"}
          BY <3>1 DEF IInv, WorkInv, WorkType, Rows
        <4>2. task[o].via # "none"
          BY <3>1 DEF IInv, WorkInv, RowInv, Live
        <4> QED BY <2>2, <4>1, <4>2
      <3>3. episode[task[o].via].status \in LiveEpisode /\ episode[task[o].via].by = m
        BY <3>1, <3>2 DEF IInv, WorkInv, LinkInv
      <3>4. task[o].via \in LiveEpisodes(m)
        BY <3>2, <3>3 DEF LiveEpisodes
      <3> QED BY <2>1, <3>4
    <2> QED BY <2>1, <2>2
  <1> QED BY <1>1, InvariantHolds, PTL

(* A fresh turn is admitted beside a paused one only when the pause raced its
   admission, and the files of a message are given to the turn that sent them. *)
THEOREM TurnsKeepApart == Spec => []TurnsDoNotMix
  <1>1. IInv => TurnsDoNotMix
    <2> SUFFICES ASSUME IInv PROVE TurnsDoNotMix
      OBVIOUS
    <2>1. PausedTurnIsDecided
      BY DEF IInv, WorkInv, TurnInv
    <2>2. TypeOK
      <3>1. TeamTypeOK
        BY DEF IInv, TeamInv, TeamType, Enrolled, TeamTypeOK, CodeRows, UserStates
      <3>2. \A o \in Ops : /\ task[o].status \in Live \cup {"none", "paused", "done", "failed", "interrupted"}
                           /\ task[o].runs => task[o].owned /\ task[o].status \in {"running", "pausing"}
                           /\ task[o].by = NoOne <=> task[o].status = "none"
        BY TaskFacts, EmptyRows, WorkConstants DEF IInv, Statuses
      <3>3. \A e \in Episodes : episode[e].status \in LiveEpisode \cup {"none", "stopped"}
        BY DEF IInv, WorkInv, WorkType, EpisodeRows
      <3>4. set.ver \in Nat /\ set.by \in Ops \cup {NoOp}
        BY DEF IInv, WorkInv, WorkType
      <3> QED BY <3>1, <3>2, <3>3, <3>4 DEF TypeOK
    <2>3. set.by # NoOp /\ ~died => task[set.by] # NoTask \/ set.by \in Reserved
      BY DEF IInv, WorkInv, FileInv, Reserved
    <2>4. \A o \in Ops : task[o].staged # 0 => task[o].staged = task[o].batch
      BY DEF IInv, WorkInv, RowInv
    <2>5. \A o, c \in Ops : set.by \in {o, c} /\ o # c /\ task[o].batch = set.ver /\ task[c].batch = set.ver
              /\ task[o].parent = NoOp /\ task[c].parent = NoOp => FALSE
      BY WorkConstants DEF IInv, WorkInv, FileInv
    <2> QED BY <2>1, <2>2, <2>3, <2>4, <2>5 DEF TurnsDoNotMix, FilesOfOneTurn
  <1> QED BY <1>1, InvariantHolds, PTL
==============================================================================
