------------------------ MODULE TeamMembershipProofs ------------------------
(***************************************************************************)
(* Proofs about TeamMembership, for any users, teams, invitations and      *)
(* number of overlapping requests.                                         *)
(***************************************************************************)
EXTENDS TeamMembership, FiniteSetTheorems, TLAPS

USE DEF Roles, Staff, Outcomes, Statuses

\* None is no user, team, invitation, role or status.
LEMMA NoneIsNothing ==
  /\ \A u \in Users : u # None
  /\ \A t \in Teams : t # None
  /\ \A i \in InviteIds : i # None
  /\ \A r \in Roles : r # None
  /\ \A s \in Statuses : s # None
BY TeamsAssumption

\* A row of invitations exists when it is a row, and only then.
LEMMA ExistingInvite ==
  ASSUME TypeOK, NEW i \in InviteIds
  PROVE  /\ Exists(i) <=> invite[i] \in InviteType
         /\ ~Exists(i) <=> invite[i] = NoInvite
BY NoneIsNothing DEF TypeOK, Exists, NoInvite, InviteType

\* A request that is not idle is one of RequestType.
LEMMA RunningRequest ==
  ASSUME TypeOK, NEW q \in Requests, request[q].pc # "idle"
  PROVE  request[q] \in RequestType
BY DEF TypeOK, IdleRequest

\* A new value of one request keeps the type of all.
LEMMA RequestTyped ==
  ASSUME TypeOK, NEW q \in Requests, NEW r \in RequestType \cup {IdleRequest},
         request' = [request EXCEPT ![q] = r]
  PROVE  request' \in [Requests -> RequestType \cup {IdleRequest}]
BY DEF TypeOK

LEMMA EndTyped ==
  ASSUME TypeOK, NEW q \in Requests, End(q)
  PROVE  request' \in [Requests -> RequestType \cup {IdleRequest}]
BY RequestTyped DEF End

\* What Begin writes is a request.
LEMMA BeginTyped ==
  ASSUME TypeOK, NEW q \in Requests, NEW t \in Teams, NEW u \in Users,
         NEW op \in {"delete", "leave", "remove", "invite", "cancel"},
         NEW roles, Begin(q, op, t, u, roles)
  PROVE  TypeOK'
<1>1. [IdleRequest EXCEPT !.op = op, !.pc = "authorized", !.by = u, !.team = t] \in RequestType
  BY NoneIsNothing DEF IdleRequest, RequestType
<1>2. request' \in [Requests -> RequestType \cup {IdleRequest}]
  BY <1>1, RequestTyped DEF Begin
<1> QED  BY <1>2 DEF Begin, TypeOK, Exists

\* A settled invitation stays a row of its team, in its role.
LEMMA SettledInvite ==
  ASSUME TypeOK, NEW i \in InviteIds, NEW s \in Outcomes, UpdateTeamInviteStatus(i, s)
  PROVE  /\ invite' \in [InviteIds -> InviteType \cup {NoInvite}]
         /\ \A j \in InviteIds : invite'[j].team = invite[j].team
                              /\ invite'[j].to = invite[j].to
                              /\ invite'[j].role = invite[j].role
         /\ \A j \in InviteIds \ {i} : invite'[j] = invite[j]
         /\ invite[i].team # None
         /\ invite'[i].status = s /\ invite'[i].stamps = {s}
<1>1. invite[i] \in InviteType
  BY ExistingInvite DEF UpdateTeamInviteStatus
<1>2. invite' = [invite EXCEPT ![i] = [invite[i] EXCEPT !.status = s, !.stamps = {s}]]
  BY <1>1 DEF UpdateTeamInviteStatus, InviteType, TypeOK
<1>3. [invite[i] EXCEPT !.status = s, !.stamps = {s}] \in InviteType
  BY <1>1 DEF InviteType
<1> QED  BY <1>1, <1>2, <1>3, NoneIsNothing DEF TypeOK, InviteType

-----------------------------------------------------------------------------

\* A step that gives one request a new value and changes no row.
LEMMA ContinueTyped ==
  ASSUME TypeOK, NEW q \in Requests, NEW r \in RequestType, Continue(q, r)
  PROVE  TypeOK'
<1>1. request' \in [Requests -> RequestType \cup {IdleRequest}]
  BY RequestTyped DEF Continue
<1> QED  BY <1>1 DEF Continue, TypeOK, Exists

LEMMA TypesInitially == Init => TypeOK
<1> SUFFICES ASSUME Init PROVE TypeOK  OBVIOUS
<1>1. \A t \in Teams, u \in Users : role[<<t, u>>] = None
  BY DEF Init
<1> QED  BY <1>1, NoneIsNothing DEF Init, TypeOK, Exists, NoInvite

LEMMA TypePreserved ==
  ASSUME TypeOK, [Next]_vars
  PROVE  TypeOK'
<1>1. ASSUME NEW t \in Teams, NEW u \in Users, CreateTeam(t, u) PROVE TypeOK'
  BY <1>1, NoneIsNothing DEF TypeOK, CreateTeam, Exists
<1>2. ASSUME NEW i \in InviteIds, Expire(i) PROVE TypeOK'
  BY <1>2 DEF TypeOK, Expire, Exists
<1>3. ASSUME NEW q \in Requests, NEW t \in Teams, NEW u \in Users,
             \/ BeginDeleteTeam(q, t, u) \/ BeginLeaveTeam(q, t, u)
             \/ BeginRemoveMember(q, t, u) \/ BeginCreateInvite(q, t, u)
             \/ BeginDeleteInvite(q, t, u)
      PROVE  TypeOK'
  BY <1>3, BeginTyped DEF BeginDeleteTeam, BeginLeaveTeam, BeginRemoveMember,
       BeginCreateInvite, BeginDeleteInvite
<1>4. ASSUME NEW q \in Requests, DeleteTeam(q) PROVE TypeOK'
  <2>1. request[q].team \in Teams
    BY <1>4, RunningRequest DEF DeleteTeam, At, RequestType
  <2>2. request' \in [Requests -> RequestType \cup {IdleRequest}]
    BY <1>4, EndTyped DEF DeleteTeam
  <2>3. \A i \in InviteIds : /\ invite'[i] \in InviteType \cup {NoInvite}
                             /\ invite'[i].team # None => invite'[i].team \in teams'
    BY <1>4 DEF DeleteTeam, TypeOK, Exists, NoInvite
  <2>4. \A t \in Teams, u \in Users :
          /\ role'[<<t, u>>] \in Roles \cup {None}
          /\ role'[<<t, u>>] # None => t \in teams'
    BY <1>4 DEF DeleteTeam, TypeOK
  <2> QED  BY <1>4, <2>1, <2>2, <2>3, <2>4 DEF DeleteTeam, TypeOK, Exists
<1>5. ASSUME NEW q \in Requests, NEW t \in Teams, NEW u \in Users,
             DeleteTeamMember(q, t, u)
      PROVE  TypeOK'
  <2>1. request' \in [Requests -> RequestType \cup {IdleRequest}]
    BY <1>5, EndTyped DEF DeleteTeamMember
  <2> QED  BY <1>5, <2>1, NoneIsNothing DEF DeleteTeamMember, TypeOK, Exists
<1>6. ASSUME NEW q \in Requests, LeaveTeam(q) \/ RemoveMember(q) PROVE TypeOK'
  <2>1. CASE LeaveTeam(q)
    <3>1. request[q] \in RequestType
      BY <2>1, RunningRequest DEF LeaveTeam, At
    <3>2. request[q].team \in Teams /\ request[q].by \in Users
      BY <2>1, <3>1 DEF LeaveTeam, At, RequestType
    <3> QED  BY <2>1, <3>2, <1>5 DEF LeaveTeam
  <2>2. CASE RemoveMember(q)
    <3>1. request[q] \in RequestType
      BY <2>2, RunningRequest DEF RemoveMember, At
    <3>2. request[q].team \in Teams /\ request[q].to \in Users
      BY <2>2, <3>1 DEF RemoveMember, At, RequestType
    <3> QED  BY <2>2, <3>2, <1>5 DEF RemoveMember
  <2> QED  BY <1>6, <2>1, <2>2
<1>7. ASSUME NEW q \in Requests, NEW u \in Users, FindTarget(q, u) \/ FindNotMember(q, u)
      PROVE  TypeOK'
  <2>1. request[q] \in RequestType /\ request[q].op \in {"remove", "invite"}
    BY <1>7, RunningRequest DEF FindTarget, FindNotMember, At
  <2>2. /\ [request[q] EXCEPT !.pc = "ready", !.to = u] \in RequestType
        /\ request[q].op = "invite" =>
             [request[q] EXCEPT !.pc = "absent", !.to = u] \in RequestType
    BY <2>1, NoneIsNothing DEF RequestType
  <2> QED  BY <1>7, <2>2, ContinueTyped DEF FindTarget, FindNotMember, At
<1>8. ASSUME NEW q \in Requests, FindNonePending(q) PROVE TypeOK'
  <2>1. request[q] \in RequestType
    BY <1>8, RunningRequest DEF FindNonePending, At
  <2>2. [request[q] EXCEPT !.pc = "ready"] \in RequestType
    BY <1>8, <2>1 DEF RequestType, FindNonePending, At
  <2> QED  BY <1>8, <2>2, ContinueTyped DEF FindNonePending
<1>9. ASSUME NEW q \in Requests, NEW i \in InviteIds, NEW r \in InviteRoles,
             CreateInvite(q, i, r)
      PROVE  TypeOK'
  <2>1. request[q] \in RequestType
    BY <1>9, RunningRequest DEF CreateInvite, At
  <2>2. request[q].team \in Teams /\ request[q].to \in Users /\ r \in Roles
    BY <1>9, <2>1 DEF CreateInvite, At, RequestType, InviteRoles
  <2>3. [team |-> request[q].team, to |-> request[q].to, role |-> r,
         status |-> "pending", stamps |-> {}] \in InviteType
    BY <2>2 DEF InviteType
  <2>4. request' \in [Requests -> RequestType \cup {IdleRequest}]
    BY <1>9, EndTyped DEF CreateInvite
  <2> QED  BY <1>9, <2>3, <2>4 DEF CreateInvite, TypeOK, Exists
<1>10. ASSUME NEW q \in Requests, NEW i \in InviteIds, FindPending(q, i) PROVE TypeOK'
  <2>1. request[q] \in RequestType
    BY <1>10, RunningRequest DEF FindPending, At
  <2>2. [request[q] EXCEPT !.pc = "ready", !.invite = i] \in RequestType
    BY <1>10, <2>1, NoneIsNothing DEF RequestType, FindPending, At
  <2> QED  BY <1>10, <2>2, ContinueTyped DEF FindPending
<1>11. ASSUME NEW q \in Requests, NEW i \in InviteIds,
              NEW op \in {"accept", "reject", "token"}, ReadInvite(q, op, i)
       PROVE  TypeOK'
  <2>1. invite[i] \in InviteType
    BY <1>11, NoneIsNothing DEF ReadInvite, TypeOK, NoInvite
  <2>2. [IdleRequest EXCEPT !.op = op, !.pc = IF op = "reject" THEN "ready" ELSE "read",
           !.team = invite[i].team, !.to = invite[i].to, !.invite = i] \in RequestType
    BY <2>1, NoneIsNothing DEF IdleRequest, RequestType, InviteType
  <2>3. request' \in [Requests -> RequestType \cup {IdleRequest}]
    BY <1>11, <2>2, RequestTyped DEF ReadInvite
  <2> QED  BY <1>11, <2>3 DEF ReadInvite, TypeOK, Exists
<1>12. ASSUME NEW q \in Requests, NEW op \in {"accept", "token"}, CheckMember(q, op)
       PROVE  TypeOK'
  <2> DEFINE member == role[<<request[q].team, request[q].to>>] \in Roles
  <2>1. request[q] \in RequestType
    BY <1>12, RunningRequest DEF CheckMember, At
  <2>2. [request[q] EXCEPT !.pc = "ready", !.joins = ~member] \in RequestType
    BY <1>12, <2>1 DEF RequestType, CheckMember, At
  <2> QED  BY <1>12, <2>2, ContinueTyped DEF CheckMember
<1>13. ASSUME NEW q \in Requests, NEW op \in {"accept", "token"}, AcceptInvite(q, op)
       PROVE  TypeOK'
  <2> DEFINE i == request[q].invite
  <2>1. request[q] \in RequestType
    BY <1>13, RunningRequest DEF AcceptInvite, At
  <2>2. i \in InviteIds /\ request[q].team \in Teams /\ request[q].to \in Users
    BY <1>13, <2>1 DEF AcceptInvite, At, RequestType
  <2>3. UpdateTeamInviteStatus(i, "accepted")
    BY <1>13 DEF AcceptInvite
  <2>4. /\ invite' \in [InviteIds -> InviteType \cup {NoInvite}]
        /\ \A j \in InviteIds : invite'[j].team = invite[j].team
    BY <2>2, <2>3, SettledInvite
  <2>5. invite[i].role \in Roles
    BY <2>2, <2>3, ExistingInvite DEF UpdateTeamInviteStatus, InviteType
  <2>6. request' \in [Requests -> RequestType \cup {IdleRequest}]
    BY <1>13, EndTyped DEF AcceptInvite
  <2>7. /\ role' \in [Teams \X Users -> Roles \cup {None}]
        /\ \A t \in Teams, u \in Users : role'[<<t, u>>] # None => t \in teams
    BY <1>13, <2>2, <2>5 DEF AcceptInvite, Join, TypeOK
  <2> QED  BY <1>13, <2>4, <2>6, <2>7 DEF AcceptInvite, TypeOK, Exists
<1>14. ASSUME NEW q \in Requests, DeleteInvite(q) \/ RejectInvite(q) PROVE TypeOK'
  <2>1. request[q] \in RequestType
    BY <1>14, RunningRequest DEF DeleteInvite, RejectInvite, At
  <2>2. request[q].invite \in InviteIds
    BY <1>14, <2>1 DEF DeleteInvite, RejectInvite, At, RequestType
  <2>3. \E s \in Outcomes : UpdateTeamInviteStatus(request[q].invite, s)
    BY <1>14 DEF DeleteInvite, RejectInvite
  <2>4. /\ invite' \in [InviteIds -> InviteType \cup {NoInvite}]
        /\ \A j \in InviteIds : invite'[j].team = invite[j].team
    BY <2>2, <2>3, SettledInvite
  <2>5. request' \in [Requests -> RequestType \cup {IdleRequest}]
    BY <1>14, EndTyped DEF DeleteInvite, RejectInvite
  <2> QED  BY <1>14, <2>4, <2>5 DEF DeleteInvite, RejectInvite, TypeOK, Exists
<1>15. ASSUME NEW q \in Requests, AbandonRequest(q) PROVE TypeOK'
  <2>1. request' \in [Requests -> RequestType \cup {IdleRequest}]
    BY <1>15, EndTyped DEF AbandonRequest
  <2> QED  BY <1>15, <2>1 DEF AbandonRequest, TypeOK, Exists
<1>16. CASE UNCHANGED vars
  BY <1>16 DEF vars, TypeOK, Exists
<1> QED  BY <1>1, <1>2, <1>3, <1>4, <1>6, <1>7, <1>8, <1>9, <1>10, <1>11, <1>12, <1>13,
           <1>14, <1>15, <1>16 DEF Next, TeamRequest, InviteRequest

\* Every variable keeps its type: rows of members and invitations are of teams
\* that exist, whatever requests overlap with a team's deletion.
THEOREM TeamTypes == Spec => []TypeOK
BY TypesInitially, TypePreserved, PTL DEF Spec

-----------------------------------------------------------------------------

\* A request of the given operations names an invitation.
LEMMA NamedInvite ==
  ASSUME TypeOK, NEW q \in Requests,
         \/ request[q].op \in {"accept", "reject", "token"}
         \/ request[q].op = "cancel" /\ request[q].pc = "ready"
  PROVE  /\ request[q] \in RequestType
         /\ request[q].invite \in InviteIds
         /\ request[q].op # "cancel" => request[q].to \in Users
BY DEF TypeOK, IdleRequest, RequestType

\* A request settles an invitation and adds no member.
Settle(q) ==
  /\ request[q].invite \in InviteIds
  /\ \E s \in {"canceled", "rejected"} : UpdateTeamInviteStatus(request[q].invite, s)
  /\ End(q)
  /\ UNCHANGED <<teams, gone, role, expired, left>>

\* A step that changes no row.
Quiet == UNCHANGED <<teams, gone, role, invite, left>> /\ expired \subseteq expired'

\* What a step can do to the rows.
LEMMA RowSteps ==
  ASSUME TypeOK, [Next]_vars
  PROVE  \/ \E t \in Teams, u \in Users : CreateTeam(t, u)
         \/ \E q \in Requests : DeleteTeam(q) \/ Settle(q)
         \/ \E q \in Requests, t \in Teams, u \in Users : DeleteTeamMember(q, t, u)
         \/ \E q \in Requests, i \in InviteIds, r \in InviteRoles : CreateInvite(q, i, r)
         \/ \E q \in Requests, op \in {"accept", "token"} : AcceptInvite(q, op)
         \/ Quiet
<1>1. ASSUME NEW q \in Requests, LeaveTeam(q) \/ RemoveMember(q)
      PROVE  \E t \in Teams, u \in Users : DeleteTeamMember(q, t, u)
  <2>1. request[q] \in RequestType
    BY <1>1, RunningRequest DEF LeaveTeam, RemoveMember, At
  <2>2. request[q].team \in Teams
    BY <2>1 DEF RequestType
  <2>3. \/ request[q].by \in Users /\ DeleteTeamMember(q, request[q].team, request[q].by)
        \/ request[q].to \in Users /\ DeleteTeamMember(q, request[q].team, request[q].to)
    BY <1>1, <2>1 DEF LeaveTeam, RemoveMember, At, RequestType
  <2> QED  BY <2>2, <2>3
<1>2. ASSUME NEW q \in Requests, DeleteInvite(q) \/ RejectInvite(q) PROVE Settle(q)
  BY <1>2, NamedInvite DEF DeleteInvite, RejectInvite, At, Settle
<1>3. ASSUME NEW q \in Requests, NEW t \in Teams, NEW u \in Users,
             \/ BeginDeleteTeam(q, t, u) \/ BeginLeaveTeam(q, t, u)
             \/ BeginRemoveMember(q, t, u) \/ BeginCreateInvite(q, t, u)
             \/ BeginDeleteInvite(q, t, u)
      PROVE  Quiet
  BY <1>3 DEF BeginDeleteTeam, BeginLeaveTeam, BeginRemoveMember, BeginCreateInvite,
       BeginDeleteInvite, Begin, Quiet
<1>4. ASSUME NEW q \in Requests,
             \/ \E u \in Users : FindTarget(q, u) \/ FindNotMember(q, u)
             \/ FindNonePending(q)
             \/ \E i \in InviteIds : FindPending(q, i)
             \/ \E i \in InviteIds, op \in {"accept", "reject", "token"} : ReadInvite(q, op, i)
             \/ \E op \in {"accept", "token"} : CheckMember(q, op)
             \/ AbandonRequest(q)
      PROVE  Quiet
  BY <1>4 DEF FindTarget, FindNotMember, FindNonePending, FindPending, ReadInvite,
       CheckMember, AbandonRequest, Continue, Quiet
<1>5. ASSUME NEW i \in InviteIds, Expire(i) PROVE Quiet
  BY <1>5 DEF Expire, Quiet
<1>6. CASE UNCHANGED vars
  BY <1>6 DEF vars, Quiet
<1> QED  BY <1>1, <1>2, <1>3, <1>4, <1>5, <1>6 DEF Next, TeamRequest, InviteRequest

\* What AcceptInvite does, spelled out.
LEMMA Accepted ==
  ASSUME TypeOK, NEW q \in Requests, NEW op \in {"accept", "token"}, AcceptInvite(q, op)
  PROVE  /\ request[q] \in RequestType
         /\ request[q].op = op /\ request[q].pc = "ready"
         /\ request[q].invite \in InviteIds /\ request[q].to \in Users
         /\ UpdateTeamInviteStatus(request[q].invite, "accepted")
         /\ invite[request[q].invite] \in InviteType
<1>1. request[q].op = op /\ request[q].pc = "ready"
      /\ UpdateTeamInviteStatus(request[q].invite, "accepted")
  BY DEF AcceptInvite, At
<1>2. /\ request[q] \in RequestType
      /\ request[q].invite \in InviteIds /\ request[q].to \in Users
  BY <1>1, NamedInvite
<1> QED  BY <1>1, <1>2, ExistingInvite DEF UpdateTeamInviteStatus

-----------------------------------------------------------------------------

\* No invitation offers to make its user the owner.
OffersNoOwner == \A i \in InviteIds : invite[i].role # "owner"

Rows == OffersNoOwner /\ SingleOwner /\ StampMatchesStatus

LEMMA RowsInitially == Init => Rows
BY NoneIsNothing DEF Init, Rows, OffersNoOwner, SingleOwner, StampMatchesStatus, NoInvite, Exists

LEMMA SettledRows ==
  ASSUME TypeOK, Rows, NEW i \in InviteIds, NEW s \in Outcomes, UpdateTeamInviteStatus(i, s)
  PROVE  OffersNoOwner' /\ StampMatchesStatus'
<1>1. /\ \A j \in InviteIds : invite'[j].team = invite[j].team /\ invite'[j].role = invite[j].role
      /\ \A j \in InviteIds \ {i} : invite'[j] = invite[j]
      /\ invite'[i].status = s /\ invite'[i].stamps = {s}
  BY SettledInvite
<1>2. OffersNoOwner'
  BY <1>1 DEF Rows, OffersNoOwner
<1>3. ASSUME NEW j \in InviteIds, Exists(j)'
      PROVE  invite'[j].stamps = IF invite'[j].status = "pending" THEN {} ELSE {invite'[j].status}
  <2>1. CASE j = i
    BY <1>1, <2>1
  <2>2. CASE j # i
    BY <1>1, <1>3, <2>2 DEF Rows, StampMatchesStatus, Exists
  <2> QED  BY <2>1, <2>2
<1> QED  BY <1>2, <1>3 DEF StampMatchesStatus

LEMMA RowsPreserved ==
  ASSUME TypeOK, Rows, [Next]_vars
  PROVE  Rows'
<1> USE DEF Rows
<1>1. ASSUME NEW t \in Teams, NEW u \in Users, CreateTeam(t, u) PROVE Rows'
  <2>1. \A v \in Users : role[<<t, v>>] = None
    BY <1>1 DEF CreateTeam, TypeOK
  <2>2. SingleOwner'
    BY <1>1, <2>1, NoneIsNothing DEF CreateTeam, TypeOK, SingleOwner
  <2> QED  BY <1>1, <2>2 DEF CreateTeam, OffersNoOwner, StampMatchesStatus, Exists
<1>2. ASSUME NEW q \in Requests, DeleteTeam(q) PROVE Rows'
  <2>1. SingleOwner'
    BY <1>2, NoneIsNothing DEF DeleteTeam, SingleOwner
  <2>2. OffersNoOwner' /\ StampMatchesStatus'
    BY <1>2, NoneIsNothing DEF DeleteTeam, OffersNoOwner, StampMatchesStatus, Exists, NoInvite
  <2> QED  BY <2>1, <2>2
<1>3. ASSUME NEW q \in Requests, Settle(q) PROVE Rows'
  <2>1. OffersNoOwner' /\ StampMatchesStatus'
    BY <1>3, SettledRows DEF Settle
  <2> QED  BY <1>3, <2>1 DEF Settle, SingleOwner
<1>4. ASSUME NEW q \in Requests, NEW t \in Teams, NEW u \in Users, DeleteTeamMember(q, t, u)
      PROVE  Rows'
  BY <1>4, NoneIsNothing
  DEF DeleteTeamMember, TypeOK, SingleOwner, OffersNoOwner, StampMatchesStatus, Exists
<1>5. ASSUME NEW q \in Requests, NEW i \in InviteIds, NEW r \in InviteRoles,
             CreateInvite(q, i, r)
      PROVE  Rows'
  BY <1>5 DEF CreateInvite, TypeOK, InviteRoles, SingleOwner, OffersNoOwner,
       StampMatchesStatus, Exists
<1>6. ASSUME NEW q \in Requests, NEW op \in {"accept", "token"}, AcceptInvite(q, op)
      PROVE  Rows'
  <2> DEFINE i == request[q].invite
  <2>1. /\ i \in InviteIds /\ invite[i] \in InviteType
        /\ UpdateTeamInviteStatus(i, "accepted")
    BY <1>6, Accepted
  <2>2. OffersNoOwner' /\ StampMatchesStatus'
    BY <2>1, SettledRows
  <2>3. \A p \in Teams \X Users : role'[p] = "owner" => role[p] = "owner"
    BY <1>6, <2>1 DEF AcceptInvite, Join, TypeOK, OffersNoOwner
  <2> QED  BY <2>2, <2>3 DEF SingleOwner
<1>7. CASE Quiet
  BY <1>7 DEF Quiet, SingleOwner, OffersNoOwner, StampMatchesStatus, Exists
<1> QED  BY <1>1, <1>2, <1>3, <1>4, <1>5, <1>6, <1>7, RowSteps

THEOREM RowsHold == Spec => []Rows
<1> QED  BY TeamTypes, RowsInitially, RowsPreserved, PTL DEF Spec

\* A team never has two owners, whatever roles are asked for in invitations.
THEOREM AlwaysSingleOwner == Spec => []SingleOwner
<1>1. Rows => SingleOwner
  BY DEF Rows
<1> QED  BY <1>1, RowsHold, PTL

\* A settled invitation has the timestamp of its last outcome and no other.
THEOREM StampAlwaysMatchesStatus == Spec => []StampMatchesStatus
<1>1. Rows => StampMatchesStatus
  BY DEF Rows
<1> QED  BY <1>1, RowsHold, PTL

-----------------------------------------------------------------------------

Used(i) == Exists(i) \/ i \in expired
Joined(t, u) == role[<<t, u>>] # None \/ <<t, u>> \in left \/ t \in gone

\* An id that was used stays used, and its row, while there is one, stays an
\* invitation of the same user to the same team.
LEMMA InvitesStay ==
  ASSUME TypeOK, [Next]_vars, NEW i \in InviteIds, Used(i)
  PROVE  /\ Used(i)'
         /\ Exists(i)' => /\ Exists(i)
                          /\ invite'[i].team = invite[i].team /\ invite'[i].to = invite[i].to
<1>1. ASSUME NEW t \in Teams, NEW u \in Users, CreateTeam(t, u) PROVE UNCHANGED <<invite, expired>>
  BY <1>1 DEF CreateTeam
<1>2. CASE \E q \in Requests : DeleteTeam(q)
  BY <1>2, ExistingInvite DEF DeleteTeam, Exists, Used, NoInvite
<1>3. ASSUME NEW q \in Requests, Settle(q)
      PROVE  UNCHANGED expired /\ invite'[i].team = invite[i].team /\ invite'[i].to = invite[i].to
  <2>1. PICK s \in Outcomes : UpdateTeamInviteStatus(request[q].invite, s)
    BY <1>3 DEF Settle
  <2> QED  BY <1>3, <2>1, SettledInvite DEF Settle
<1>4. ASSUME NEW q \in Requests, NEW t \in Teams, NEW u \in Users, DeleteTeamMember(q, t, u)
      PROVE  UNCHANGED <<invite, expired>>
  BY <1>4 DEF DeleteTeamMember
<1>5. ASSUME NEW q \in Requests, NEW j \in InviteIds, NEW r \in InviteRoles, CreateInvite(q, j, r)
      PROVE  UNCHANGED expired /\ invite'[i] = invite[i]
  BY <1>5 DEF CreateInvite, Used, TypeOK
<1>6. ASSUME NEW q \in Requests, NEW op \in {"accept", "token"}, AcceptInvite(q, op)
      PROVE  UNCHANGED expired /\ invite'[i].team = invite[i].team /\ invite'[i].to = invite[i].to
  <2>1. request[q].invite \in InviteIds /\ UpdateTeamInviteStatus(request[q].invite, "accepted")
    BY <1>6, Accepted
  <2> QED  BY <1>6, <2>1, SettledInvite DEF AcceptInvite
<1>7. CASE Quiet
  BY <1>7 DEF Quiet, Used, Exists
<1> QED  BY <1>1, <1>2, <1>3, <1>4, <1>5, <1>6, <1>7, RowSteps DEF Used, Exists

\* A user who is a member of a team, or was, stays so until the team is deleted.
LEMMA MembersStay ==
  ASSUME TypeOK, [Next]_vars, NEW t \in Teams, NEW u \in Users, Joined(t, u)
  PROVE  Joined(t, u)'
<1>1. ASSUME NEW s \in Teams, NEW v \in Users, CreateTeam(s, v) PROVE Joined(t, u)'
  BY <1>1, NoneIsNothing DEF CreateTeam, Joined, TypeOK
<1>2. ASSUME NEW q \in Requests, DeleteTeam(q) PROVE Joined(t, u)'
  BY <1>2 DEF DeleteTeam, Joined, TypeOK
<1>3. ASSUME NEW q \in Requests, Settle(q) PROVE Joined(t, u)'
  BY <1>3 DEF Settle, Joined
<1>4. ASSUME NEW q \in Requests, NEW s \in Teams, NEW v \in Users, DeleteTeamMember(q, s, v)
      PROVE  Joined(t, u)'
  BY <1>4 DEF DeleteTeamMember, Joined, TypeOK
<1>5. ASSUME NEW q \in Requests, NEW j \in InviteIds, NEW r \in InviteRoles, CreateInvite(q, j, r)
      PROVE  Joined(t, u)'
  BY <1>5 DEF CreateInvite, Joined
<1>6. ASSUME NEW q \in Requests, NEW op \in {"accept", "token"}, AcceptInvite(q, op)
      PROVE  Joined(t, u)'
  <2>1. invite[request[q].invite].role # None
    BY <1>6, Accepted, NoneIsNothing DEF InviteType
  <2> QED  BY <1>6, <2>1 DEF AcceptInvite, Join, Joined, TypeOK
<1>7. CASE Quiet
  BY <1>7 DEF Quiet, Joined
<1> QED  BY <1>1, <1>2, <1>3, <1>4, <1>5, <1>6, <1>7, RowSteps

\* A request that accepts or rejects an invitation is as it was, has just read
\* the invitation, or has just looked for the member.
LEMMA LinkSteps ==
  ASSUME TypeOK, [Next]_vars, NEW q \in Requests,
         request'[q].op \in {"accept", "reject", "token"}
  PROVE  \/ request'[q] = request[q]
         \/ \E i \in InviteIds, op \in {"accept", "reject", "token"} : ReadInvite(q, op, i)
         \/ \E op \in {"accept", "token"} : CheckMember(q, op)
<1> DEFINE Goal == \/ request'[q] = request[q]
                   \/ \E i \in InviteIds, op \in {"accept", "reject", "token"} : ReadInvite(q, op, i)
                   \/ \E op \in {"accept", "token"} : CheckMember(q, op)
<1>0. request \in [Requests -> RequestType \cup {IdleRequest}]
  BY DEF TypeOK
<1>1. ASSUME NEW p \in Requests, NEW op \in {"delete", "leave", "remove", "invite", "cancel"},
             NEW t, NEW u, NEW roles, Begin(p, op, t, u, roles)
      PROVE  request'[q] = request[q]
  BY <1>0, <1>1 DEF Begin, IdleRequest
<1>2. ASSUME NEW p \in Requests, End(p) PROVE request'[q] = request[q]
  BY <1>0, <1>2 DEF End, IdleRequest
<1>3. ASSUME NEW p \in Requests,
             \/ \E u \in Users : FindTarget(p, u) \/ FindNotMember(p, u)
             \/ FindNonePending(p)
             \/ \E i \in InviteIds : FindPending(p, i)
      PROVE  request'[q] = request[q]
  <2>1. /\ request[p] \in RequestType
        /\ request[p].op \in {"remove", "invite", "cancel"}
    BY <1>3, RunningRequest DEF FindTarget, FindNotMember, FindNonePending, FindPending, At
  <2>2. ASSUME NEW r, Continue(p, r), r.op = request[p].op PROVE request'[q] = request[q]
    BY <1>0, <2>1, <2>2 DEF Continue
  <2>3. ASSUME NEW u \in Users, FindTarget(p, u) \/ FindNotMember(p, u)
        PROVE  request'[q] = request[q]
    <3>1. PICK pc : Continue(p, [request[p] EXCEPT !.pc = pc, !.to = u])
      BY <2>3 DEF FindTarget, FindNotMember
    <3>2. [request[p] EXCEPT !.pc = pc, !.to = u].op = request[p].op
      BY <2>1 DEF RequestType
    <3> QED  BY <2>2, <3>1, <3>2
  <2>4. CASE FindNonePending(p)
    <3>1. [request[p] EXCEPT !.pc = "ready"].op = request[p].op
      BY <2>1 DEF RequestType
    <3> QED  BY <2>2, <2>4, <3>1 DEF FindNonePending
  <2>5. ASSUME NEW i \in InviteIds, FindPending(p, i) PROVE request'[q] = request[q]
    <3>1. [request[p] EXCEPT !.pc = "ready", !.invite = i].op = request[p].op
      BY <2>1 DEF RequestType
    <3> QED  BY <2>2, <2>5, <3>1 DEF FindPending
  <2> QED  BY <1>3, <2>3, <2>4, <2>5
<1>4. ASSUME NEW p \in Requests, NEW i \in InviteIds, NEW op \in {"accept", "reject", "token"},
             ReadInvite(p, op, i)
      PROVE  Goal
  <2>1. p # q => request'[q] = request[q]
    BY <1>0, <1>4 DEF ReadInvite
  <2> QED  BY <1>4, <2>1
<1>5. ASSUME NEW p \in Requests, NEW op \in {"accept", "token"}, CheckMember(p, op)
      PROVE  Goal
  <2>1. p # q => request'[q] = request[q]
    BY <1>0, <1>5 DEF CheckMember, Continue
  <2> QED  BY <1>5, <2>1
<1>6. ASSUME NEW t \in Teams, NEW u \in Users, CreateTeam(t, u) PROVE request'[q] = request[q]
  BY <1>6 DEF CreateTeam
<1>7. ASSUME NEW i \in InviteIds, Expire(i) PROVE request'[q] = request[q]
  BY <1>7 DEF Expire
<1>8. ASSUME NEW p \in Requests,
             \/ DeleteTeam(p) \/ LeaveTeam(p) \/ RemoveMember(p) \/ DeleteInvite(p)
             \/ \E i \in InviteIds, r \in InviteRoles : CreateInvite(p, i, r)
             \/ \E op \in {"accept", "token"} : AcceptInvite(p, op)
             \/ RejectInvite(p) \/ AbandonRequest(p)
      PROVE  request'[q] = request[q]
  <2>1. End(p)
    BY <1>8 DEF DeleteTeam, LeaveTeam, RemoveMember, DeleteTeamMember, DeleteInvite,
         CreateInvite, AcceptInvite, RejectInvite, AbandonRequest
  <2> QED  BY <1>2, <2>1
<1>9. ASSUME NEW p \in Requests, NEW t \in Teams, NEW u \in Users,
             \/ BeginDeleteTeam(p, t, u) \/ BeginLeaveTeam(p, t, u)
             \/ BeginRemoveMember(p, t, u) \/ BeginCreateInvite(p, t, u)
             \/ BeginDeleteInvite(p, t, u)
      PROVE  request'[q] = request[q]
  BY <1>1, <1>9 DEF BeginDeleteTeam, BeginLeaveTeam, BeginRemoveMember, BeginCreateInvite,
       BeginDeleteInvite
<1>10. CASE UNCHANGED vars
  BY <1>10 DEF vars
<1> QED  BY <1>3, <1>4, <1>5, <1>6, <1>7, <1>8, <1>9, <1>10 DEF Next, TeamRequest, InviteRequest

-----------------------------------------------------------------------------

\* What a request knows of the invitation it read.
Linked == \A q \in Requests :
  LET r == request[q] IN
  r.op \in {"accept", "reject", "token"} =>
    /\ Used(r.invite)
    /\ Exists(r.invite) => invite[r.invite].team = r.team /\ invite[r.invite].to = r.to

\* A request that will not add a member found one.
Skipped == \A q \in Requests :
  LET r == request[q] IN
  r.op \in {"accept", "token"} /\ r.pc = "ready" /\ ~r.joins => Joined(r.team, r.to)

Joins == Linked /\ Skipped /\ AcceptedMeansJoined

LEMMA JoinsInitially == Init => Joins
BY NoneIsNothing DEF Init, Joins, Linked, Skipped, AcceptedMeansJoined, IdleRequest, NoInvite

LEMMA LinkedPreserved ==
  ASSUME TypeOK, Linked, [Next]_vars
  PROVE  Linked'
<1> SUFFICES ASSUME NEW q \in Requests, request'[q].op \in {"accept", "reject", "token"},
                    NEW i, i = request'[q].invite
             PROVE  /\ Used(i)'
                    /\ Exists(i)' => /\ invite'[i].team = request'[q].team
                                     /\ invite'[i].to = request'[q].to
  BY DEF Linked, Used, Exists
<1> SUFFICES /\ i \in InviteIds /\ Used(i)
             /\ Exists(i) => /\ invite[i].team = request'[q].team
                             /\ invite[i].to = request'[q].to
  BY InvitesStay DEF Used, Exists
<1>1. CASE request'[q] = request[q]
  BY <1>1, NamedInvite DEF Linked
<1>2. CASE \E j \in InviteIds, op \in {"accept", "reject", "token"} : ReadInvite(q, op, j)
  <2>1. PICK j \in InviteIds, op \in {"accept", "reject", "token"} : ReadInvite(q, op, j)
    BY <1>2
  <2>2. Exists(j)
    BY <2>1, NoneIsNothing, ExistingInvite DEF ReadInvite, NoInvite
  <2>3. /\ request'[q].invite = j
        /\ request'[q].team = invite[j].team /\ request'[q].to = invite[j].to
    BY <2>1 DEF ReadInvite, TypeOK, IdleRequest
  <2> QED  BY <2>2, <2>3 DEF Used
<1>3. ASSUME NEW op \in {"accept", "token"}, CheckMember(q, op)
      PROVE  /\ request[q].invite \in InviteIds /\ request[q].op = op
             /\ request'[q].invite = request[q].invite
             /\ request'[q].team = request[q].team /\ request'[q].to = request[q].to
  <2>1. request[q] \in RequestType /\ request[q].invite \in InviteIds /\ request[q].op = op
    BY <1>3, NamedInvite DEF CheckMember, At
  <2> QED  BY <1>3, <2>1 DEF CheckMember, Continue, TypeOK, RequestType
<1> QED  BY <1>1, <1>2, <1>3, LinkSteps DEF Linked

LEMMA SkippedPreserved ==
  ASSUME TypeOK, Skipped, [Next]_vars
  PROVE  Skipped'
<1> SUFFICES ASSUME NEW q \in Requests, request'[q].op \in {"accept", "token"},
                    request'[q].pc = "ready", ~request'[q].joins,
                    NEW t, NEW u, t = request'[q].team, u = request'[q].to
             PROVE  Joined(t, u)'
  BY DEF Skipped, Joined
<1> SUFFICES t \in Teams /\ u \in Users /\ Joined(t, u)
  BY MembersStay
<1>1. CASE request'[q] = request[q]
  <2>1. request[q].team \in Teams /\ request[q].to \in Users
    BY <1>1, NamedInvite DEF RequestType
  <2> QED  BY <1>1, <2>1 DEF Skipped
<1>2. ASSUME NEW i \in InviteIds, NEW op \in {"accept", "reject", "token"}, ReadInvite(q, op, i)
      PROVE  FALSE
  BY <1>2 DEF ReadInvite, TypeOK, IdleRequest
<1>3. CASE \E op \in {"accept", "token"} : CheckMember(q, op)
  <2>1. request[q] \in RequestType /\ request[q].to \in Users
    BY <1>3, NamedInvite DEF CheckMember, At
  <2>2. request[q].team \in Teams
    BY <2>1 DEF RequestType
  <2>3. /\ request'[q].team = request[q].team /\ request'[q].to = request[q].to
        /\ request'[q].joins = ~(role[<<request[q].team, request[q].to>>] \in Roles)
    BY <1>3, <2>1 DEF CheckMember, Continue, TypeOK, RequestType
  <2> QED  BY <2>1, <2>2, <2>3, NoneIsNothing DEF Joined
<1> QED  BY <1>1, <1>2, <1>3, LinkSteps

LEMMA AcceptedPreserved ==
  ASSUME TypeOK, Joins, [Next]_vars
  PROVE  AcceptedMeansJoined'
<1>1. TypeOK'
  BY TypePreserved
<1> SUFFICES ASSUME NEW i \in InviteIds, invite'[i].status = "accepted",
                    NEW t, NEW u, t = invite'[i].team, u = invite'[i].to
             PROVE  role'[<<t, u>>] # None \/ <<t, u>> \in left'
  BY DEF AcceptedMeansJoined
<1>2. Exists(i)' /\ t \in teams' /\ t \in Teams /\ u \in Users
  <2>1. invite'[i] \in InviteType
    BY <1>1, NoneIsNothing DEF TypeOK, NoInvite
  <2>2. t \in Teams /\ u \in Users
    BY <2>1 DEF InviteType
  <2> QED  BY <1>1, <2>2, NoneIsNothing DEF TypeOK, Exists
<1>3. t \notin gone'
  BY <1>1, <1>2 DEF TypeOK
<1> SUFFICES Joined(t, u)'
  BY <1>3 DEF Joined
<1>4. CASE invite[i].status = "accepted"
  <2>1. Exists(i)
    BY <1>4, NoneIsNothing, ExistingInvite DEF NoInvite
  <2>2. t = invite[i].team /\ u = invite[i].to
    BY <1>2, <2>1, InvitesStay DEF Used
  <2>3. Joined(t, u)
    BY <1>4, <2>2 DEF Joins, AcceptedMeansJoined, Joined
  <2> QED  BY <1>2, <2>3, MembersStay
<1>5. CASE invite[i].status # "accepted"
  <2>1. PICK q \in Requests, op \in {"accept", "token"} : AcceptInvite(q, op)
    <3>1. ASSUME NEW q \in Requests, DeleteTeam(q) PROVE FALSE
      BY <1>5, <3>1, NoneIsNothing DEF DeleteTeam, NoInvite
    <3>2. ASSUME NEW q \in Requests, Settle(q) PROVE FALSE
      <4>1. PICK s \in {"canceled", "rejected"} : UpdateTeamInviteStatus(request[q].invite, s)
        BY <3>2 DEF Settle
      <4> QED  BY <1>5, <3>2, <4>1, SettledInvite DEF Settle
    <3>3. ASSUME NEW q \in Requests, NEW j \in InviteIds, NEW r \in InviteRoles,
                 CreateInvite(q, j, r)
          PROVE  FALSE
      BY <1>5, <3>3 DEF CreateInvite, TypeOK
    <3>4. ASSUME \/ \E s \in Teams, v \in Users : CreateTeam(s, v)
                 \/ \E q \in Requests, s \in Teams, v \in Users : DeleteTeamMember(q, s, v)
                 \/ Quiet
          PROVE  FALSE
      BY <1>5, <3>4 DEF CreateTeam, DeleteTeamMember, Quiet
    <3> QED  BY <3>1, <3>2, <3>3, <3>4, RowSteps
  <2> DEFINE r == request[q]
  <2>2. /\ r \in RequestType /\ r.op = op /\ r.pc = "ready" /\ r.invite \in InviteIds
        /\ UpdateTeamInviteStatus(r.invite, "accepted")
        /\ invite[r.invite] \in InviteType
    BY <2>1, Accepted
  <2>3. i = r.invite
    BY <1>5, <2>2, SettledInvite
  <2>4. t = r.team /\ u = r.to
    <3>1. Exists(i) /\ t = invite[i].team /\ u = invite[i].to
      BY <2>2, <2>3, SettledInvite DEF UpdateTeamInviteStatus
    <3> QED  BY <2>2, <2>3, <3>1 DEF Joins, Linked
  <2>5. CASE r.joins
    <3>1. role'[<<t, u>>] = invite[i].role
      BY <1>2, <2>1, <2>2, <2>3, <2>4, <2>5 DEF AcceptInvite, Join, TypeOK
    <3>2. invite[i].role # None
      BY <2>2, <2>3, NoneIsNothing DEF InviteType
    <3> QED  BY <3>1, <3>2 DEF Joined
  <2>6. CASE ~r.joins
    <3>1. Joined(t, u)
      BY <2>2, <2>4, <2>6 DEF Joins, Skipped
    <3> QED  BY <1>2, <3>1, MembersStay
  <2> QED  BY <2>5, <2>6
<1> QED  BY <1>4, <1>5

LEMMA JoinsPreserved ==
  ASSUME TypeOK, Joins, [Next]_vars
  PROVE  Joins'
BY LinkedPreserved, SkippedPreserved, AcceptedPreserved DEF Joins

THEOREM JoinsHold == Spec => []Joins
BY TeamTypes, JoinsInitially, JoinsPreserved, PTL DEF Spec

\* Whoever an accepted invitation is for is a member, or was one since.
THEOREM AcceptedAlwaysJoined == Spec => []AcceptedMeansJoined
<1>1. Joins => AcceptedMeansJoined
  BY DEF Joins
<1> QED  BY <1>1, JoinsHold, PTL

\* Nobody joins a team but by an invitation to it, in the role it offers, and
\* the same commit leaves that invitation accepted.
THEOREM JoinsAlwaysInvited == Spec => JoinsAreInvited
<1> DEFINE Invited ==
      \A t \in teams, u \in Users :
        role[<<t, u>>] = None /\ role'[<<t, u>>] # None =>
          \E i \in InviteIds :
            /\ invite[i].team = t /\ invite[i].to = u /\ invite[i].role = role'[<<t, u>>]
            /\ invite'[i].status = "accepted"
<1>1. ASSUME TypeOK, Joins, [Next]_vars PROVE Invited
  <2> SUFFICES ASSUME NEW t \in teams, NEW u \in Users,
                      role[<<t, u>>] = None, role'[<<t, u>>] # None
               PROVE  \E i \in InviteIds :
                        /\ invite[i].team = t /\ invite[i].to = u
                        /\ invite[i].role = role'[<<t, u>>]
                        /\ invite'[i].status = "accepted"
    OBVIOUS
  <2>1. t \in Teams /\ role \in [Teams \X Users -> Roles \cup {None}]
    BY <1>1 DEF TypeOK
  <2>2. PICK q \in Requests, op \in {"accept", "token"} : AcceptInvite(q, op)
    <3>1. ASSUME NEW s \in Teams, NEW v \in Users, CreateTeam(s, v) PROVE role'[<<t, u>>] = None
      BY <2>1, <3>1 DEF CreateTeam
    <3>2. ASSUME NEW q \in Requests, DeleteTeam(q) PROVE role'[<<t, u>>] = None
      BY <2>1, <3>2 DEF DeleteTeam
    <3>3. ASSUME NEW q \in Requests, NEW s \in Teams, NEW v \in Users, DeleteTeamMember(q, s, v)
          PROVE  role'[<<t, u>>] = None
      BY <2>1, <3>3 DEF DeleteTeamMember
    <3>4. ASSUME \/ \E q \in Requests : Settle(q)
                 \/ \E q \in Requests, i \in InviteIds, r \in InviteRoles : CreateInvite(q, i, r)
                 \/ Quiet
          PROVE  role' = role
      BY <3>4 DEF Settle, CreateInvite, Quiet
    <3> QED  BY <1>1, <3>1, <3>2, <3>3, <3>4, RowSteps
  <2> DEFINE r == request[q]
  <2>3. /\ r.op = op /\ r.invite \in InviteIds /\ UpdateTeamInviteStatus(r.invite, "accepted")
    BY <1>1, <2>2, Accepted
  <2>4. /\ t = r.team /\ u = r.to
        /\ role'[<<t, u>>] = invite[r.invite].role
    BY <2>1, <2>2 DEF AcceptInvite, Join
  <2>5. invite[r.invite].team = t /\ invite[r.invite].to = u
    BY <1>1, <2>3, <2>4 DEF Joins, Linked, UpdateTeamInviteStatus
  <2>6. invite'[r.invite].status = "accepted"
    BY <1>1, <2>3, SettledInvite
  <2> QED  BY <2>3, <2>4, <2>5, <2>6
<1>2. TypeOK /\ Joins /\ [Next]_vars => [Invited]_vars
  BY <1>1
<1> QED  BY <1>2, TeamTypes, JoinsHold, PTL DEF Spec, JoinsAreInvited

-----------------------------------------------------------------------------

\* Requests that found no pending invitation and have yet to insert one.
Ready(t, u) == {q \in Requests : /\ request[q].op = "invite" /\ request[q].pc = "ready"
                                 /\ request[q].team = t /\ request[q].to = u}

\* A pending invitation of a user takes the place of a request.
Bounded == \A t \in Teams, u \in Users :
  Cardinality(Pending(t, u)) + Cardinality(Ready(t, u)) <= Cardinality(Requests)

LEMMA Counted ==
  ASSUME NEW t, NEW u
  PROVE  /\ IsFiniteSet(Pending(t, u)) /\ Cardinality(Pending(t, u)) \in Nat
         /\ IsFiniteSet(Ready(t, u)) /\ Cardinality(Ready(t, u)) \in Nat
         /\ Cardinality(Ready(t, u)) <= Cardinality(Requests)
         /\ Cardinality(Requests) \in Nat
<1>1. Pending(t, u) \subseteq InviteIds /\ Ready(t, u) \subseteq Requests
  BY DEF Pending, Ready
<1> QED  BY <1>1, TeamsAssumption, FS_Subset, FS_CardinalityType

LEMMA BoundedInitially == Init => Bounded
<1> SUFFICES ASSUME Init, NEW t \in Teams, NEW u \in Users
             PROVE  Cardinality(Pending(t, u)) + Cardinality(Ready(t, u)) <= Cardinality(Requests)
  BY DEF Bounded
<1>1. Pending(t, u) = {} /\ Ready(t, u) = {}
  BY NoneIsNothing DEF Init, Pending, Ready, NoInvite, IdleRequest
<1> QED  BY <1>1, FS_EmptySet, Counted

\* Only FindNonePending makes a request ready to insert an invitation.
LEMMA ReadySteps ==
  ASSUME TypeOK, [Next]_vars, NEW q \in Requests,
         request'[q].op = "invite", request'[q].pc = "ready"
  PROVE  request'[q] = request[q] \/ FindNonePending(q)
<1>0. request \in [Requests -> RequestType \cup {IdleRequest}]
  BY DEF TypeOK
<1>1. ASSUME NEW p \in Requests, NEW t \in Teams, NEW u \in Users,
             \/ BeginDeleteTeam(p, t, u) \/ BeginLeaveTeam(p, t, u)
             \/ BeginRemoveMember(p, t, u) \/ BeginCreateInvite(p, t, u)
             \/ BeginDeleteInvite(p, t, u)
      PROVE  request'[q] = request[q]
  BY <1>0, <1>1 DEF BeginDeleteTeam, BeginLeaveTeam, BeginRemoveMember, BeginCreateInvite,
       BeginDeleteInvite, Begin, IdleRequest
<1>2. ASSUME NEW p \in Requests,
             \/ DeleteTeam(p) \/ LeaveTeam(p) \/ RemoveMember(p) \/ DeleteInvite(p)
             \/ \E i \in InviteIds, r \in InviteRoles : CreateInvite(p, i, r)
             \/ \E op \in {"accept", "token"} : AcceptInvite(p, op)
             \/ RejectInvite(p) \/ AbandonRequest(p)
      PROVE  request'[q] = request[q]
  <2>1. End(p)
    BY <1>2 DEF DeleteTeam, LeaveTeam, RemoveMember, DeleteTeamMember, DeleteInvite,
         CreateInvite, AcceptInvite, RejectInvite, AbandonRequest
  <2> QED  BY <1>0, <2>1 DEF End, IdleRequest
<1>3. ASSUME NEW p \in Requests, NEW r, Continue(p, r), r.op # "invite" \/ r.pc # "ready"
      PROVE  request'[q] = request[q]
  BY <1>0, <1>3 DEF Continue
<1>4. ASSUME NEW p \in Requests, NEW u \in Users, FindTarget(p, u) PROVE request'[q] = request[q]
  <2>1. request[p] \in RequestType /\ request[p].op = "remove"
    BY <1>4, RunningRequest DEF FindTarget, At
  <2>2. [request[p] EXCEPT !.pc = "ready", !.to = u].op = "remove"
    BY <2>1 DEF RequestType
  <2> QED  BY <1>3, <1>4, <2>2 DEF FindTarget
<1>5. ASSUME NEW p \in Requests, NEW u \in Users, FindNotMember(p, u) PROVE request'[q] = request[q]
  <2>1. request[p] \in RequestType
    BY <1>5, RunningRequest DEF FindNotMember, At
  <2>2. [request[p] EXCEPT !.pc = "absent", !.to = u].pc = "absent"
    BY <2>1 DEF RequestType
  <2> QED  BY <1>3, <1>5, <2>2 DEF FindNotMember
<1>6. ASSUME NEW p \in Requests, FindNonePending(p)
      PROVE  request'[q] = request[q] \/ FindNonePending(q)
  BY <1>0, <1>6 DEF FindNonePending, Continue
<1>7. ASSUME NEW p \in Requests, NEW i \in InviteIds, FindPending(p, i)
      PROVE  request'[q] = request[q]
  <2>1. request[p] \in RequestType /\ request[p].op = "cancel"
    BY <1>7, RunningRequest DEF FindPending, At
  <2>2. [request[p] EXCEPT !.pc = "ready", !.invite = i].op = "cancel"
    BY <2>1 DEF RequestType
  <2> QED  BY <1>3, <1>7, <2>2 DEF FindPending
<1>8. ASSUME NEW p \in Requests, NEW i \in InviteIds, NEW op \in {"accept", "reject", "token"},
             ReadInvite(p, op, i)
      PROVE  request'[q] = request[q]
  BY <1>0, <1>8 DEF ReadInvite, IdleRequest
<1>9. ASSUME NEW p \in Requests, NEW op \in {"accept", "token"}, CheckMember(p, op)
      PROVE  request'[q] = request[q]
  <2>1. request[p] \in RequestType /\ request[p].op = op
    BY <1>9, RunningRequest DEF CheckMember, At
  <2>2. PICK joins : Continue(p, [request[p] EXCEPT !.pc = "ready", !.joins = joins])
    BY <1>9 DEF CheckMember
  <2>3. [request[p] EXCEPT !.pc = "ready", !.joins = joins].op = op
    BY <2>1 DEF RequestType
  <2> QED  BY <1>3, <2>2, <2>3
<1>10. CASE (\E t \in Teams, u \in Users : CreateTeam(t, u)) \/ (\E i \in InviteIds : Expire(i))
  BY <1>10 DEF CreateTeam, Expire
<1>11. CASE UNCHANGED vars
  BY <1>11 DEF vars
<1> QED  BY <1>1, <1>2, <1>4, <1>5, <1>6, <1>7, <1>8, <1>9, <1>10, <1>11
         DEF Next, TeamRequest, InviteRequest

\* Only CreateInvite adds a pending invitation.
LEMMA PendingSteps ==
  ASSUME TypeOK, [Next]_vars, NEW t \in Teams, NEW u \in Users
  PROVE  \/ Pending(t, u)' \subseteq Pending(t, u)
         \/ \E q \in Ready(t, u), i \in InviteIds :
              /\ Pending(t, u)' \subseteq Pending(t, u) \cup {i}
              /\ request'[q] = IdleRequest
<1> DEFINE Goal == \/ Pending(t, u)' \subseteq Pending(t, u)
                   \/ \E q \in Ready(t, u), i \in InviteIds :
                        /\ Pending(t, u)' \subseteq Pending(t, u) \cup {i}
                        /\ request'[q] = IdleRequest
<1>1. CASE \/ \E s \in Teams, v \in Users : CreateTeam(s, v)
           \/ \E q \in Requests, s \in Teams, v \in Users : DeleteTeamMember(q, s, v)
           \/ Quiet
  BY <1>1 DEF CreateTeam, DeleteTeamMember, Quiet, Pending
<1>2. ASSUME NEW q \in Requests, DeleteTeam(q) PROVE Goal
  BY <1>2, NoneIsNothing DEF DeleteTeam, Pending, NoInvite
<1>3. ASSUME NEW j \in InviteIds, NEW s \in Outcomes, UpdateTeamInviteStatus(j, s) PROVE Goal
  BY <1>3, SettledInvite DEF Pending
<1>4. ASSUME NEW q \in Requests, Settle(q) PROVE Goal
  BY <1>3, <1>4 DEF Settle
<1>5. ASSUME NEW q \in Requests, NEW op \in {"accept", "token"}, AcceptInvite(q, op) PROVE Goal
  BY <1>3, <1>5, Accepted
<1>6. ASSUME NEW q \in Requests, NEW i \in InviteIds, NEW r \in InviteRoles, CreateInvite(q, i, r)
      PROVE  Goal
  <2>1. Pending(t, u)' \subseteq Pending(t, u) \cup {i} /\ request'[q] = IdleRequest
    BY <1>6 DEF CreateInvite, Pending, TypeOK, End
  <2>2. q \in Ready(t, u) \/ Pending(t, u)' \subseteq Pending(t, u)
    BY <1>6 DEF CreateInvite, Pending, TypeOK, Ready, At
  <2> QED  BY <2>1, <2>2
<1> QED  BY <1>1, <1>2, <1>4, <1>5, <1>6, RowSteps

LEMMA BoundedPreserved ==
  ASSUME TypeOK, Bounded, [Next]_vars
  PROVE  Bounded'
<1> SUFFICES ASSUME NEW t \in Teams, NEW u \in Users
             PROVE  Cardinality(Pending(t, u)') + Cardinality(Ready(t, u)') <= Cardinality(Requests)
  BY DEF Bounded
<1> DEFINE P == Pending(t, u)  R == Ready(t, u)
<1>0. /\ Cardinality(P) + Cardinality(R) <= Cardinality(Requests)
      /\ IsFiniteSet(P) /\ Cardinality(P) \in Nat /\ IsFiniteSet(R) /\ Cardinality(R) \in Nat
      /\ IsFiniteSet(P') /\ Cardinality(P') \in Nat /\ IsFiniteSet(R') /\ Cardinality(R') \in Nat
      /\ Cardinality(R') <= Cardinality(Requests) /\ Cardinality(Requests) \in Nat
  <2>1. Cardinality(P) + Cardinality(R) <= Cardinality(Requests)
    BY DEF Bounded
  <2>2. P' \subseteq InviteIds /\ R' \subseteq Requests
    BY DEF Pending, Ready
  <2>3. /\ IsFiniteSet(P') /\ Cardinality(P') \in Nat /\ IsFiniteSet(R') /\ Cardinality(R') \in Nat
        /\ Cardinality(R') <= Cardinality(Requests)
    BY <2>2, TeamsAssumption, FS_Subset, FS_CardinalityType
  <2> QED  BY <2>1, <2>3, Counted
<1>1. CASE \E q \in R' : FindNonePending(q)
  <2>1. PICK q \in Requests : FindNonePending(q) /\ request'[q].team = t /\ request'[q].to = u
    BY <1>1 DEF Ready
  <2>2. request[q].team = t /\ request[q].to = u
    <3>1. request[q] \in RequestType
      BY <2>1, RunningRequest DEF FindNonePending, At
    <3> QED  BY <2>1, <3>1 DEF FindNonePending, Continue, TypeOK, RequestType
  <2>3. P' = {}
    BY <2>1, <2>2 DEF FindNonePending, Continue, Pending
  <2> QED  BY <1>0, <2>3, FS_EmptySet
<1>2. CASE ~\E q \in R' : FindNonePending(q)
  <2>1. \A q \in R' : q \in R /\ request'[q] = request[q]
    BY <1>2, ReadySteps DEF Ready
  <2>2. R' \subseteq R
    BY <2>1
  <2>3. Cardinality(R') <= Cardinality(R)
    BY <1>0, <2>2, FS_Subset
  <2>4. CASE P' \subseteq P
    <3>1. Cardinality(P') <= Cardinality(P)
      BY <1>0, <2>4, FS_Subset
    <3> QED  BY <1>0, <2>3, <3>1
  <2>5. ASSUME NEW q \in R, NEW i \in InviteIds, P' \subseteq P \cup {i}, request'[q] = IdleRequest
        PROVE  Cardinality(P') + Cardinality(R') <= Cardinality(Requests)
    <3>1. R' \subseteq R \ {q}
      BY <2>2, <2>5 DEF Ready, IdleRequest
    <3>2. Cardinality(R') <= Cardinality(R) - 1
      <4>1. IsFiniteSet(R \ {q}) /\ Cardinality(R \ {q}) = Cardinality(R) - 1
        BY <1>0, FS_RemoveElement
      <4>2. Cardinality(R') <= Cardinality(R \ {q})
        BY <3>1, <4>1, FS_Subset
      <4> QED  BY <4>1, <4>2
    <3>3. Cardinality(P') <= Cardinality(P) + 1
      <4>1. /\ IsFiniteSet(P \cup {i})
            /\ Cardinality(P \cup {i}) = Cardinality(P) \/ Cardinality(P \cup {i}) = Cardinality(P) + 1
        BY <1>0, FS_AddElement
      <4>2. Cardinality(P') <= Cardinality(P \cup {i})
        BY <2>5, <4>1, FS_Subset
      <4> QED  BY <1>0, <4>1, <4>2
    <3> QED  BY <1>0, <3>2, <3>3
  <2> QED  BY <2>4, <2>5, PendingSteps
<1> QED  BY <1>1, <1>2

\* However requests overlap, a user has at most as many pending invitations to
\* a team as requests run at a time.
THEOREM PendingAlwaysBounded == Spec => []PendingBounded
<1>1. TypeOK /\ Bounded => PendingBounded
  <2> SUFFICES ASSUME Bounded, NEW t \in Teams, NEW u \in Users
               PROVE  Cardinality(Pending(t, u)) <= Cardinality(Requests)
    BY DEF PendingBounded
  <2>1. Cardinality(Pending(t, u)) + Cardinality(Ready(t, u)) <= Cardinality(Requests)
    BY DEF Bounded
  <2> QED  BY <2>1, Counted
<1> QED  BY <1>1, TeamTypes, BoundedInitially, BoundedPreserved, PTL DEF Spec
=============================================================================
