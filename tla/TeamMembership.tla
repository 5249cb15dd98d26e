---------------------------- MODULE TeamMembership ----------------------------
(***************************************************************************)
(* Teams, their members and the invitations to join them.                  *)
(*                                                                         *)
(* Every handler is one READ COMMITTED transaction that reads a few rows,  *)
(* one statement after the other, refuses or goes on, and then writes rows *)
(* it names by id.  It takes no lock before its write.  A request is       *)
(* therefore one action per statement whose answer it keeps, and one       *)
(* action for its writes and the commit; other requests run in between.    *)
(***************************************************************************)
EXTENDS FiniteSets, Naturals

CONSTANTS
  Users,         \* the registered users
  Teams,         \* ids teams can get (bounds their number)
  InviteIds,     \* ids invitations can get (bounds their number)
  Requests,      \* slots for requests (bounds how many overlap)
  AskedRoles,    \* roles asked for in new invitations
  SMTPEnabled,   \* config: invitations are sent by mail
  None           \* no value

ASSUME TeamsAssumption ==
  /\ IsFiniteSet(InviteIds) /\ IsFiniteSet(Requests)
  /\ AskedRoles \subseteq {"owner", "admin", "member", "viewer"}
  /\ SMTPEnabled \in BOOLEAN
  /\ None \notin Users \cup Teams \cup InviteIds
  /\ None \notin {"owner", "admin", "member", "viewer",
                  "pending", "accepted", "rejected", "canceled"}

VARIABLES
  teams,         \* teams with a row in the database
  gone,          \* teams deleted (ids are never used again)
  role,          \* team_members: the role of a user in a team
  invite,        \* team_invites
  expired,       \* invitations past expires_at, and ids of deleted ones
  request,       \* requests between two of their statements
  left           \* history: members whose row was deleted, with their team

vars == <<teams, gone, role, invite, expired, request, left>>

Roles == {"owner", "admin", "member", "viewer"}
Staff == {"owner", "admin"}
Outcomes == {"accepted", "rejected", "canceled"}
Statuses == {"pending"} \cup Outcomes

\* What normalizeInviteRole lets through.
InviteRolesUnchecked == AskedRoles       \* mutant: any role of the enum
InviteRoles == AskedRoles \cap {"admin", "member", "viewer"}

NoInvite == [team |-> None, to |-> None, role |-> None, status |-> None, stamps |-> {}]
IdleRequest == [op |-> "idle", pc |-> "idle", by |-> None, team |-> None, to |-> None,
                invite |-> None, joins |-> FALSE]

Exists(i) == invite[i].team # None
Pending(t, u) ==
  {i \in InviteIds : invite[i].team = t /\ invite[i].to = u /\ invite[i].status = "pending"}

Init ==
  /\ teams = {} /\ gone = {}
  /\ role = [p \in Teams \X Users |-> None]
  /\ invite = [i \in InviteIds |-> NoInvite]
  /\ expired = {}
  /\ request = [q \in Requests |-> IdleRequest]
  /\ left = {}

-----------------------------------------------------------------------------
(* The statements of the handlers *)

\* The first statement of a request that needs a role in the team.
Begin(q, op, t, u, roles) ==
  /\ request[q].pc = "idle"
  /\ role[<<t, u>>] \in roles
  /\ request' = [request EXCEPT ![q] =
       [IdleRequest EXCEPT !.op = op, !.pc = "authorized", !.by = u, !.team = t]]
  /\ UNCHANGED <<teams, gone, role, invite, expired, left>>

\* A later statement of q has found what it needs.
At(q, op, pc) == request[q].op = op /\ request[q].pc = pc
Continue(q, r) ==
  /\ request' = [request EXCEPT ![q] = r]
  /\ UNCHANGED <<teams, gone, role, invite, expired, left>>
End(q) == request' = [request EXCEPT ![q] = IdleRequest]

-----------------------------------------------------------------------------
(* Teams *)

CreateTeam(t, u) ==
  /\ t \notin teams \cup gone
  /\ teams' = teams \cup {t}
  /\ role' = [role EXCEPT ![<<t, u>>] = "owner"]
  /\ UNCHANGED <<gone, invite, expired, request, left>>

BeginDeleteTeam(q, t, u) == Begin(q, "delete", t, u, {"owner"})

\* Three statements, and foreign keys that cascade to what is committed in
\* between: monitors, channels and status pages go as well.
DeleteTeam(q) ==
  LET t == request[q].team IN
  /\ At(q, "delete", "authorized")
  /\ t \in teams
  /\ teams' = teams \ {t}
  /\ gone' = gone \cup {t}
  /\ role' = [p \in Teams \X Users |-> IF p[1] = t THEN None ELSE role[p]]
  /\ invite' = [i \in InviteIds |-> IF invite[i].team = t THEN NoInvite ELSE invite[i]]
  /\ expired' = expired \cup {i \in InviteIds : invite[i].team = t}
  /\ End(q)
  /\ UNCHANGED left

BeginLeaveTeam(q, t, u) ==
  Begin(q, "leave", t, u, Roles \ {"owner"})

BeginRemoveMember(q, t, u) == Begin(q, "remove", t, u, Staff)

\* RemoveMember: whoever is a member can be removed, but not by itself.
FindTarget(q, u) ==
  /\ At(q, "remove", "authorized")
  /\ u # request[q].by
  /\ role[<<request[q].team, u>>] \in Roles
  /\ Continue(q, [request[q] EXCEPT !.pc = "ready", !.to = u])

\* DeleteTeamMemberByUserID finds no row if another request was faster.
DeleteTeamMember(q, t, u) ==
  /\ role[<<t, u>>] \in Roles
  /\ role' = [role EXCEPT ![<<t, u>>] = None]
  /\ left' = left \cup {<<t, u>>}
  /\ End(q)
  /\ UNCHANGED <<teams, gone, invite, expired>>

LeaveTeam(q) ==
  /\ At(q, "leave", "authorized")
  /\ DeleteTeamMember(q, request[q].team, request[q].by)

RemoveMember(q) ==
  /\ At(q, "remove", "ready")
  /\ DeleteTeamMember(q, request[q].team, request[q].to)

-----------------------------------------------------------------------------
(* Invitations, from the team's side *)

BeginCreateInvite(q, t, u) == Begin(q, "invite", t, u, Staff)

FindNotMember(q, u) ==
  /\ At(q, "invite", "authorized")
  /\ role[<<request[q].team, u>>] = None
  /\ Continue(q, [request[q] EXCEPT !.pc = "absent", !.to = u])

\* Mutant: an expired invitation does not count.
FindNoneUnexpired(q) ==
  /\ At(q, "invite", "absent")
  /\ Pending(request[q].team, request[q].to) \subseteq expired
  /\ Continue(q, [request[q] EXCEPT !.pc = "ready"])

\* GetPendingTeamInviteByTeamAndUser, which does not look at expires_at.
FindNonePending(q) ==
  /\ At(q, "invite", "absent")
  /\ Pending(request[q].team, request[q].to) = {}
  /\ Continue(q, [request[q] EXCEPT !.pc = "ready"])

\* Mutant: the row is inserted without a look at the team.
CreateInviteAnyway(q, i, r) ==
  /\ At(q, "invite", "ready")
  /\ ~Exists(i)
  /\ invite' = [invite EXCEPT ![i] =
       [team |-> request[q].team, to |-> request[q].to, role |-> r,
        status |-> "pending", stamps |-> {}]]
  /\ End(q)
  /\ UNCHANGED <<teams, gone, role, expired, left>>

\* The insert needs the team (foreign key), the mail a requester who is still
\* a member.  Ids are used once.
CreateInvite(q, i, r) ==
  /\ At(q, "invite", "ready")
  /\ request[q].team \in teams
  /\ SMTPEnabled => role[<<request[q].team, request[q].by>>] \in Roles
  /\ ~Exists(i) /\ i \notin expired
  /\ invite' = [invite EXCEPT ![i] =
       [team |-> request[q].team, to |-> request[q].to, role |-> r,
        status |-> "pending", stamps |-> {}]]
  /\ End(q)
  /\ UNCHANGED <<teams, gone, role, expired, left>>

Expire(i) ==
  /\ Exists(i) /\ i \notin expired
  /\ expired' = expired \cup {i}
  /\ UNCHANGED <<teams, gone, role, invite, request, left>>

\* Mutant: the other timestamps keep their values.
UpdateStatusKeepingStamps(i, s) ==
  /\ Exists(i)
  /\ invite' = [invite EXCEPT ![i] = [@ EXCEPT !.status = s, !.stamps = invite[i].stamps \cup {s}]]

\* UPDATE ... WHERE id, whatever the status has become.
UpdateTeamInviteStatus(i, s) ==
  /\ Exists(i)
  /\ invite' = [invite EXCEPT ![i] = [@ EXCEPT !.status = s, !.stamps = {s}]]

BeginDeleteInvite(q, t, u) == Begin(q, "cancel", t, u, Staff)

FindPending(q, i) ==
  /\ At(q, "cancel", "authorized")
  /\ invite[i].team = request[q].team /\ invite[i].status = "pending"
  /\ Continue(q, [request[q] EXCEPT !.pc = "ready", !.invite = i])

DeleteInvite(q) ==
  /\ At(q, "cancel", "ready")
  /\ UpdateTeamInviteStatus(request[q].invite, "canceled")
  /\ End(q)
  /\ UNCHANGED <<teams, gone, role, expired, left>>

-----------------------------------------------------------------------------
(* Invitations, from the invitee's side: "accept" and "reject" are          *)
(* UpdateInvite, "token" is GetInviteToken.                                 *)

ReadInvite(q, op, i) ==
  /\ request[q].pc = "idle"
  /\ invite[i].status = "pending" /\ i \notin expired
  /\ request' = [request EXCEPT ![q] =
       [IdleRequest EXCEPT !.op = op, !.pc = IF op = "reject" THEN "ready" ELSE "read",
                           !.team = invite[i].team, !.to = invite[i].to, !.invite = i]]
  /\ UNCHANGED <<teams, gone, role, invite, expired, left>>

\* Mutant: the one who follows the link is taken for a member.
CheckTokenMember(q, op) ==
  /\ At(q, op, "read")
  /\ Continue(q, [request[q] EXCEPT !.pc = "ready", !.joins = op = "accept"])

\* UpdateInvite refuses a member, GetInviteToken only skips the insert.
CheckMember(q, op) ==
  LET member == role[<<request[q].team, request[q].to>>] \in Roles IN
  /\ At(q, op, "read")
  /\ op = "accept" => ~member
  /\ Continue(q, [request[q] EXCEPT !.pc = "ready", !.joins = ~member])

\* Mutant: the default of the column instead of the role offered.
JoinAsMember(t, u, r) == role' = [role EXCEPT ![<<t, u>>] = "member"]
Join(t, u, r) == role' = [role EXCEPT ![<<t, u>>] = r]

\* A second row of a member violates a unique index, one of a deleted team a
\* foreign key.
AcceptInvite(q, op) ==
  LET r == request[q] IN
  /\ At(q, op, "ready")
  /\ \/ /\ r.joins
        /\ r.team \in teams /\ role[<<r.team, r.to>>] = None
        /\ Join(r.team, r.to, invite[r.invite].role)
     \/ ~r.joins /\ UNCHANGED role
  /\ UpdateTeamInviteStatus(r.invite, "accepted")
  /\ End(q)
  /\ UNCHANGED <<teams, gone, expired, left>>

RejectInvite(q) ==
  /\ At(q, "reject", "ready")
  /\ UpdateTeamInviteStatus(request[q].invite, "rejected")
  /\ End(q)
  /\ UNCHANGED <<teams, gone, role, expired, left>>

\* A request is refused, finds its row gone, or fails, and is rolled back.
AbandonRequest(q) ==
  /\ request[q].pc # "idle"
  /\ End(q)
  /\ UNCHANGED <<teams, gone, role, invite, expired, left>>

-----------------------------------------------------------------------------

TeamRequest(q) ==
  \/ \E t \in Teams, u \in Users :
       \/ BeginDeleteTeam(q, t, u) \/ BeginLeaveTeam(q, t, u) \/ BeginRemoveMember(q, t, u)
       \/ BeginCreateInvite(q, t, u) \/ BeginDeleteInvite(q, t, u)
  \/ DeleteTeam(q) \/ LeaveTeam(q) \/ RemoveMember(q)
  \/ \E u \in Users : FindTarget(q, u)

InviteRequest(q) ==
  \/ \E u \in Users : FindNotMember(q, u)
  \/ FindNonePending(q)
  \/ \E i \in InviteIds, r \in InviteRoles : CreateInvite(q, i, r)
  \/ \E i \in InviteIds : FindPending(q, i)
  \/ DeleteInvite(q)
  \/ \E i \in InviteIds, op \in {"accept", "reject", "token"} : ReadInvite(q, op, i)
  \/ \E op \in {"accept", "token"} : CheckMember(q, op) \/ AcceptInvite(q, op)
  \/ RejectInvite(q)

Next ==
  \/ \E t \in Teams, u \in Users : CreateTeam(t, u)
  \/ \E i \in InviteIds : Expire(i)
  \/ \E q \in Requests : TeamRequest(q) \/ InviteRequest(q) \/ AbandonRequest(q)

Spec == Init /\ [][Next]_vars

-----------------------------------------------------------------------------
(* Properties *)

InviteType ==
  [team : Teams, to : Users, role : Roles, status : Statuses, stamps : SUBSET Outcomes]

RequestType ==
  {r \in [op : {"delete", "leave", "remove", "invite", "cancel", "accept", "reject", "token"},
          pc : {"authorized", "absent", "read", "ready"},
          by : Users \cup {None}, team : Teams, to : Users \cup {None},
          invite : InviteIds \cup {None}, joins : BOOLEAN] :
     /\ r.op \in {"delete", "leave"} => r.pc = "authorized" /\ r.by # None
     /\ r.op = "remove" /\ r.pc = "ready" => r.to # None
     /\ r.op = "invite" => r.by # None /\ (r.pc # "authorized" => r.to # None)
     /\ r.op = "cancel" /\ r.pc = "ready" => r.invite # None
     /\ r.op \in {"accept", "reject", "token"} => r.invite # None /\ r.to # None}

\* Every variable has its type, and rows of members and invitations are of
\* teams that exist: a request that began before a team was deleted adds none.
TypeOK ==
  /\ teams \subseteq Teams /\ gone \subseteq Teams /\ teams \cap gone = {}
  /\ role \in [Teams \X Users -> Roles \cup {None}]
  /\ \A t \in Teams, u \in Users : role[<<t, u>>] # None => t \in teams
  /\ invite \in [InviteIds -> InviteType \cup {NoInvite}]
  /\ \A i \in InviteIds : Exists(i) => invite[i].team \in teams
  /\ expired \subseteq InviteIds
  /\ request \in [Requests -> RequestType \cup {IdleRequest}]
  /\ left \subseteq Teams \X Users

\* A team never has two owners: only its creation makes one, whatever roles
\* are asked for in invitations and whoever accepts them.
SingleOwner ==
  \A t \in Teams, u, v \in Users :
    role[<<t, u>>] = "owner" /\ role[<<t, v>>] = "owner" => u = v

\* An invitation has the timestamp of its status and no other, although two
\* requests that both found it pending may settle it one after the other.
StampMatchesStatus ==
  \A i \in InviteIds : Exists(i) =>
    invite[i].stamps = IF invite[i].status = "pending" THEN {} ELSE {invite[i].status}

\* However requests overlap, a user has at most as many pending invitations to
\* a team as requests run at a time: one if none overlap.
PendingBounded ==
  \A t \in Teams, u \in Users : Cardinality(Pending(t, u)) <= Cardinality(Requests)

\* Whoever an accepted invitation is for is a member, or was one since.
AcceptedMeansJoined ==
  \A i \in InviteIds : invite[i].status = "accepted" =>
    \/ role[<<invite[i].team, invite[i].to>>] # None
    \/ <<invite[i].team, invite[i].to>> \in left

\* Nobody joins a team that exists but by an invitation to it, in the role it
\* offers, and the same commit leaves that invitation accepted.
JoinsAreInvited ==
  [][\A t \in teams, u \in Users :
       role[<<t, u>>] = None /\ role'[<<t, u>>] # None =>
         \E i \in InviteIds :
           /\ invite[i].team = t /\ invite[i].to = u /\ invite[i].role = role'[<<t, u>>]
           /\ invite'[i].status = "accepted"]_vars
===============================================================================
