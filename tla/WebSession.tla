------------------------------ MODULE WebSession ------------------------------
(***************************************************************************)
(* One browser tab on the web client (website/app, website/components):    *)
(* signing up, the link in the mail, logging in, and moving between the    *)
(* pages of the user's teams, with the server of Accounts behind it.       *)
(*                                                                         *)
(* A page under /teams is put together by the web server from the answers  *)
(* to several requests made side by side: the teams for the layout that    *)
(* all those pages share, and what the page itself needs.  The layout is   *)
(* kept while the user moves between them, and so are the teams it knew.   *)
(*                                                                         *)
(* Following a link within the client keeps what is loaded; opening a page *)
(* (a plain link, the address bar, a reload) starts from nothing.          *)
(***************************************************************************)
EXTENDS Accounts, Sidebar, FiniteSets

CONSTANTS
  MaxTeams,         \* bound: the teams there are
  CooldownSeconds,  \* RESEND_COOLDOWN_SECONDS
  RedirectSeconds   \* REDIRECT_SECONDS

ASSUME WebAssumption ==
  /\ MaxTeams \in 1..MaxCodes
  /\ CooldownSeconds \in Nat \ {0}
  /\ RedirectSeconds \in Nat \ {0}

VARIABLES
  page,      \* the page the tab shows, or what it waits for
  team,      \* the team in the page's address, 0 for none
  target,    \* where an entering tab goes, and login leads (the parameter next)
  pending,   \* entering: the requests of the web server not answered yet
  awaiting,  \* the request the page waits for: isSubmitting, isResending
  notice,    \* the message the page shows
  mailsBefore, \* history: the mails sent before the page asked for another
  seconds,   \* what is left of a cooldown or a countdown
  cookie,    \* the session the browser holds, 0 for none
  context,   \* the teams the layout loaded (TeamsContext)
  layout,    \* the team whose layout, with its sidebar, is there; 0 for none
  memberOf,  \* the teams the user is a member of
  changed    \* history: memberships that changed since the layout was asked for

layoutVars == <<layout, sidebarVars>>
tabVars == <<page, team, target, pending, awaiting, notice, mailsBefore, seconds, context,
             layoutVars>>
memberVars == <<memberOf, changed>>
webVars == <<accountVars, tabVars, memberVars, cookie>>

Teams == 1..MaxTeams
Landings == {"success", "expired"}
SidebarPages == {"monitors", "new", "incidents"}
TeamPages == {"teams", "new-team"} \cup SidebarPages

Home == [page |-> "teams", team |-> 0]
NewTeam == [page |-> "new-team", team |-> 0]
Targets == {Home, NewTeam} \cup [page : SidebarPages, team : Teams]

WebTypeOK ==
  /\ AccountsTypeOK
  /\ page \in {"login", "signup", "email-sent", "following", "entering", "error"}
                \cup Landings \cup TeamPages
  /\ team \in 0..MaxTeams
  /\ page \in SidebarPages <=> team # 0
  /\ target \in Targets
  /\ page \notin {"entering", "login"} => target = Home
  /\ pending \subseteq {"layout", "page"}
  /\ page # "entering" => pending = {}
  /\ awaiting \subseteq Requests
  /\ Cardinality(awaiting) <= 1
  /\ notice \in {"none", "error", "resent"}
  /\ mailsBefore \in 0..mailed
  /\ seconds \in 0..(CooldownSeconds + RedirectSeconds)
  /\ layout \in 0..MaxTeams
  /\ page \in SidebarPages => layout = team
  /\ page \notin SidebarPages \cup {"entering"} => layout = 0
  /\ {isMobile, open, openMobile} \subseteq BOOLEAN
  /\ layout = 0 => SidebarUnmounted
  /\ cookie \in 0..issued
  /\ context \subseteq Teams
  /\ memberOf \subseteq Teams
  /\ changed \subseteq Teams

WebInit ==
  /\ AccountsInit
  /\ page = "signup"
  /\ team = 0
  /\ target = Home
  /\ pending = {}
  /\ awaiting = {}
  /\ notice = "none"
  /\ mailsBefore = 0
  /\ seconds = 0
  /\ cookie = 0
  /\ context = {}
  /\ layout = 0
  /\ SidebarUnmounted
  /\ memberOf = {}
  /\ changed = {}

--------------------------------------------------------------------------------
LeaveLayout == layout' = 0 /\ UnmountSidebar

(* Mutant: the parameter next is not taken off the address.                *)
ShowKeepsTarget(p, next) ==
  /\ page' = p
  /\ team' = 0
  /\ target' = target
  /\ pending' = {}
  /\ awaiting' = {}
  /\ notice' = "none"
  /\ mailsBefore' = 0
  /\ seconds' = IF p \in Landings THEN RedirectSeconds ELSE 0
  /\ context' = {}
  /\ LeaveLayout

(* The tab shows a page outside /teams.                                    *)
Show(p, next) ==
  /\ page' = p
  /\ team' = 0
  /\ target' = next
  /\ pending' = {}
  /\ awaiting' = {}
  /\ notice' = "none"
  /\ mailsBefore' = 0
  /\ seconds' = IF p \in Landings THEN RedirectSeconds ELSE 0
  /\ context' = {}
  /\ LeaveLayout

(* The web server is asked for a page under /teams.                        *)
Enter(t, asked) ==
  /\ page' = "entering"
  /\ team' = 0
  /\ target' = t
  /\ pending' = asked \cup IF t.page \in {"monitors", "new"} THEN {"page"} ELSE {}
  /\ awaiting' = {}
  /\ notice' = "none"
  /\ mailsBefore' = 0
  /\ seconds' = 0

(* From outside, or anew: the layout is loaded.                            *)
Visit(t) ==
  /\ Enter(t, {"layout"})
  /\ context' = {}
  /\ LeaveLayout
  /\ changed' = {}

(* Along a link between two pages under /teams: the layout stays.          *)
Move(t) == Enter(t, {}) /\ UNCHANGED <<context, layoutVars, memberVars>>

Stay == UNCHANGED <<page, team, target, pending, context, layoutVars>>

AllIdle == \A r \in Requests : requests[r].stage = "idle"

(* Bounds: the account is followed up to its last session, and what is    *)
(* done under /teams, or by way of the provider, is begun while nothing    *)
(* else is under way.                                                      *)
SessionsLeft == issued < MaxSessions

(* Whoever has a new cookie is the same user as before, unless the address *)
(* has two: one who registered, and one of the provider's account.         *)
TeamsOfCookie ==
  IF user # "none" /\ provider = "other" THEN memberOf' \in SUBSET Teams
  ELSE UNCHANGED memberOf

(* A form is submitted, whose button is disabled while an answer is        *)
(* awaited.                                                                *)
Submit(r, p, op) ==
  /\ page = p
  /\ awaiting = {}
  /\ Begin(r, op, 0)
  /\ awaiting' = {r}
  /\ notice' = "none"
  /\ mailsBefore' = IF op = "resend" THEN mailed ELSE 0
  /\ seconds' = 0
  /\ Stay
  /\ UNCHANGED <<memberVars, cookie>>

SignUp(r) == SessionsLeft /\ Submit(r, "signup", "register")

LogIn(r) == SessionsLeft /\ Submit(r, "login", "login")

CreateTeam(r) == AllIdle /\ Submit(r, "new-team", "createTeam")

Resend(r) == SessionsLeft /\ seconds = 0 /\ Submit(r, "email-sent", "resend")

(* What was typed does not pass the schema: errors, and nothing is sent.   *)
Invalid(p) ==
  /\ page = p
  /\ awaiting = {}
  /\ awaiting' = {}
  /\ notice' = "error"
  /\ UNCHANGED <<accountVars, page, team, target, pending, mailsBefore, seconds, context,
                 layoutVars, memberVars, cookie>>

FormRefused == Invalid("signup") \/ Invalid("login")
TeamRefused == Invalid("new-team")

(* The answer the page waits for arrives.                                  *)
Arrives(r, op, answers) ==
  /\ r \in awaiting
  /\ requests[r].op = op
  /\ requests[r].answer \in answers
  /\ Finish(r)

Complain ==
  /\ awaiting' = {}
  /\ notice' = "error"
  /\ seconds' = 0
  /\ Stay
  /\ UNCHANGED <<mailsBefore, memberVars, cookie>>

Refusals == {"4xx", "401", "5xx"}
ShowsRefusal(r) ==
  /\ requests[r].op \notin {"verify", "oauth"}
  /\ Arrives(r, requests[r].op, Refusals)
  /\ Complain

(* Nothing arrived within 15 seconds, or the connection broke: the client  *)
(* gives up, and the server does not hear of it.                           *)
Abort(r) ==
  /\ r \in awaiting
  /\ page # "following"
  /\ Complain
  /\ UNCHANGED accountVars

(* An answer nobody waits for any more.                                    *)
Dropped(r) == r \notin awaiting /\ Finish(r) /\ UNCHANGED <<tabVars, memberVars, cookie>>

LoggedIn(r) ==
  /\ Arrives(r, "login", {"200"})
  /\ cookie' = requests[r].session
  /\ Visit(target)
  /\ TeamsOfCookie

(* "email not verified", or the registration's "Verification email sent".  *)
SentToInbox(r) ==
  /\ Arrives(r, "login", {"403"}) \/ Arrives(r, "register", {"mailed"})
  /\ Show("email-sent", Home)
  /\ UNCHANGED <<memberVars, cookie>>

(* Any other success of the registration empties the form, and that is all.*)
SignedUp(r) ==
  /\ Arrives(r, "register", {"registered"})
  /\ cookie' = requests[r].session
  /\ awaiting' = {}
  /\ TeamsOfCookie
  /\ UNCHANGED <<page, team, target, pending, notice, mailsBefore, seconds, context,
                 layoutVars, changed>>

(* Whatever the message of the answer says.                                *)
Resent(r) ==
  /\ Arrives(r, "resend", {"200", "mailed"})
  /\ awaiting' = {}
  /\ notice' = "resent"
  /\ seconds' = CooldownSeconds
  /\ Stay
  /\ UNCHANGED <<mailsBefore, memberVars, cookie>>

(* The browser is led to the API, which redirects to the client.           *)
Follow(r, op, code) ==
  /\ SessionsLeft
  /\ page # "following"
  /\ Begin(r, op, code)
  /\ page' = "following"
  /\ team' = 0
  /\ target' = Home
  /\ pending' = {}
  /\ awaiting' = {r}
  /\ notice' = "none"
  /\ mailsBefore' = 0
  /\ seconds' = 0
  /\ context' = {}
  /\ LeaveLayout
  /\ UNCHANGED <<memberVars, cookie>>

(* The link in a mail, and the way back from the provider: its buttons in  *)
(* the forms do nothing, so the tab has the API's address from elsewhere.  *)
FollowLink(r, code) == Follow(r, "verify", code)

ReturnFromProvider(r) == AllIdle /\ Follow(r, "oauth", 0)

(* The callback leads to what the flow was begun with as next.             *)
LoggedInByProvider(r, next) ==
  /\ Arrives(r, "oauth", {"307"})
  /\ cookie' = requests[r].session
  /\ Visit(next)
  /\ TeamsOfCookie

(* Mutant: what is not "expired" is taken for a success.                   *)
LandingUnchecked(answer) == IF answer = "expired" THEN "expired" ELSE "success"

Landing(answer) == IF answer \in Landings THEN answer ELSE "error"

Lands(r) ==
  /\ page = "following"
  /\ Arrives(r, "verify", Landings \cup Refusals) \/ Arrives(r, "oauth", Refusals)
  /\ Show(Landing(requests[r].answer), Home)
  /\ UNCHANGED <<memberVars, cookie>>

(* The seconds of a cooldown, or of the countdown to the login page.       *)
Tick ==
  /\ seconds > 0
  /\ seconds' = seconds - 1
  /\ UNCHANGED <<accountVars, page, team, target, pending, awaiting, notice, mailsBefore,
                 context, layoutVars, memberVars, cookie>>

CountedDown ==
  /\ page \in Landings
  /\ seconds = 0
  /\ Show("login", Home)
  /\ UNCHANGED <<accountVars, memberVars, cookie>>

(* The address bar, plain links, and the links that lead to these pages.   *)
Open(p) ==
  /\ Show(p, Home)
  /\ UNCHANGED <<accountVars, memberVars, cookie>>

OpenTeams(t) ==
  /\ AllIdle
  /\ Visit(t)
  /\ UNCHANGED <<accountVars, memberOf, cookie>>

--------------------------------------------------------------------------------
(* The web server passes on the cookie of the request it answers.          *)
buildCookieHeader == Authorized(cookie)

(* fetchTeams and fetchUser of the layout.                                 *)
LoadLayout ==
  /\ "layout" \in pending
  /\ buildCookieHeader
  /\ pending' = pending \ {"layout"}
  /\ context' = memberOf
  /\ UNCHANGED <<accountVars, page, team, target, awaiting, notice, mailsBefore, seconds,
                 layoutVars, memberVars, cookie>>

(* fetchMonitors, or fetchRegions and fetchNotifications, of the page.     *)
LoadPage ==
  /\ "page" \in pending
  /\ buildCookieHeader
  /\ target.team \in memberOf
  /\ pending' = pending \ {"page"}
  /\ UNCHANGED <<accountVars, page, team, target, awaiting, notice, mailsBefore, seconds,
                 context, layoutVars, memberVars, cookie>>

(* The one whose 401 comes first says where login leads.                   *)
Unauthorized(request, next) ==
  /\ request \in pending
  /\ ~buildCookieHeader
  /\ Show("login", next)
  /\ UNCHANGED <<accountVars, memberVars, cookie>>

(* Not a member, or no answer.                                             *)
LoadFails ==
  /\ page = "entering"
  /\ Show("error", Home)
  /\ UNCHANGED <<accountVars, memberVars, cookie>>

(* The page appears.  A sidebar stays in the layout of its team, and goes  *)
(* with it.                                                                *)
Entered ==
  /\ page = "entering"
  /\ pending = {}
  /\ page' = target.page
  /\ team' = target.team
  /\ target' = Home
  /\ layout' = target.team
  /\ \/ layout' = layout /\ UNCHANGED sidebarVars
     \/ layout' \notin {0, layout} /\ SidebarProvider
     \/ layout' = 0 /\ layout # 0 /\ UnmountSidebar
  /\ UNCHANGED <<accountVars, pending, awaiting, notice, mailsBefore, seconds, context,
                 memberVars, cookie>>

(* Mutant: the switcher does not look at the address.                      *)
ActiveTeamUnrouted(teams, teamID) ==
  IF teams = {} THEN 0 ELSE CHOOSE t \in teams : \A u \in teams : u <= t

(* The team the switcher names: the one of the address, else the first.    *)
ActiveTeam(teams, teamID) ==
  IF teams = {} THEN 0
  ELSE IF teamID \in teams THEN teamID
  ELSE CHOOSE t \in teams : \A u \in teams : u <= t

(* The team switcher, which is not shown to a user without teams, and the  *)
(* list of teams to choose from.                                           *)
SwitchTeam(t) ==
  /\ page \in {"teams"} \cup SidebarPages
  /\ SidebarUsable
  /\ t \in context
  /\ Move([page |-> "monitors", team |-> t])
  /\ UNCHANGED <<accountVars, cookie>>

AddTeam ==
  /\ page \in {"teams"} \cup SidebarPages
  /\ SidebarUsable
  /\ page \in SidebarPages => ActiveTeam(context, team) # 0
  /\ Move(NewTeam)
  /\ UNCHANGED <<accountVars, cookie>>

(* The sidebar's links, "Add Monitor" on the page, and the way back once   *)
(* it is added.  A sheet stays open over the page it leads to.             *)
FollowNav(p) ==
  /\ page \in SidebarPages
  /\ \/ p # "new" /\ SidebarUsable
     \/ p = "new" /\ page = "monitors" /\ PageUsable
     \/ p = "monitors" /\ page = "new"
  /\ Move([page |-> p, team |-> team])
  /\ UNCHANGED <<accountVars, cookie>>

(* Status Pages, Members and Setting lead to pages there are not.          *)
FollowDeadNav ==
  /\ page \in SidebarPages
  /\ SidebarUsable
  /\ Show("error", Home)
  /\ UNCHANGED <<accountVars, memberVars, cookie>>

(* "Teams" at the head of a wide page, a plain link.                       *)
BreadcrumbLink ==
  /\ page \in SidebarPages
  /\ ~isMobile
  /\ OpenTeams(Home)

(* "Log out", and all other items of the user's menu: nothing happens.     *)
NavUser ==
  /\ page \in SidebarPages
  /\ SidebarUsable
  /\ UNCHANGED webVars

OperateSidebar ==
  /\ page \in SidebarPages
  /\ AllIdle
  /\ UseSidebar
  /\ UNCHANGED <<accountVars, page, team, target, pending, awaiting, notice, mailsBefore,
                 seconds, context, layout, memberVars, cookie>>

TeamCreated(r) ==
  /\ Arrives(r, "createTeam", {"200"})
  /\ Move([page |-> "monitors", team |-> requests[r].code])
  /\ UNCHANGED cookie

--------------------------------------------------------------------------------
ServerHandles(r) == Handle(r) /\ UNCHANGED <<tabVars, memberVars, cookie>>

ChangeMembership(teams) ==
  /\ changed' = changed \cup (memberOf \ teams) \cup (teams \ memberOf)
  /\ memberOf' = teams

(* The server creates the team, whether the page still waits or not.       *)
ServerCreatesTeam(r, t) ==
  /\ t \notin memberOf
  /\ Authorized(cookie)
  /\ AnswerTeam(r, "200", t)
  /\ ChangeMembership(memberOf \cup {t})
  /\ UNCHANGED <<tabVars, cookie>>

ServerRefusesTeam(r) ==
  /\ \/ ~Authorized(cookie) /\ AnswerTeam(r, "401", 0)
     \/ Authorized(cookie) /\ AnswerTeam(r, "4xx", 0)
  /\ UNCHANGED <<tabVars, memberVars, cookie>>

(* Others invite the user, remove her, or delete a team: a bound leaves it *)
(* out while no page depends on it.                                        *)
Elsewhere(t) ==
  /\ Authorized(cookie)
  /\ page \in TeamPages \cup {"entering"}
  /\ \E teams \in {memberOf \cup {t}, memberOf \ {t}} :
       teams # memberOf /\ ChangeMembership(teams)
  /\ UNCHANGED <<accountVars, tabVars, cookie>>

ServerChanges ==
  /\ \/ SessionsLeft /\ (ExpireCode \/ Restart)
     \/ \E s \in sessions : EndSession(s)
  /\ UNCHANGED <<tabVars, memberVars, cookie>>

SubmitForm(r) == SignUp(r) \/ LogIn(r) \/ CreateTeam(r) \/ Resend(r)

TakeAnswer(r) ==
  \/ LoggedIn(r) \/ SentToInbox(r) \/ SignedUp(r) \/ Resent(r) \/ TeamCreated(r)
  \/ \E next \in Targets : LoggedInByProvider(r, next)
  \/ ShowsRefusal(r) \/ Lands(r) \/ Dropped(r)

WebNext ==
  \/ \E r \in Requests :
       \/ SubmitForm(r) \/ TakeAnswer(r) \/ Abort(r)
       \/ ReturnFromProvider(r) \/ \E code \in 1..mailed : FollowLink(r, code)
       \/ ServerHandles(r) \/ ServerRefusesTeam(r)
       \/ \E t \in Teams : ServerCreatesTeam(r, t)
  \/ FormRefused \/ TeamRefused
  \/ Tick \/ CountedDown
  \/ \E p \in {"login", "signup"} : Open(p)
  \/ \E t \in Targets : OpenTeams(t)
  \/ LoadLayout \/ LoadPage \/ LoadFails \/ Entered
  \/ Unauthorized("layout", Home) \/ Unauthorized("page", target)
  \/ \E t \in Teams : SwitchTeam(t) \/ Elsewhere(t)
  \/ \E p \in SidebarPages : FollowNav(p)
  \/ AddTeam \/ BreadcrumbLink \/ FollowDeadNav \/ NavUser \/ OperateSidebar
  \/ ServerChanges

WebSpec == WebInit /\ [][WebNext]_webVars

--------------------------------------------------------------------------------
(* What a page tells was true.  A link was mailed when the tab says so; it *)
(* was mailed anew, or there was no need to, when it says "resent"         *)
(* (email-sent/page.tsx:54, where every 200 counts); the address was       *)
(* verified once when it says that; and nobody sees a team's page without  *)
(* a session, of a user who was verified or came by the provider           *)
(* (login-form.tsx:85, verify/[result]/page.tsx:33).                       *)
PagesTellTheTruth ==
  /\ page = "email-sent" => mailed > 0
  /\ notice = "resent" => mailed > mailsBefore \/ verifiedOnce
  /\ page = "success" => verifiedOnce
  /\ page \in TeamPages => cookie # 0 /\ (verifiedOnce \/ cookie \in vouched)

(* The sidebar names the team whose monitors are shown, unless it is one   *)
(* the user has joined or lost since the layout was loaded: its teams are  *)
(* not asked for again (team-switcher.tsx:48, new-team/page.tsx:62).       *)
SwitcherTrails ==
  page \in {"monitors", "new"} /\ context # {} /\ team \notin changed =>
    ActiveTeam(context, team) = team

(* While the user moves between a team's pages the sidebar stays as she    *)
(* left it, and a toggle works on the sidebar she sees, never on that of   *)
(* the other window width (sidebar.tsx:92, [teamID]/layout.tsx:20).        *)
SidebarStaysAsLeft ==
  [][layout # 0 /\ layout' = layout =>
       \/ UNCHANGED <<open, openMobile>>
       \/ page' = page /\ isMobile' = isMobile /\ Shown' # Shown]_webVars
================================================================================
