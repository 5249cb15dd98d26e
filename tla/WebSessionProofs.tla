--------------------------- MODULE WebSessionProofs ----------------------------
(***************************************************************************)
(* The tab implements the accounts: whatever it does is a step of Accounts *)
(* or leaves them alone, so what holds of them holds with the tab.  What   *)
(* the tab's pages tell is true, the team switcher names the team that is  *)
(* shown, and the sidebar stays as the user left it: for any number of     *)
(* requests, mails, sessions and teams.                                    *)
(***************************************************************************)
EXTENDS WebSession, AccountsProofs, FiniteSetTheorems

(* A form that is submitted is a request the server may get.               *)
LEMMA SubmitBegins ==
  ASSUME NEW r \in Requests, SubmitForm(r)
  PROVE  AccountsNext
<1>1. \E op \in Ops \ {"verify"} : Begin(r, op, 0)
  BY DEF SubmitForm, SignUp, LogIn, CreateTeam, Resend, Submit, Ops
<1> QED  BY <1>1 DEF AccountsNext

(* An answer that is taken ends the request.                               *)
LEMMA AnswerFinishes ==
  ASSUME NEW r \in Requests, TakeAnswer(r)
  PROVE  Finish(r)
BY DEF TakeAnswer, LoggedIn, SentToInbox, SignedUp, Resent, TeamCreated, LoggedInByProvider,
       ShowsRefusal, Lands, Dropped, Arrives

\* What the server does for the tab is a step of its own specification.
LEMMA ServerSteps ==
  ASSUME NEW r \in Requests,
         ServerHandles(r) \/ ServerRefusesTeam(r) \/ (\E t \in Teams : ServerCreatesTeam(r, t))
  PROVE  AccountsNext
<1>1. CASE ServerHandles(r)
  BY <1>1 DEF ServerHandles, AccountsNext
<1>2. CASE ServerRefusesTeam(r)
  <2>1. 0 \in 0..MaxCodes
    BY AccountsAssumption
  <2>2. \E answer \in {"200", "4xx", "401"} : AnswerTeam(r, answer, 0)
    BY <1>2 DEF ServerRefusesTeam
  <2> QED  BY <2>1, <2>2 DEF AccountsNext
<1>3. ASSUME NEW t \in Teams, ServerCreatesTeam(r, t) PROVE AccountsNext
  <2>1. t \in 0..MaxCodes
    BY AccountsAssumption, WebAssumption DEF Teams
  <2>2. AnswerTeam(r, "200", t)
    BY <1>3 DEF ServerCreatesTeam
  <2> QED  BY <2>1, <2>2 DEF AccountsNext
<1> QED  BY <1>1, <1>2, <1>3

(* What the user and the browser do without the server.                    *)
LocalStep ==
  \/ \E r \in Requests : Abort(r)
  \/ FormRefused \/ TeamRefused
  \/ Tick \/ CountedDown
  \/ \E p \in {"login", "signup"} : Open(p)
  \/ \E t \in Targets : OpenTeams(t)
  \/ LoadLayout \/ LoadPage \/ LoadFails \/ Entered
  \/ Unauthorized("layout", Home) \/ Unauthorized("page", target)
  \/ \E t \in Teams : SwitchTeam(t) \/ Elsewhere(t)
  \/ \E p \in SidebarPages : FollowNav(p)
  \/ AddTeam \/ BreadcrumbLink \/ FollowDeadNav \/ NavUser \/ OperateSidebar

\* What the user does without the server leaves the accounts alone.
LEMMA LocalStepLeavesAccounts == LocalStep => UNCHANGED accountVars
BY DEF LocalStep, Abort, FormRefused, TeamRefused, Invalid, Tick, CountedDown, Open, OpenTeams,
       LoadLayout, LoadPage, LoadFails, Entered, Unauthorized, SwitchTeam, Elsewhere, FollowNav,
       AddTeam, BreadcrumbLink, FollowDeadNav, NavUser, OperateSidebar, webVars

\* A step is local, a request sent or answered, or the server's.
LEMMA WebNextSplit ==
  WebNext =>
    \/ LocalStep
    \/ \E r \in Requests :
         \/ SubmitForm(r) \/ TakeAnswer(r)
         \/ ReturnFromProvider(r) \/ \E code \in 1..mailed : FollowLink(r, code)
         \/ ServerHandles(r) \/ ServerRefusesTeam(r) \/ \E t \in Teams : ServerCreatesTeam(r, t)
    \/ ServerChanges
BY Zenon DEF WebNext, LocalStep

\* Every step of the tab is a step of the accounts or leaves them alone.
LEMMA WebStepIsAccountsStep == [WebNext]_webVars => [AccountsNext]_accountVars
<1> SUFFICES ASSUME [WebNext]_webVars PROVE [AccountsNext]_accountVars
  OBVIOUS
<1>1. CASE UNCHANGED webVars
  BY <1>1 DEF webVars
<1>2. CASE LocalStep
  BY <1>2, LocalStepLeavesAccounts
<1>3. ASSUME NEW r \in Requests, SubmitForm(r) PROVE AccountsNext
  BY <1>3, SubmitBegins
<1>4. ASSUME NEW r \in Requests, TakeAnswer(r) PROVE AccountsNext
  BY <1>4, AnswerFinishes DEF AccountsNext
<1>5. ASSUME NEW r \in Requests, NEW code \in 1..mailed, FollowLink(r, code) PROVE AccountsNext
  BY <1>5 DEF FollowLink, Follow, AccountsNext
<1>8. ASSUME NEW r \in Requests, ReturnFromProvider(r) PROVE AccountsNext
  BY <1>8 DEF ReturnFromProvider, Follow, AccountsNext, Ops
<1>6. ASSUME NEW r \in Requests,
             ServerHandles(r) \/ ServerRefusesTeam(r) \/ (\E t \in Teams : ServerCreatesTeam(r, t))
      PROVE  AccountsNext
  BY <1>6, ServerSteps
<1>7. CASE ServerChanges
  BY <1>7 DEF ServerChanges, AccountsNext
<1> QED
  BY <1>1, <1>2, <1>3, <1>4, <1>5, <1>6, <1>7, <1>8, WebNextSplit, Zenon

(* Whatever the tab does, the server's account goes through the behaviours *)
(* of Accounts: what is proved there holds of the tab's server             *)
(* (website/lib/api/client.ts:84, api/router/auth.go:28).                  *)
THEOREM WebImplementsAccounts == WebSpec => AccountsSpec
<1>1. WebInit => AccountsInit
  BY DEF WebInit
<1> QED  BY <1>1, WebStepIsAccountsStep, PTL DEF WebSpec, AccountsSpec

(* The server never stores a code it did not mail, opens sessions only for *)
(* who was verified or came by the provider's account, and takes a         *)
(* verification back only when handlers overlap: whatever the tab sends    *)
(* and whenever it stops waiting (api/handler/auth, client.ts:113).        *)
THEOREM TabCannotUpsetAccounts ==
  WebSpec => /\ [](StoredCodeWasMailed /\ SessionIsEarned)
             /\ []OneAtATime => VerifiedForGood
BY WebImplementsAccounts, StoredCodeAlwaysMailed, SessionAlwaysEarned,
   VerifiedForGoodWithoutOverlap, PTL

--------------------------------------------------------------------------------
(* What a page tells rests on where the tab came from: it enters a team's  *)
(* page once the layout was answered, which takes a session; it leads to a *)
(* page under /teams only; it waits for answers to its own form; and a     *)
(* resend that has mailed has done so since it was asked for.              *)
HasMailed(q) == q.stage = "written" \/ q.answer = "mailed"

OwnForm(q) ==
  /\ q.op = "createTeam" => page = "new-team"
  /\ q.op = "register" => page = "signup"
  /\ q.op = "resend" /\ HasMailed(q) => mailed > mailsBefore

WebInv ==
  /\ AccountsInv
  /\ PagesTellTheTruth
  /\ mailsBefore \in 0..mailed
  /\ cookie # 0 => verifiedOnce \/ cookie \in vouched
  /\ page = "entering" /\ "layout" \notin pending => cookie # 0
  /\ target.page \in TeamPages
  /\ awaiting \subseteq Requests
  /\ \A r \in awaiting : OwnForm(requests[r])

\* What a handler leaves behind: a mail more, or a verification, or a session of the
\* provider's account.
LEMMA HandlerHistory ==
  ASSUME NEW r \in Requests, Handle(r)
  PROVE  /\ \/ UNCHANGED <<mailed, verifiedOnce>>
            \/ mailed' = mailed + 1 /\ UNCHANGED verifiedOnce
            \/ mailed' = mailed /\ verifiedOnce' = TRUE
         /\ vouched' = vouched \/ vouched' = vouched \cup {issued + 1}
<1> USE DEF mailVars, userVars, sessionVars, providerVars
<1>1. CASE \/ ReadUser(r) \/ FailRequest(r) \/ OAuthRefused(r)
           \/ RegisterTaken(r) \/ LoginRefused(r) \/ LoginUnverified(r) \/ LoginSucceeds(r)
           \/ ResendUnknown(r) \/ ResendVerified(r) \/ LinkExpired(r) \/ LinkUsedBefore(r)
           \/ RegisterCommits(r) \/ LoginCommits(r) \/ ResendCommits(r)
  BY <1>1 DEF ReadUser, FailRequest, OAuthRefused, RegisterTaken, LoginRefused, LoginUnverified,
              LoginSucceeds, ResendUnknown, ResendVerified, LinkExpired, LinkUsedBefore,
              RegisterCommits, LoginCommits, ResendCommits, CommitCode, Reply
<1>2. CASE RegisterMails(r) \/ LoginMails(r) \/ ResendMails(r)
  BY <1>2 DEF RegisterMails, LoginMails, ResendMails, SendCode
<1>3. CASE RegisterVerified(r) \/ LoginVerifies(r) \/ ResendVerifies(r) \/ VerifyEmail(r)
  BY <1>3 DEF RegisterVerified, LoginVerifies, ResendVerifies, VerifyEmail, SetVerified
<1>4. CASE OAuthLinks(r) \/ OAuthCreates(r) \/ OAuthLogsIn(r)
  BY <1>4 DEF OAuthLinks, OAuthCreates, OAuthLogsIn, OpenVouched
<1> QED  BY <1>1, <1>2, <1>3, <1>4 DEF Handle

(* What was true of mails, verification and sessions stays true.           *)
LEMMA TruthStays ==
  ASSUME AccountsInv, [AccountsNext]_accountVars
  PROVE  /\ verifiedOnce => verifiedOnce'
         /\ mailed \in Nat /\ mailed' \in Nat /\ mailed <= mailed'
         /\ vouched \subseteq vouched'
<1>0. mailed \in Nat
  BY AccountsAssumption DEF AccountsInv, AccountsTypeOK
<1>1. ASSUME NEW r \in Requests, Handle(r)
      PROVE  /\ verifiedOnce => verifiedOnce'
             /\ mailed' \in Nat /\ mailed <= mailed'
             /\ vouched \subseteq vouched'
  <2>1. verifiedOnce' = verifiedOnce \/ verifiedOnce' = TRUE
    BY <1>1, HandlerHistory
  <2>2. mailed' = mailed \/ mailed' = mailed + 1
    BY <1>1, HandlerHistory
  <2>3. verifiedOnce => verifiedOnce'
    BY <2>1, Zenon
  <2>4. vouched \subseteq vouched'
    BY <1>1, HandlerHistory
  <2> QED  BY <1>0, <2>2, <2>3, <2>4
<1>2. CASE ~\E r \in Requests : Handle(r)
  <2>1. UNCHANGED <<mailed, verifiedOnce, vouched>>
    BY <1>2 DEF AccountsNext, accountVars, mailVars, userVars, sessionVars, providerVars, Begin,
                Finish, EndSession, ExpireCode, Restart, AnswerTeam
  <2> QED  BY <1>0, <2>1
<1> QED  BY <1>0, <1>1, <1>2

\* A request keeps its operation from its start to its answer, and it has
\* mailed only what is mailed in its course.
LEMMA OpStays ==
  ASSUME AccountsInv, NEW s \in Requests,
         \/ \E r \in Requests : Handle(r) \/ (\E a \in {"200", "4xx", "401"}, t \in 0..MaxCodes : AnswerTeam(r, a, t))
         \/ Restart
         \/ UNCHANGED requests
  PROVE  /\ requests'[s].op = requests[s].op
         /\ HasMailed(requests'[s]) => HasMailed(requests[s]) \/ mailed' = mailed + 1
<1> DEFINE Goal == /\ requests'[s].op = requests[s].op
                   /\ HasMailed(requests'[s]) => HasMailed(requests[s]) \/ mailed' = mailed + 1
<1> USE DEF HasMailed
<1>0. requests \in [Requests -> Request] /\ requests[s] \in Request
  BY DEF AccountsInv, AccountsTypeOK
<1>1. ASSUME NEW r \in Requests, NEW a, NEW n, Answer(r, a, n),
             a = "mailed" => requests[r].stage = "written"
      PROVE  Goal
  BY <1>0, <1>1 DEF Answer, AtClient
<1>2. ASSUME NEW r \in Requests, ReadUser(r) PROVE Goal
  <2>1. PICK c, p : requests' = [requests EXCEPT ![r] =
          [@ EXCEPT !.stage = "read", !.saw = user, !.sawCode = c, !.sawProvider = p]]
    BY <1>2 DEF ReadUser
  <2> QED  BY <1>0, <2>1 DEF Request
<1>3. ASSUME NEW r \in Requests, SendCode(r) PROVE Goal
  BY <1>0, <1>3 DEF SendCode, Request
<1>4. ASSUME NEW r \in Requests, NEW a \in {"200", "4xx", "401"}, NEW t, AnswerTeam(r, a, t)
      PROVE  Goal
  BY <1>0, <1>4 DEF AnswerTeam, AtClient, At
<1>5. ASSUME Restart PROVE Goal
  BY <1>0, <1>5 DEF Restart, AtClient
<1>6. ASSUME NEW r \in Requests, Handle(r)
      PROVE  \/ ReadUser(r) \/ SendCode(r)
             \/ \E a, n : Answer(r, a, n) /\ (a = "mailed" => requests[r].stage = "written")
  BY <1>6 DEF Handle, FailRequest, RegisterTaken, RegisterMails, RegisterCommits, RegisterVerified,
       LoginRefused, LoginUnverified, LoginMails, LoginCommits, LoginSucceeds, LoginVerifies,
       OAuthRefused, OAuthLinks, OAuthCreates, OAuthLogsIn, OpenVouched,
       ResendUnknown, ResendVerified, ResendVerifies, ResendMails, ResendCommits, LinkExpired,
       LinkUsedBefore, VerifyEmail, Reply, CommitCode, OpenSession, At
<1>7. ASSUME UNCHANGED requests PROVE Goal
  BY <1>7
<1> HIDE DEF Goal
<1>8. Goal
  BY <1>1, <1>2, <1>3, <1>4, <1>5, <1>6, <1>7
<1> QED  BY <1>8 DEF Goal

(* The tab shows a page that tells what is so, and waits for nothing.      *)
LEMMA ShowKeeps ==
  ASSUME WebInv, AccountsInv', [AccountsNext]_accountVars,
         NEW p, NEW next, Show(p, next), next.page \in TeamPages,
         p \notin TeamPages \cup {"entering"}, UNCHANGED cookie,
         p = "email-sent" => mailed > 0,
         p = "success" => verifiedOnce
  PROVE  WebInv'
<1>1. (verifiedOnce => verifiedOnce') /\ mailed \in Nat /\ mailed' \in Nat /\ mailed <= mailed'
        /\ vouched \subseteq vouched'
  BY TruthStays DEF WebInv
<1> QED
  BY <1>1 DEF WebInv, PagesTellTheTruth, Show

(* The tab enters a page under /teams: with the layout to be answered, or  *)
(* with a session.                                                         *)
LEMMA EnterKeeps ==
  ASSUME WebInv, AccountsInv', [AccountsNext]_accountVars,
         NEW t, NEW asked, Enter(t, asked), t.page \in TeamPages,
         cookie' # 0 => verifiedOnce \/ cookie' \in vouched,
         "layout" \in asked \/ cookie' # 0
  PROVE  WebInv'
<1>1. (verifiedOnce => verifiedOnce') /\ mailed \in Nat /\ mailed' \in Nat /\ mailed <= mailed'
        /\ vouched \subseteq vouched'
  BY TruthStays DEF WebInv
<1>2. "entering" \notin TeamPages
  BY DEF TeamPages, SidebarPages
<1>3. "layout" \in pending' \/ cookie' # 0
  BY DEF Enter
<1> QED
  BY <1>1, <1>2, <1>3 DEF WebInv, PagesTellTheTruth, Enter

(* The page stays, with what it knows; it may wait for less.               *)
LEMMA StayKeeps ==
  ASSUME WebInv, AccountsInv', [AccountsNext]_accountVars,
         UNCHANGED <<page, target>>,
         cookie' # cookie => cookie' # 0 /\ (verifiedOnce \/ cookie' \in vouched),
         page = "entering" /\ "layout" \notin pending' => cookie # 0,
         mailsBefore' \in 0..mailed,
         notice' = "resent" => mailed > mailsBefore' \/ verifiedOnce,
         awaiting' \subseteq Requests,
         \A r \in awaiting' : OwnForm(requests[r])'
  PROVE  WebInv'
<1>1. (verifiedOnce => verifiedOnce') /\ mailed \in Nat /\ mailed' \in Nat /\ mailed <= mailed'
        /\ vouched \subseteq vouched'
  BY TruthStays DEF WebInv
<1>2. mailsBefore' \in 0..mailed' /\ (notice' = "resent" => mailed' > mailsBefore' \/ verifiedOnce')
  BY <1>1
<1>3. cookie' # 0 => verifiedOnce' \/ cookie' \in vouched'
  BY <1>1 DEF WebInv
<1>4. page = "email-sent" => mailed' > 0
  BY <1>1 DEF WebInv, PagesTellTheTruth
<1>5. page' \in TeamPages => cookie' # 0
  BY DEF WebInv, PagesTellTheTruth
<1> QED
  BY <1>1, <1>2, <1>3, <1>4, <1>5 DEF WebInv, PagesTellTheTruth

\* What an entering tab goes to is a page under /teams.
LEMMA HomeIsTeamPage == Home.page \in TeamPages /\ \A t \in Targets : t.page \in TeamPages
BY DEF Home, NewTeam, Targets, TeamPages, SidebarPages

\* A form that is submitted stays on its page and waits.
LEMMA SubmitKeeps ==
  ASSUME WebInv, AccountsInv', [AccountsNext]_accountVars, NEW r \in Requests, SubmitForm(r)
  PROVE  WebInv'
<1>1. PICK op \in Ops, p \in {"signup", "login", "email-sent", "new-team"} :
           /\ Submit(r, p, op)
           /\ op = "createTeam" => p = "new-team"
           /\ op = "register" => p = "signup"
  BY DEF SubmitForm, SignUp, LogIn, CreateTeam, Resend, Ops
<1>2. /\ page = p /\ UNCHANGED <<page, target, pending, cookie>> /\ awaiting' = {r}
      /\ Begin(r, op, 0) /\ notice' = "none" /\ mailsBefore' \in {0, mailed}
  BY <1>1 DEF Submit, Stay
<1>3. requests'[r].op = op /\ requests'[r].stage = "sent" /\ requests'[r].answer = "none"
  BY <1>2 DEF Begin, AtClient, WebInv, AccountsInv, AccountsTypeOK
<1>4. OwnForm(requests[r])'
  BY <1>1, <1>2, <1>3 DEF OwnForm, HasMailed
<1>5. \A s \in awaiting' : OwnForm(requests[s])'
  BY <1>2, <1>4 DEF OwnForm, HasMailed
<1>6. mailsBefore' \in 0..mailed
  BY <1>2, AccountsAssumption DEF WebInv, AccountsInv, AccountsTypeOK
<1> QED
  BY <1>1, <1>2, <1>5, <1>6, StayKeeps DEF WebInv

\* What an answer says is so: a mail sent, an address verified, a session.
LEMMA AnswerIsTrue ==
  ASSUME WebInv, NEW r \in Requests
  PROVE  /\ requests[r].answer \in {"403", "mailed"} => mailed > 0
         /\ requests[r].answer = "success" => verifiedOnce
         /\ requests[r].op = "resend" /\ requests[r].answer = "200" => verifiedOnce
         /\ requests[r].answer \in {"registered", "307"} \/ (requests[r].op = "login" /\ requests[r].answer = "200")
              => /\ requests[r].session # 0
                 /\ verifiedOnce \/ requests[r].session \in vouched
BY DEF WebInv, AccountsInv, Honest, Modest

\* Ending a request changes no other.
LEMMA FinishKeepsOthers ==
  ASSUME WebInv, NEW r \in Requests, Finish(r), NEW s \in Requests, OwnForm(requests[s]),
         UNCHANGED <<page, mailsBefore>>
  PROVE  OwnForm(requests[s])'
<1>1. Idle.op = "login"
  BY DEF Idle, AtClient
<1>2. requests'[s] = Idle \/ requests'[s] = requests[s]
  BY DEF Finish, WebInv, AccountsInv, AccountsTypeOK
<1>3. mailed' = mailed
  BY DEF Finish, mailVars
<1> QED  BY <1>1, <1>2, <1>3 DEF OwnForm, HasMailed

\* The tab believes an answer, which was true.
LEMMA TakeAnswerKeeps ==
  ASSUME WebInv, AccountsInv', [AccountsNext]_accountVars, NEW r \in Requests, TakeAnswer(r)
  PROVE  WebInv'
<1>0. Finish(r)
  BY AnswerFinishes
<1>1. CASE LoggedIn(r) \/ \E next \in Targets : LoggedInByProvider(r, next)
  <2>1. /\ (requests[r].op = "login" /\ requests[r].answer = "200") \/ requests[r].answer = "307"
        /\ cookie' = requests[r].session
    BY <1>1 DEF LoggedIn, LoggedInByProvider, Arrives
  <2>2. cookie' # 0 /\ (verifiedOnce \/ cookie' \in vouched)
    BY <2>1, AnswerIsTrue
  <2>3. PICK next : Enter(next, {"layout"}) /\ next.page \in TeamPages
    BY <1>1, HomeIsTeamPage DEF LoggedIn, LoggedInByProvider, Visit, WebInv
  <2> QED  BY <2>2, <2>3, EnterKeeps
<1>2. CASE SentToInbox(r)
  <2>1. mailed > 0 /\ Show("email-sent", Home) /\ UNCHANGED cookie
    BY <1>2, AnswerIsTrue DEF SentToInbox, Arrives
  <2>2. "email-sent" \notin TeamPages \cup {"entering"}
    BY DEF TeamPages, SidebarPages
  <2> QED  BY <2>1, <2>2, HomeIsTeamPage, ShowKeeps
<1>3. CASE SignedUp(r)
  <2>0. requests[r].answer = "registered" /\ cookie' = requests[r].session
    BY <1>3 DEF SignedUp, Arrives
  <2>1. cookie' # 0 /\ (verifiedOnce \/ cookie' \in vouched)
    BY <2>0, AnswerIsTrue
  <2>2. UNCHANGED <<page, target, pending, notice, mailsBefore>> /\ awaiting' = {}
    BY <1>3 DEF SignedUp
  <2> QED  BY <2>1, <2>2, StayKeeps DEF WebInv, PagesTellTheTruth
<1>4. CASE ShowsRefusal(r)
  <2>1. UNCHANGED <<page, target, pending, mailsBefore, cookie>> /\ awaiting' = {} /\ notice' = "error"
    BY <1>4 DEF ShowsRefusal, Complain, Stay
  <2> QED  BY <2>1, StayKeeps DEF WebInv
<1>8. CASE Resent(r)
  <2>1. UNCHANGED <<page, target, pending, mailsBefore, cookie>> /\ awaiting' = {}
    BY <1>8 DEF Resent, Stay
  <2>2. requests[r].op = "resend" /\ requests[r].answer \in {"200", "mailed"} /\ r \in awaiting
    BY <1>8 DEF Resent, Arrives
  <2>3. mailed > mailsBefore \/ verifiedOnce
    BY <2>2, AnswerIsTrue DEF WebInv, OwnForm, HasMailed
  <2> QED  BY <2>1, <2>3, StayKeeps DEF WebInv
<1>5. CASE TeamCreated(r)
  <2>1. page = "new-team"
    BY <1>5 DEF TeamCreated, Arrives, WebInv, OwnForm
  <2>2. cookie # 0 /\ UNCHANGED cookie
    BY <1>5, <2>1 DEF TeamCreated, WebInv, PagesTellTheTruth, TeamPages
  <2>3. Enter([page |-> "monitors", team |-> requests[r].code], {})
    BY <1>5 DEF TeamCreated, Move
  <2>4. [page |-> "monitors", team |-> requests[r].code].page \in TeamPages
    BY DEF TeamPages, SidebarPages
  <2> QED  BY <2>2, <2>3, <2>4, EnterKeeps DEF WebInv
<1>6. CASE Lands(r)
  <2> DEFINE p == Landing(requests[r].answer)
  <2>1. p \in {"success", "expired", "error"} /\ (p = "success" => verifiedOnce)
    BY AnswerIsTrue DEF Landing, Landings
  <2>2. Show(p, Home) /\ UNCHANGED cookie
    BY <1>6 DEF Lands
  <2>3. p \notin TeamPages \cup {"entering"} /\ p # "email-sent"
    BY <2>1 DEF TeamPages, SidebarPages
  <2> HIDE DEF p
  <2> QED  BY <2>1, <2>2, <2>3, HomeIsTeamPage, ShowKeeps
<1>7. CASE Dropped(r)
  <2>1. UNCHANGED <<page, target, pending, notice, mailsBefore, cookie, awaiting>>
    BY <1>7 DEF Dropped, tabVars
  <2>2. \A s \in awaiting : OwnForm(requests[s])'
    BY <1>0, <2>1, FinishKeepsOthers DEF WebInv
  <2>3. \A s \in awaiting' : OwnForm(requests[s])'
    BY <2>1, <2>2 DEF OwnForm, HasMailed
  <2> QED  BY <2>1, <2>3, StayKeeps DEF WebInv, PagesTellTheTruth
<1> QED
  BY <1>1, <1>2, <1>3, <1>4, <1>5, <1>6, <1>7, <1>8 DEF TakeAnswer

\* While a link is followed, or the way back from the provider, the tab tells nothing.
LEMMA FollowKeeps ==
  ASSUME WebInv, AccountsInv', [AccountsNext]_accountVars, NEW r \in Requests,
         NEW op \in {"verify", "oauth"}, NEW code, Follow(r, op, code)
  PROVE  WebInv'
<1>1. (verifiedOnce => verifiedOnce') /\ mailed' \in Nat /\ vouched \subseteq vouched'
  BY TruthStays DEF WebInv
<1>2. requests'[r].op = op /\ awaiting' = {r}
  BY DEF Follow, Begin, AtClient, WebInv, AccountsInv, AccountsTypeOK
<1>3. page' = "following" /\ target' = Home /\ notice' = "none" /\ mailsBefore' = 0
        /\ UNCHANGED cookie
  BY DEF Follow
<1>4. "following" \notin TeamPages
  BY DEF TeamPages, SidebarPages
<1>5. OwnForm(requests[r])'
  BY <1>2 DEF OwnForm
<1>6. \A s \in awaiting' : OwnForm(requests[s])'
  BY <1>2, <1>5 DEF OwnForm, HasMailed
<1> QED
  BY <1>1, <1>2, <1>3, <1>4, <1>6, HomeIsTeamPage DEF WebInv, PagesTellTheTruth

(* The server works, and the tab only waits.                               *)
LEMMA ServerKeeps ==
  ASSUME WebInv, AccountsInv', [AccountsNext]_accountVars,
         \/ ServerChanges
         \/ \E r \in Requests :
              ServerHandles(r) \/ ServerRefusesTeam(r) \/ \E t \in Teams : ServerCreatesTeam(r, t)
  PROVE  WebInv'
<1>1. UNCHANGED <<page, target, pending, notice, mailsBefore, cookie, awaiting>>
  BY DEF ServerChanges, ServerHandles, ServerRefusesTeam, ServerCreatesTeam, tabVars
<1>2. \A t \in Teams : t \in 0..MaxCodes
  BY AccountsAssumption, WebAssumption DEF Teams
<1>3. 0 \in 0..MaxCodes
  BY AccountsAssumption
<1>4. \/ \E r \in Requests : Handle(r) \/ (\E a \in {"200", "4xx", "401"}, t \in 0..MaxCodes : AnswerTeam(r, a, t))
      \/ Restart
      \/ UNCHANGED requests
  BY <1>2, <1>3 DEF ServerChanges, ServerHandles, ServerRefusesTeam, ServerCreatesTeam, EndSession, ExpireCode
<1>5. ASSUME NEW s \in awaiting PROVE OwnForm(requests[s])'
  <2>1. OwnForm(requests[s]) /\ s \in Requests
    BY DEF WebInv
  <2>2. /\ requests'[s].op = requests[s].op
        /\ HasMailed(requests'[s]) => HasMailed(requests[s]) \/ mailed' = mailed + 1
    BY <1>4, <2>1, OpStays DEF WebInv
  <2>3. mailed \in Nat /\ mailed' \in Nat /\ mailed <= mailed' /\ mailsBefore \in 0..mailed
    BY TruthStays DEF WebInv
  <2> QED  BY <1>1, <2>1, <2>2, <2>3 DEF OwnForm, HasMailed
<1>6. \A s \in awaiting' : OwnForm(requests[s])'
  BY <1>1, <1>5 DEF OwnForm, HasMailed
<1> QED  BY <1>1, <1>6, StayKeeps DEF WebInv, PagesTellTheTruth

(* What the user and the browser do without the server.                    *)
LEMMA LocalKeeps ==
  ASSUME WebInv, AccountsInv', [AccountsNext]_accountVars, LocalStep
  PROVE  WebInv'
<1> USE DEF TeamPages, SidebarPages
<1>0. UNCHANGED <<requests, mailed>>
  BY LocalStepLeavesAccounts DEF accountVars
<1>1. CASE (\E r \in Requests : Abort(r)) \/ FormRefused \/ TeamRefused \/ NavUser \/ Tick
             \/ OperateSidebar \/ \E t \in Teams : Elsewhere(t)
  <2>1. /\ UNCHANGED <<page, target, pending, mailsBefore, cookie>>
        /\ awaiting' = {} \/ UNCHANGED awaiting
        /\ notice' = "error" \/ UNCHANGED notice
    BY <1>1 DEF Abort, Complain, Stay, FormRefused, TeamRefused, Invalid, NavUser, webVars, Tick,
                OperateSidebar, Elsewhere, tabVars
  <2>2. \A r \in awaiting' : OwnForm(requests[r])'
    BY <1>0, <2>1 DEF WebInv, OwnForm, HasMailed
  <2> QED  BY <2>1, <2>2, StayKeeps DEF WebInv, PagesTellTheTruth
<1>2. CASE CountedDown \/ LoadFails \/ FollowDeadNav \/ (\E p \in {"login", "signup"} : Open(p))
  <2>1. \E p \in {"login", "signup", "error"} : Show(p, Home) /\ UNCHANGED cookie
    BY <1>2 DEF CountedDown, LoadFails, FollowDeadNav, Open
  <2> QED  BY <2>1, HomeIsTeamPage, ShowKeeps
<1>3. CASE Unauthorized("layout", Home) \/ Unauthorized("page", target)
  <2>1. \E next \in {Home, target} : Show("login", next) /\ UNCHANGED cookie
    BY <1>3 DEF Unauthorized
  <2> QED  BY <2>1, HomeIsTeamPage, ShowKeeps DEF WebInv
<1>4. CASE BreadcrumbLink \/ \E t \in Targets : OpenTeams(t)
  <2>1. \E t \in Targets : Enter(t, {"layout"}) /\ UNCHANGED cookie
    BY <1>4 DEF BreadcrumbLink, OpenTeams, Visit, Targets
  <2> QED  BY <2>1, HomeIsTeamPage, EnterKeeps DEF WebInv
<1>5. CASE AddTeam \/ (\E t \in Teams : SwitchTeam(t)) \/ (\E p \in SidebarPages : FollowNav(p))
  <2>1. PICK t : t.page \in TeamPages /\ Enter(t, {}) /\ UNCHANGED cookie /\ page \in TeamPages
    <3>1. CASE AddTeam
      BY <3>1 DEF AddTeam, Move, NewTeam
    <3>2. ASSUME NEW u \in Teams, SwitchTeam(u)
          PROVE  \E t : t.page \in TeamPages /\ Enter(t, {}) /\ UNCHANGED cookie /\ page \in TeamPages
      <4>1. [page |-> "monitors", team |-> u].page \in TeamPages
        OBVIOUS
      <4>2. Enter([page |-> "monitors", team |-> u], {}) /\ UNCHANGED cookie /\ page \in TeamPages
        BY <3>2 DEF SwitchTeam, Move
      <4> QED  BY <4>1, <4>2
    <3>3. ASSUME NEW p \in SidebarPages, FollowNav(p)
          PROVE  \E t : t.page \in TeamPages /\ Enter(t, {}) /\ UNCHANGED cookie /\ page \in TeamPages
      <4>1. [page |-> p, team |-> team].page \in TeamPages
        OBVIOUS
      <4>2. Enter([page |-> p, team |-> team], {}) /\ UNCHANGED cookie /\ page \in TeamPages
        BY <3>3 DEF FollowNav, Move
      <4> QED  BY <4>1, <4>2
    <3> QED  BY <1>5, <3>1, <3>2, <3>3
  <2>2. cookie' # 0 /\ (verifiedOnce \/ cookie' \in vouched)
    BY <2>1 DEF WebInv, PagesTellTheTruth
  <2> QED  BY <2>1, <2>2, EnterKeeps
<1>6. CASE LoadLayout \/ LoadPage
  <2>1. cookie # 0
    BY <1>6, AccountsAssumption DEF LoadLayout, LoadPage, buildCookieHeader, Authorized, WebInv,
                AccountsInv, AccountsTypeOK
  <2>2. UNCHANGED <<page, target, notice, mailsBefore, cookie, awaiting>>
    BY <1>6 DEF LoadLayout, LoadPage
  <2>3. \A r \in awaiting' : OwnForm(requests[r])'
    BY <1>0, <2>2 DEF WebInv, OwnForm, HasMailed
  <2> QED  BY <2>1, <2>2, <2>3, StayKeeps DEF WebInv, PagesTellTheTruth
<1>7. CASE Entered
  <2>1. cookie # 0 /\ (verifiedOnce \/ cookie \in vouched)
    BY <1>7 DEF Entered, WebInv
  <2>2. page' = target.page /\ target' = Home
          /\ UNCHANGED <<notice, mailsBefore, cookie, awaiting>> /\ page = "entering"
    BY <1>7 DEF Entered
  <2>3. UNCHANGED <<verifiedOnce, vouched>>
    BY LocalStepLeavesAccounts DEF accountVars
  <2>4. page' \in TeamPages
    BY <2>2 DEF WebInv
  <2>5. ASSUME NEW r \in awaiting PROVE requests[r].op \notin {"createTeam", "register"}
    BY <2>2 DEF WebInv, OwnForm
  <2>6. \A r \in awaiting' : OwnForm(requests[r])'
    BY <1>0, <2>2, <2>5 DEF WebInv, OwnForm, HasMailed
  <2> QED
    BY <1>0, <2>1, <2>2, <2>3, <2>4, <2>6, HomeIsTeamPage DEF WebInv, PagesTellTheTruth
<1> QED
  BY <1>1, <1>2, <1>3, <1>4, <1>5, <1>6, <1>7 DEF LocalStep

\* A tab that was just opened tells nothing.
LEMMA WebInvInitially == WebInit => WebInv
BY AccountsInvInitially, HomeIsTeamPage
   DEF WebInit, AccountsInit, WebInv, PagesTellTheTruth, TeamPages, SidebarPages

\* Every step of the tab keeps the invariant.
LEMMA WebInvKept == WebInv /\ [WebNext]_webVars => WebInv'
<1> SUFFICES ASSUME WebInv, [WebNext]_webVars PROVE WebInv'
  OBVIOUS
<1>0. [AccountsNext]_accountVars /\ AccountsInv'
  BY WebStepIsAccountsStep, AccountsInvKept DEF WebInv
<1>1. CASE UNCHANGED webVars
  BY <1>0, <1>1 DEF webVars, accountVars, tabVars, WebInv, PagesTellTheTruth, OwnForm, HasMailed
<1>2. CASE LocalStep
  BY <1>0, <1>2, LocalKeeps
<1>3. ASSUME NEW r \in Requests,
             \/ SubmitForm(r) \/ TakeAnswer(r) \/ ReturnFromProvider(r)
             \/ \E code \in 1..mailed : FollowLink(r, code)
      PROVE  WebInv'
  BY <1>0, <1>3, SubmitKeeps, TakeAnswerKeeps, FollowKeeps DEF FollowLink, ReturnFromProvider
<1>4. CASE ServerChanges
  BY <1>0, <1>4, ServerKeeps
<1>5. ASSUME NEW r \in Requests,
             ServerHandles(r) \/ ServerRefusesTeam(r) \/ (\E t \in Teams : ServerCreatesTeam(r, t))
      PROVE  WebInv'
  BY <1>0, <1>5, ServerKeeps
<1> QED
  BY <1>1, <1>2, <1>3, <1>4, <1>5, WebNextSplit, Zenon

(* What a page tells was true: that a link was mailed, or mailed anew if   *)
(* the address was not verified already; that the address was verified;    *)
(* and that whoever sees a page under /teams was given a session, verified *)
(* or led there by the provider (login-form.tsx:85, email-sent/page.tsx:54,*)
(* verify/[result]/page.tsx:33, oauth_callback.go:216).                    *)
THEOREM PagesAlwaysTellTheTruth == WebSpec => []PagesTellTheTruth
<1>1. WebInv => PagesTellTheTruth
  BY DEF WebInv
<1> QED  BY <1>1, WebInvInitially, WebInvKept, PTL DEF WebSpec

--------------------------------------------------------------------------------
(* What an answer hands to the tab: a session the server has created, and  *)
(* the team that was created.                                              *)
Fits(q, created) ==
  /\ q.session \in 0..created
  /\ q.op = "createTeam" /\ q.answer = "200" => q.code \in Teams

AnswersFit == \A r \in Requests : Fits(requests[r], issued)

(* A request is put in the place of another, and maybe a session created.  *)
LEMMA OneRequestFits ==
  ASSUME AccountsInv, AnswersFit, NEW r \in Requests, NEW q,
         requests' = [requests EXCEPT ![r] = q],
         Fits(q, issued'), issued' \in {issued, issued + 1}
  PROVE  AnswersFit'
<1>0. issued \in Nat /\ requests \in [Requests -> Request]
  BY AccountsAssumption DEF AccountsInv, AccountsTypeOK
<1>1. ASSUME NEW s \in Requests PROVE Fits(requests'[s], issued')
  <2>1. requests'[s] = IF s = r THEN q ELSE requests[s]
    BY <1>0
  <2>2. Fits(requests[s], issued) => Fits(requests[s], issued')
    BY <1>0 DEF Fits
  <2> QED  BY <2>1, <2>2 DEF AnswersFit
<1> QED  BY <1>1 DEF AnswersFit, Fits

\* An answer that is not the creation of a team.
LEMMA AnswerFits ==
  ASSUME AccountsInv, AnswersFit, NEW r \in Requests, NEW answer, NEW session,
         Answer(r, answer, session), session \in 0..issued', issued' \in {issued, issued + 1},
         requests[r].op = "createTeam" => answer # "200"
  PROVE  AnswersFit'
<1> DEFINE q == AtClient(requests[r].op, "answered", 0, answer, session)
<1>1. q.session = session /\ q.op = requests[r].op /\ q.answer = answer
  BY DEF AtClient
<1>2. requests' = [requests EXCEPT ![r] = q]
  BY DEF Answer
<1> HIDE DEF q
<1>3. Fits(q, issued')
  BY <1>1 DEF Fits
<1> QED  BY <1>2, <1>3, OneRequestFits, Zenon

(* What the handlers of the account answer.                                *)
LEMMA HandleFits ==
  ASSUME AccountsInv, AnswersFit, NEW r \in Requests, Handle(r)
  PROVE  AnswersFit'
<1>0. requests \in [Requests -> Request] /\ requests[r] \in Request /\ issued \in Nat
  BY AccountsAssumption DEF AccountsInv, AccountsTypeOK
<1>1. CASE ReadUser(r)
  <2>0. PICK c, p : requests' = [requests EXCEPT ![r] =
          [@ EXCEPT !.stage = "read", !.saw = user, !.sawCode = c, !.sawProvider = p]]
    BY <1>1 DEF ReadUser
  <2> DEFINE q == [requests[r] EXCEPT !.stage = "read", !.saw = user, !.sawCode = c,
                                      !.sawProvider = p]
  <2>1. q.session = requests[r].session /\ q.op = requests[r].op /\ q.op # "createTeam"
    BY <1>0, <1>1 DEF ReadUser, Request
  <2>2. requests' = [requests EXCEPT ![r] = q] /\ issued' = issued
    BY <1>1, <2>0 DEF ReadUser, sessionVars
  <2> HIDE DEF q
  <2>3. Fits(q, issued')
    BY <2>1, <2>2 DEF AnswersFit, Fits
  <2> QED  BY <2>2, <2>3, OneRequestFits, Zenon
<1>2. CASE RegisterMails(r) \/ LoginMails(r) \/ ResendMails(r)
  <2> DEFINE q == [requests[r] EXCEPT !.stage = "written", !.code = mailed + 1]
  <2>1. SendCode(r) /\ requests[r].op # "createTeam"
    BY <1>2 DEF RegisterMails, LoginMails, ResendMails, At
  <2>2. q.session = requests[r].session /\ q.op = requests[r].op
    BY <1>0 DEF Request
  <2>3. requests' = [requests EXCEPT ![r] = q] /\ issued' = issued
    BY <2>1 DEF SendCode, sessionVars
  <2> HIDE DEF q
  <2>4. Fits(q, issued')
    BY <2>1, <2>2, <2>3 DEF AnswersFit, Fits
  <2> QED  BY <2>3, <2>4, OneRequestFits, Zenon
<1>3. CASE \/ RegisterVerified(r) \/ LoginSucceeds(r) \/ LoginVerifies(r)
           \/ OAuthLinks(r) \/ OAuthCreates(r) \/ OAuthLogsIn(r)
  <2>1. \E answer : OpenSession(r, answer) /\ requests[r].op # "createTeam"
    BY <1>3 DEF RegisterVerified, LoginSucceeds, LoginVerifies, OAuthLinks, OAuthCreates,
                OAuthLogsIn, OpenVouched, At
  <2>2. PICK answer : Answer(r, answer, issued + 1) /\ issued' = issued + 1
                        /\ requests[r].op # "createTeam"
    BY <2>1 DEF OpenSession
  <2>3. issued + 1 \in 0..issued'
    BY <1>0, <2>2
  <2> QED  BY <2>2, <2>3, AnswerFits
<1>4. CASE \/ FailRequest(r) \/ OAuthRefused(r)
           \/ RegisterTaken(r) \/ LoginRefused(r) \/ LoginUnverified(r) \/ ResendUnknown(r)
           \/ ResendVerified(r) \/ LinkUsedBefore(r) \/ LinkExpired(r)
           \/ RegisterCommits(r) \/ LoginCommits(r) \/ ResendCommits(r)
           \/ ResendVerifies(r) \/ VerifyEmail(r)
  <2>1. PICK answer : Answer(r, answer, 0) /\ issued' = issued
                        /\ (requests[r].op = "createTeam" => answer # "200")
    BY <1>4 DEF FailRequest, OAuthRefused, RegisterTaken, LoginRefused, LoginUnverified, ResendUnknown, ResendVerified,
                LinkUsedBefore, LinkExpired, RegisterCommits, LoginCommits, ResendCommits,
                ResendVerifies, VerifyEmail, Reply, CommitCode, At, sessionVars
  <2>2. 0 \in 0..issued'
    BY <1>0, <2>1
  <2> QED  BY <2>1, <2>2, AnswerFits
<1> QED
  BY <1>1, <1>2, <1>3, <1>4 DEF Handle

(* The tab's requests, and what all of the server answers.                 *)
LEMMA AnswersFitKept ==
  ASSUME AccountsInv, AnswersFit, [WebNext]_webVars
  PROVE  AnswersFit'
<1>0. requests \in [Requests -> Request] /\ issued \in Nat
  BY AccountsAssumption DEF AccountsInv, AccountsTypeOK
<1>1. CASE UNCHANGED accountVars
  BY <1>1 DEF accountVars, AnswersFit
<1>2. ASSUME NEW r \in Requests, NEW op, NEW code, Begin(r, op, code) PROVE AnswersFit'
  <2> DEFINE q == AtClient(op, "sent", code, "none", 0)
  <2>1. q.session = 0 /\ q.answer = "none"
    BY DEF AtClient
  <2>2. requests' = [requests EXCEPT ![r] = q] /\ issued' = issued
    BY <1>2 DEF Begin, sessionVars
  <2> HIDE DEF q
  <2>3. Fits(q, issued')
    BY <1>0, <2>1, <2>2 DEF Fits
  <2> QED  BY <2>2, <2>3, OneRequestFits, Zenon
<1>3. ASSUME NEW r \in Requests, Finish(r) PROVE AnswersFit'
  <2>1. requests' = [requests EXCEPT ![r] = Idle] /\ issued' = issued
    BY <1>3 DEF Finish, sessionVars
  <2>2. Fits(Idle, issued')
    BY <1>0, <2>1 DEF Fits, Idle, AtClient
  <2> QED  BY <2>1, <2>2, OneRequestFits, Zenon
<1>4. ASSUME NEW r \in Requests, NEW answer, NEW t, AnswerTeam(r, answer, t),
             answer = "200" => t \in Teams
      PROVE  AnswersFit'
  <2> DEFINE q == AtClient("createTeam", "answered", t, answer, 0)
  <2>1. q.session = 0 /\ q.answer = answer /\ q.code = t
    BY DEF AtClient
  <2>2. requests' = [requests EXCEPT ![r] = q] /\ issued' = issued
    BY <1>4 DEF AnswerTeam, sessionVars
  <2> HIDE DEF q
  <2>3. Fits(q, issued')
    BY <1>0, <1>4, <2>1, <2>2 DEF Fits
  <2> QED  BY <2>2, <2>3, OneRequestFits, Zenon
<1>5. ASSUME NEW r \in Requests,
             \/ SubmitForm(r) \/ ReturnFromProvider(r)
             \/ \E code \in 1..mailed : FollowLink(r, code)
      PROVE  \E op, code : Begin(r, op, code)
  BY <1>5 DEF SubmitForm, SignUp, LogIn, CreateTeam, Resend, Submit, FollowLink,
              ReturnFromProvider, Follow
<1>6. ASSUME NEW r \in Requests, ServerRefusesTeam(r) \/ (\E t \in Teams : ServerCreatesTeam(r, t))
      PROVE  \E answer, t : AnswerTeam(r, answer, t) /\ (answer = "200" => t \in Teams)
  <2>1. ASSUME NEW t \in Teams, ServerCreatesTeam(r, t)
        PROVE  AnswerTeam(r, "200", t)
    BY <2>1 DEF ServerCreatesTeam
  <2>2. CASE ServerRefusesTeam(r)
    <3>1. \E answer \in {"401", "4xx"} : AnswerTeam(r, answer, 0)
      BY <2>2 DEF ServerRefusesTeam
    <3>2. \A answer \in {"401", "4xx"} : answer # "200"
      OBVIOUS
    <3> QED  BY <3>1, <3>2
  <2> QED  BY <1>6, <2>1, <2>2
<1>7. CASE ServerChanges
  <2>1. UNCHANGED <<issued, requests>> \/ Restart
    BY <1>7 DEF ServerChanges, EndSession, ExpireCode, sessionVars
  <2>2. CASE Restart
    <3>1. ASSUME NEW s \in Requests PROVE Fits(requests'[s], issued')
      <4>1. issued' = issued
        BY <2>2 DEF Restart, sessionVars
      <4>2. \/ requests'[s] = requests[s]
            \/ requests'[s] = AtClient(requests[s].op, "answered", 0, "5xx", 0)
        BY <2>2 DEF Restart
      <4>3. Fits(AtClient(requests[s].op, "answered", 0, "5xx", 0), issued)
        BY <1>0 DEF Fits, AtClient
      <4> QED  BY <4>1, <4>2, <4>3 DEF AnswersFit
    <3> QED  BY <3>1 DEF AnswersFit, Fits
  <2> QED  BY <2>1, <2>2 DEF AnswersFit
<1>8. CASE WebNext
  BY <1>1, <1>2, <1>3, <1>4, <1>5, <1>6, <1>7, <1>8, WebNextSplit, LocalStepLeavesAccounts,
     AnswerFinishes, HandleFits, Zenon DEF ServerHandles
<1> QED
  BY <1>1, <1>8 DEF webVars

--------------------------------------------------------------------------------
(* What a step is to the tab.  A page outside /teams appears:              *)
Outside == {"login", "signup", "email-sent", "following", "error"} \cup Landings

AwaitsAtMostOne == awaiting' \in {{}, awaiting} \/ \E r \in Requests : awaiting' = {r}

Shows ==
  /\ page' \in Outside
  /\ team' = 0
  /\ target' \in Targets
  /\ page' # "login" => target' = Home
  /\ pending' = {}
  /\ AwaitsAtMostOne
  /\ notice' = "none"
  /\ seconds' \in {0, RedirectSeconds}
  /\ context' = {}
  /\ LeaveLayout
  /\ UNCHANGED <<memberVars, cookie>>

\* The tab enters a page under /teams, from outside or from another one.
Visits ==
  (\E t \in Targets : Visit(t)) /\ cookie' \in 0..issued' /\ memberOf' \subseteq Teams

Moves == page \in TeamPages /\ (\E t \in Targets : Move(t)) /\ UNCHANGED cookie

\* It stays where it is, and waits or has an answer.
Waits ==
  /\ Stay
  /\ AwaitsAtMostOne
  /\ notice' \in {"none", "error", "resent"}
  /\ seconds' \in 0..(CooldownSeconds + RedirectSeconds)
  /\ cookie' \in 0..issued'
  /\ UNCHANGED memberVars

\* It has the cookie of a new account.
Joined ==
  /\ page = "signup"
  /\ Stay
  /\ awaiting' = {}
  /\ UNCHANGED <<notice, seconds, changed>>
  /\ cookie' \in 0..issued'
  /\ memberOf' \subseteq Teams

\* The user's teams change.
Joins == (\E teams \in SUBSET Teams : ChangeMembership(teams)) /\ UNCHANGED <<tabVars, cookie>>

TabStep ==
  Shows \/ Visits \/ Moves \/ Waits \/ Joined \/ Joins \/ OperateSidebar \/ LoadLayout \/ LoadPage \/ Entered

\* Sessions are never forgotten to have been created.
LEMMA IssuedGrows ==
  ASSUME AccountsInv, [AccountsNext]_accountVars, NEW s \in 0..issued
  PROVE  s \in 0..issued'
<1>0. issued \in Nat
  BY AccountsAssumption DEF AccountsInv, AccountsTypeOK
<1>1. issued' = issued \/ issued' = issued + 1
  BY DEF AccountsNext, accountVars, mailVars, userVars, sessionVars, Begin, Finish, Handle, ReadUser,
         FailRequest, RegisterTaken, RegisterMails, RegisterCommits, RegisterVerified, LoginRefused,
         LoginUnverified, LoginMails, LoginCommits, LoginSucceeds, LoginVerifies,
         OAuthRefused, OAuthLinks, OAuthCreates, OAuthLogsIn, OpenVouched, ResendUnknown,
         ResendVerified, ResendVerifies, ResendMails, ResendCommits, LinkExpired, LinkUsedBefore,
         VerifyEmail, Reply, SendCode, CommitCode, OpenSession, SetVerified, EndSession, ExpireCode,
         Restart, AnswerTeam
<1> QED  BY <1>0, <1>1

\* What Show does, at any of the places it is called from.
LEMMA ShowShows ==
  ASSUME NEW p \in Outside, NEW next \in Targets, Show(p, next), p # "login" => next = Home,
         UNCHANGED <<memberVars, cookie>>
  PROVE  Shows
BY WebAssumption DEF Show, Shows, AwaitsAtMostOne

\* The targets links lead to.
LEMMA TargetsThereAre ==
  /\ Home \in Targets
  /\ NewTeam \in Targets
  /\ \A p \in SidebarPages, t \in Teams : [page |-> p, team |-> t] \in Targets
BY DEF Targets

\* An answer is taken.
LEMMA TakeAnswerIsTabStep ==
  ASSUME WebInv, WebTypeOK, AnswersFit, [AccountsNext]_accountVars,
         NEW r \in Requests, TakeAnswer(r)
  PROVE  TabStep
<1>0. 0 \in 0..(CooldownSeconds + RedirectSeconds)
        /\ CooldownSeconds \in 0..(CooldownSeconds + RedirectSeconds)
  BY WebAssumption
<1>1. cookie \in 0..issued' /\ requests[r].session \in 0..issued'
  BY IssuedGrows DEF WebInv, WebTypeOK, AnswersFit, Fits
<1>9. TeamsOfCookie => memberOf' \subseteq Teams
  BY DEF TeamsOfCookie, WebTypeOK
<1>2. CASE LoggedIn(r) \/ \E next \in Targets : LoggedInByProvider(r, next)
  <2>1. target \in Targets
    BY DEF WebTypeOK
  <2>2. (\E t \in Targets : Visit(t)) /\ cookie' \in 0..issued' /\ TeamsOfCookie
    BY <1>1, <1>2, <2>1 DEF LoggedIn, LoggedInByProvider
  <2> QED  BY <1>9, <2>2 DEF TabStep, Visits
<1>3. CASE SentToInbox(r)
  BY <1>3, ShowShows, TargetsThereAre DEF SentToInbox, TabStep, Outside
<1>4. CASE SignedUp(r)
  <2>1. cookie' \in 0..issued'
    BY <1>1, <1>4 DEF SignedUp
  <2>2. /\ UNCHANGED <<page, target, team, pending, context, layoutVars, notice, seconds, changed>>
        /\ awaiting' = {} /\ TeamsOfCookie
    BY <1>4 DEF SignedUp
  <2>3. page = "signup"
    BY <1>4 DEF SignedUp, Arrives, WebInv, OwnForm
  <2> QED  BY <1>9, <2>1, <2>2, <2>3 DEF TabStep, Joined, Stay
<1>5. CASE Resent(r) \/ ShowsRefusal(r)
  <2>1. /\ Stay /\ UNCHANGED <<memberVars, cookie>> /\ awaiting' = {}
        /\ notice' \in {"error", "resent"} /\ seconds' \in {0, CooldownSeconds}
    BY <1>5 DEF Resent, ShowsRefusal, Complain
  <2> QED  BY <1>0, <1>1, <2>1 DEF TabStep, Waits, AwaitsAtMostOne
<1>6. CASE TeamCreated(r)
  <2> DEFINE t == [page |-> "monitors", team |-> requests[r].code]
  <2>1. requests[r].code \in Teams
    BY <1>6 DEF TeamCreated, Arrives, AnswersFit, Fits
  <2>2. t \in Targets
    BY <2>1, TargetsThereAre DEF SidebarPages
  <2>3. page \in TeamPages
    BY <1>6 DEF TeamCreated, Arrives, WebInv, OwnForm, TeamPages
  <2>4. Move(t) /\ UNCHANGED cookie
    BY <1>6 DEF TeamCreated
  <2> QED  BY <2>2, <2>3, <2>4 DEF TabStep, Moves
<1>7. CASE Lands(r)
  <2>1. Landing(requests[r].answer) \in Outside /\ Landing(requests[r].answer) # "login"
    BY DEF Landing, Landings, Outside
  <2> QED  BY <1>7, <2>1, ShowShows, TargetsThereAre DEF Lands, TabStep
<1>8. CASE Dropped(r)
  <2>1. UNCHANGED <<tabVars, memberVars, cookie>>
    BY <1>8 DEF Dropped
  <2> QED
    BY <1>1, <2>1 DEF TabStep, Waits, Stay, AwaitsAtMostOne, tabVars, WebTypeOK
<1> QED
  BY <1>2, <1>3, <1>4, <1>5, <1>6, <1>7, <1>8 DEF TakeAnswer

\* What the user and the browser do without the server.
LEMMA LocalIsTabStep ==
  ASSUME WebInv, WebTypeOK, [AccountsNext]_accountVars, LocalStep
  PROVE  TabStep
<1>0. 0 \in 0..(CooldownSeconds + RedirectSeconds)
  BY WebAssumption
<1>1. cookie \in 0..issued'
  BY IssuedGrows DEF WebInv, WebTypeOK
<1>2. CASE \E r \in Requests : Abort(r)
  BY <1>0, <1>1, <1>2 DEF Abort, Complain, TabStep, Waits, AwaitsAtMostOne
<1>3. CASE FormRefused \/ TeamRefused
  <2>1. /\ UNCHANGED <<page, team, target, pending, seconds, context, layoutVars, memberVars, cookie>>
        /\ awaiting' = {} /\ notice' = "error"
    BY <1>3 DEF FormRefused, TeamRefused, Invalid
  <2> QED  BY <1>1, <2>1 DEF TabStep, Waits, Stay, AwaitsAtMostOne, WebTypeOK
<1>4. CASE Tick
  <2>1. seconds' \in 0..(CooldownSeconds + RedirectSeconds)
    BY <1>4, WebAssumption DEF Tick, WebTypeOK
  <2>2. UNCHANGED <<page, team, target, pending, awaiting, notice, context, layoutVars, memberVars, cookie>>
    BY <1>4 DEF Tick
  <2> QED  BY <1>1, <2>1, <2>2 DEF TabStep, Waits, Stay, AwaitsAtMostOne, WebTypeOK
<1>5. CASE CountedDown \/ LoadFails \/ FollowDeadNav \/ (\E p \in {"login", "signup"} : Open(p))
  <2>1. \E p \in {"login", "signup", "error"} : Show(p, Home) /\ UNCHANGED <<memberVars, cookie>>
    BY <1>5 DEF CountedDown, LoadFails, FollowDeadNav, Open
  <2> QED  BY <2>1, ShowShows, TargetsThereAre DEF TabStep, Outside
<1>6. CASE Unauthorized("layout", Home) \/ Unauthorized("page", target)
  <2>1. \E next \in {Home, target} : Show("login", next) /\ UNCHANGED <<memberVars, cookie>>
    BY <1>6 DEF Unauthorized
  <2>2. target \in Targets
    BY DEF WebTypeOK
  <2> QED  BY <2>1, <2>2, ShowShows, TargetsThereAre DEF TabStep, Outside
<1>7. CASE BreadcrumbLink \/ \E t \in Targets : OpenTeams(t)
  <2>1. (\E t \in Targets : Visit(t)) /\ UNCHANGED <<memberOf, cookie>>
    BY <1>7, TargetsThereAre DEF BreadcrumbLink, OpenTeams
  <2> QED  BY <1>1, <2>1 DEF TabStep, Visits, WebTypeOK
<1>8. CASE AddTeam \/ (\E t \in Teams : SwitchTeam(t)) \/ (\E p \in SidebarPages : FollowNav(p))
  <2>1. CASE AddTeam
    BY <2>1, TargetsThereAre DEF AddTeam, TabStep, Moves, TeamPages
  <2>2. ASSUME NEW t \in Teams, SwitchTeam(t) PROVE TabStep
    <3>1. [page |-> "monitors", team |-> t] \in Targets
      BY TargetsThereAre DEF SidebarPages
    <3>2. Move([page |-> "monitors", team |-> t]) /\ UNCHANGED cookie /\ page \in TeamPages
      BY <2>2 DEF SwitchTeam, TeamPages
    <3> QED  BY <3>1, <3>2 DEF TabStep, Moves
  <2>3. ASSUME NEW p \in SidebarPages, FollowNav(p) PROVE TabStep
    <3>1. team \in Teams
      BY <2>3, WebAssumption DEF FollowNav, WebTypeOK, Teams
    <3>2. [page |-> p, team |-> team] \in Targets
      BY <3>1, TargetsThereAre
    <3>3. Move([page |-> p, team |-> team]) /\ UNCHANGED cookie /\ page \in TeamPages
      BY <2>3 DEF FollowNav, TeamPages
    <3> QED  BY <3>2, <3>3 DEF TabStep, Moves
  <2> QED  BY <1>8, <2>1, <2>2, <2>3
<1>9. CASE LoadLayout \/ LoadPage \/ Entered \/ OperateSidebar
  BY <1>9 DEF TabStep
<1>10. CASE NavUser
  <2>1. UNCHANGED <<tabVars, memberVars, cookie>>
    BY <1>10 DEF NavUser, webVars
  <2> QED
    BY <1>1, <2>1 DEF TabStep, Waits, Stay, AwaitsAtMostOne, tabVars, WebTypeOK
<1>11. ASSUME NEW t \in Teams, Elsewhere(t) PROVE TabStep
  <2>1. PICK teams \in {memberOf \cup {t}, memberOf \ {t}} : ChangeMembership(teams)
    BY <1>11 DEF Elsewhere
  <2>2. teams \in SUBSET Teams
    BY <2>1 DEF WebTypeOK
  <2>3. UNCHANGED <<tabVars, cookie>>
    BY <1>11 DEF Elsewhere
  <2> QED  BY <2>1, <2>2, <2>3 DEF TabStep, Joins
<1> QED
  BY <1>2, <1>3, <1>4, <1>5, <1>6, <1>7, <1>8, <1>9, <1>10, <1>11, Zenon DEF LocalStep

\* Every step is one of these to the tab.
LEMMA WebStepIsTabStep ==
  ASSUME WebInv, WebTypeOK, AnswersFit, [WebNext]_webVars
  PROVE  TabStep
<1>0. [AccountsNext]_accountVars
  BY WebStepIsAccountsStep
<1>1. cookie \in 0..issued'
  BY <1>0, IssuedGrows DEF WebInv, WebTypeOK
<1>2. CASE UNCHANGED <<tabVars, memberVars, cookie>>
  BY <1>1, <1>2 DEF TabStep, Waits, Stay, AwaitsAtMostOne, tabVars, WebTypeOK
<1>3. ASSUME NEW r \in Requests, SubmitForm(r) PROVE TabStep
  <2>0. 0 \in 0..(CooldownSeconds + RedirectSeconds)
    BY WebAssumption
  <2>1. \E p, op : Submit(r, p, op)
    BY <1>3 DEF SubmitForm, SignUp, LogIn, CreateTeam, Resend
  <2> QED  BY <1>1, <2>0, <2>1 DEF Submit, TabStep, Waits, AwaitsAtMostOne
<1>4. ASSUME NEW r \in Requests, (\E code : FollowLink(r, code)) \/ ReturnFromProvider(r)
      PROVE  TabStep
  <2>1. Shows
    BY <1>4, TargetsThereAre DEF FollowLink, ReturnFromProvider, Follow, Shows, Outside, AwaitsAtMostOne
  <2> QED  BY <2>1 DEF TabStep
<1>5. ASSUME NEW r \in Requests, NEW t \in Teams, ServerCreatesTeam(r, t) PROVE TabStep
  <2>1. ChangeMembership(memberOf \cup {t}) /\ UNCHANGED <<tabVars, cookie>>
    BY <1>5 DEF ServerCreatesTeam
  <2>2. memberOf \cup {t} \in SUBSET Teams
    BY DEF WebTypeOK
  <2> QED  BY <2>1, <2>2 DEF TabStep, Joins
<1>6. ASSUME \/ ServerChanges
             \/ \E r \in Requests : ServerHandles(r) \/ ServerRefusesTeam(r)
      PROVE  UNCHANGED <<tabVars, memberVars, cookie>>
  BY <1>6 DEF ServerChanges, ServerHandles, ServerRefusesTeam
<1>7. CASE UNCHANGED webVars
  BY <1>2, <1>7 DEF webVars
<1> QED
  BY <1>0, <1>2, <1>3, <1>4, <1>5, <1>6, <1>7, WebNextSplit, TakeAnswerIsTabStep, LocalIsTabStep,
     Zenon

--------------------------------------------------------------------------------
(* The types, part by part: of the page, of what surrounds it, of its      *)
(* sidebar, and of what the browser and the server know of the user.       *)
PageTypeOK ==
  /\ page \in Outside \cup {"entering"} \cup TeamPages
  /\ team \in 0..MaxTeams
  /\ page \in SidebarPages <=> team # 0
  /\ target \in Targets
  /\ page \notin {"entering", "login"} => target = Home
  /\ pending \subseteq {"layout", "page"}
  /\ page # "entering" => pending = {}
  /\ layout \in 0..MaxTeams
  /\ page \in SidebarPages => layout = team
  /\ page \notin SidebarPages \cup {"entering"} => layout = 0

WaitTypeOK ==
  /\ awaiting \subseteq Requests
  /\ Cardinality(awaiting) <= 1
  /\ notice \in {"none", "error", "resent"}
  /\ seconds \in 0..(CooldownSeconds + RedirectSeconds)

SidebarTypeOK ==
  /\ {isMobile, open, openMobile} \subseteq BOOLEAN
  /\ layout = 0 => SidebarUnmounted

MemberTypeOK ==
  /\ cookie \in 0..issued
  /\ context \subseteq Teams
  /\ memberOf \subseteq Teams
  /\ changed \subseteq Teams

\* These are all the types there are.
LEMMA WebTypeOKParts ==
  WebTypeOK <=> /\ AccountsTypeOK /\ PageTypeOK /\ WaitTypeOK /\ SidebarTypeOK /\ MemberTypeOK
                /\ mailsBefore \in 0..mailed
<1>1. Outside \cup {"entering"} \cup TeamPages =
        {"login", "signup", "email-sent", "following", "entering", "error"} \cup Landings \cup TeamPages
  BY DEF Outside
<1> QED
  BY <1>1, Zenon DEF WebTypeOK, PageTypeOK, WaitTypeOK, SidebarTypeOK, MemberTypeOK

\* The types do not depend on the step that was taken to a page.
LEMMA PageTypesKept ==
  ASSUME PageTypeOK, TabStep
  PROVE  PageTypeOK'
<1> USE DEF PageTypeOK
<1>0. /\ Home.page = "teams" /\ Home.team = 0
      /\ 0 \in 0..MaxTeams
      /\ "entering" \notin TeamPages \cup Outside
      /\ TeamPages \cap Outside = {}
      /\ SidebarPages \subseteq TeamPages
  BY WebAssumption DEF Home, TeamPages, SidebarPages, Outside, Landings
<1>1. \A t \in Targets : /\ t.page \in TeamPages
                         /\ t.team \in 0..MaxTeams
                         /\ t.page \in SidebarPages <=> t.team # 0
  BY WebAssumption DEF Targets, Home, NewTeam, Teams, TeamPages, SidebarPages
<1>2. CASE Shows
  BY <1>0, <1>2 DEF Shows, LeaveLayout
<1>3. CASE Visits
  <2>1. PICK t \in Targets : Visit(t)
    BY <1>3 DEF Visits
  <2>2. page' = "entering" /\ team' = 0 /\ target' = t /\ pending' \subseteq {"layout", "page"}
          /\ layout' = 0
    BY <2>1 DEF Visit, Enter, LeaveLayout
  <2> QED  BY <1>0, <2>2
<1>4. CASE Moves
  <2>1. PICK t \in Targets : Move(t)
    BY <1>4 DEF Moves
  <2>2. page' = "entering" /\ team' = 0 /\ target' = t /\ pending' \subseteq {"layout", "page"}
          /\ layout' = layout
    BY <2>1 DEF Move, Enter, layoutVars
  <2> QED  BY <1>0, <2>2
<1>5. CASE Waits \/ Joined
  <2>1. UNCHANGED <<page, team, target, pending, layout>>
    BY <1>5 DEF Waits, Joined, Stay, layoutVars
  <2> QED  BY <2>1
<1>6. CASE Joins
  <2>1. UNCHANGED <<page, team, target, pending, layout>>
    BY <1>6 DEF Joins, tabVars, layoutVars
  <2> QED  BY <2>1
<1>7. CASE OperateSidebar
  <2>1. UNCHANGED <<page, team, target, pending, layout>>
    BY <1>7 DEF OperateSidebar
  <2> QED  BY <2>1
<1>8. CASE LoadLayout \/ LoadPage
  <2>1. UNCHANGED <<page, team, target, layout>> /\ pending' \subseteq pending
    BY <1>8 DEF LoadLayout, LoadPage, layoutVars
  <2> QED  BY <2>1
<1>9. CASE Entered
  <2>1. /\ page' = target.page /\ team' = target.team /\ target' = Home
        /\ pending = {} /\ pending' = pending /\ layout' = target.team
    BY <1>9 DEF Entered
  <2>2. Home \in Targets
    BY TargetsThereAre
  <2>3. target.page \in TeamPages /\ target.team \in 0..MaxTeams
          /\ (target.page \in SidebarPages <=> target.team # 0)
    BY <1>1
  <2> QED  BY <1>0, <2>1, <2>2, <2>3
<1> QED
  BY <1>2, <1>3, <1>4, <1>5, <1>6, <1>7, <1>8, <1>9 DEF TabStep

\* The tab waits for one answer at the most.
LEMMA WaitTypesKept ==
  ASSUME WaitTypeOK, TabStep
  PROVE  WaitTypeOK'
<1> USE DEF WaitTypeOK
<1>0. 0 \in 0..(CooldownSeconds + RedirectSeconds)
        /\ RedirectSeconds \in 0..(CooldownSeconds + RedirectSeconds)
  BY WebAssumption
<1>1. Cardinality({}) = 0 /\ \A r : Cardinality({r}) = 1
  BY FS_EmptySet, FS_Singleton
<1>2. ASSUME AwaitsAtMostOne PROVE awaiting' \subseteq Requests /\ Cardinality(awaiting') <= 1
  <2>1. CASE awaiting' = {}
    BY <1>1, <2>1
  <2>2. CASE awaiting' = awaiting
    BY <2>2
  <2>3. ASSUME NEW r \in Requests, awaiting' = {r}
        PROVE  awaiting' \subseteq Requests /\ Cardinality(awaiting') <= 1
    <3>1. Cardinality(awaiting') = 1
      BY <1>1, <2>3
    <3> QED  BY <2>3, <3>1
  <2> QED  BY <1>2, <2>1, <2>2, <2>3 DEF AwaitsAtMostOne
<1>3. CASE Shows
  BY <1>0, <1>2, <1>3 DEF Shows
<1>4. CASE Visits \/ Moves
  <2>1. \E t, asked : Enter(t, asked)
    BY <1>4 DEF Visits, Moves, Visit, Move
  <2> QED  BY <1>0, <1>1, <2>1 DEF Enter
<1>5. CASE Waits
  BY <1>2, <1>5 DEF Waits
<1>7. CASE Joined
  BY <1>1, <1>7 DEF Joined
<1>6. CASE Joins \/ OperateSidebar \/ LoadLayout \/ LoadPage \/ Entered
  <2>1. UNCHANGED <<awaiting, notice, seconds>>
    BY <1>6 DEF Joins, tabVars, OperateSidebar, LoadLayout, LoadPage, Entered
  <2> QED  BY <2>1
<1> QED
  BY <1>3, <1>4, <1>5, <1>6, <1>7 DEF TabStep

(* What a step does to the sidebar: nothing, or it goes, or it comes with  *)
(* another layout, or the user operates it.                                *)
SidebarStep ==
  \/ UNCHANGED layoutVars
  \/ LeaveLayout
  \/ layout' # layout /\ SidebarProvider /\ layout' # 0
  \/ layout # 0 /\ UseSidebar /\ UNCHANGED <<layout, page>>

\* Every step is one of these to the sidebar.
LEMMA TabStepIsSidebarStep ==
  ASSUME PageTypeOK, TabStep
  PROVE  SidebarStep
<1>1. CASE Shows \/ Visits
  BY <1>1 DEF SidebarStep, Shows, Visits, Visit
<1>2. CASE Moves \/ Waits \/ Joined \/ Joins \/ LoadLayout \/ LoadPage
  BY <1>2 DEF SidebarStep, Moves, Move, Waits, Joined, Stay, Joins, tabVars, LoadLayout, LoadPage
<1>3. CASE OperateSidebar
  <2>1. layout # 0
    BY <1>3 DEF OperateSidebar, PageTypeOK
  <2> QED  BY <1>3, <2>1 DEF OperateSidebar, SidebarStep
<1>4. CASE Entered
  <2>1. \/ layout' = layout /\ UNCHANGED sidebarVars
        \/ layout' \notin {0, layout} /\ SidebarProvider
        \/ layout' = 0 /\ UnmountSidebar
    BY <1>4 DEF Entered
  <2> QED  BY <2>1 DEF SidebarStep, LeaveLayout, layoutVars
<1> QED
  BY <1>1, <1>2, <1>3, <1>4 DEF TabStep

\* The user opens and closes the sidebar.
LEMMA SidebarTypesKept ==
  ASSUME SidebarTypeOK, SidebarStep
  PROVE  SidebarTypeOK'
<1>0. isMobile \in BOOLEAN /\ open \in BOOLEAN /\ openMobile \in BOOLEAN
  BY Zenon DEF SidebarTypeOK
<1>1. SUFFICES /\ isMobile' \in BOOLEAN /\ open' \in BOOLEAN /\ openMobile' \in BOOLEAN
               /\ layout' = 0 => SidebarUnmounted'
  BY Zenon DEF SidebarTypeOK
<1>2. CASE UNCHANGED layoutVars
  <2>1. isMobile' = isMobile /\ open' = open /\ openMobile' = openMobile /\ layout' = layout
    BY <1>2 DEF layoutVars, sidebarVars
  <2> QED  BY <1>0, <2>1, Zenon DEF SidebarTypeOK, SidebarUnmounted
<1>3. CASE LeaveLayout
  BY <1>3, Zenon DEF LeaveLayout, UnmountSidebar, SidebarUnmounted
<1>4. CASE layout' # layout /\ SidebarProvider /\ layout' # 0
  BY <1>4, Zenon DEF SidebarProvider
<1>5. CASE layout # 0 /\ UseSidebar /\ UNCHANGED <<layout, page>>
  <2>1. \A x \in BOOLEAN : (~x) \in BOOLEAN
    OBVIOUS
  <2>2. \/ setOpen(~open) \/ setOpenMobile(~openMobile) \/ setOpenMobile(FALSE) \/ useIsMobile
    BY <1>5, Zenon DEF UseSidebar, SidebarTrigger, SidebarRail, handleKeyDown, SheetContent, toggleSidebar
  <2>3. isMobile' \in BOOLEAN /\ open' \in BOOLEAN /\ openMobile' \in BOOLEAN
    BY <1>0, <2>1, <2>2, Zenon DEF setOpen, setOpenMobile, useIsMobile
  <2>4. layout' # 0
    BY <1>5
  <2> QED  BY <2>3, <2>4
<1> QED
  BY <1>2, <1>3, <1>4, <1>5, Zenon DEF SidebarStep

\* What the browser and the server know of the user.
LEMMA MemberTypesKept ==
  ASSUME MemberTypeOK, TabStep, cookie \in 0..issued'
  PROVE  MemberTypeOK'
<1> USE DEF MemberTypeOK
<1>1. CASE Shows
  <2>1. context' = {} /\ UNCHANGED <<memberOf, changed, cookie>>
    BY <1>1 DEF Shows, memberVars
  <2> QED  BY <2>1
<1>2. CASE Visits
  <2>1. context' = {} /\ changed' = {} /\ memberOf' \subseteq Teams /\ cookie' \in 0..issued'
    BY <1>2 DEF Visits, Visit
  <2> QED  BY <2>1
<1>6. CASE Joined
  <2>1. UNCHANGED <<context, changed>> /\ memberOf' \subseteq Teams /\ cookie' \in 0..issued'
    BY <1>6 DEF Joined, Stay
  <2> QED  BY <2>1
<1>3. CASE Moves \/ Waits \/ OperateSidebar \/ LoadPage \/ Entered
  <2>1. UNCHANGED <<context, memberOf, changed>> /\ cookie' \in 0..issued'
    BY <1>3 DEF Moves, Move, Waits, Stay, OperateSidebar, LoadPage, Entered, memberVars
  <2> QED  BY <2>1
<1>4. CASE Joins
  <2>1. PICK teams \in SUBSET Teams : ChangeMembership(teams)
    BY <1>4 DEF Joins
  <2>2. UNCHANGED <<context, cookie>>
    BY <1>4 DEF Joins, tabVars
  <2> QED  BY <2>1, <2>2 DEF ChangeMembership
<1>5. CASE LoadLayout
  <2>1. context' = memberOf /\ UNCHANGED <<memberOf, changed, cookie>>
    BY <1>5 DEF LoadLayout, memberVars
  <2> QED  BY <2>1
<1> QED
  BY <1>1, <1>2, <1>3, <1>4, <1>5, <1>6 DEF TabStep

--------------------------------------------------------------------------------
(* Since its layout was answered, the tab knows of every team rightly      *)
(* whether the user is a member, but for the teams where that changed.     *)
ContextTrails ==
  page \in TeamPages \/ (page = "entering" /\ "layout" \notin pending) =>
    \A t \in Teams \ changed : t \in context <=> t \in memberOf

(* A page of a team that asks the server for something shows only teams    *)
(* the user was a member of since.                                         *)
PageTrails ==
  /\ page \in {"monitors", "new"} => team \in memberOf \cup changed
  /\ page = "entering" /\ target.page \in {"monitors", "new"} /\ "page" \notin pending =>
       target.team \in memberOf \cup changed

TabInv ==
  /\ WebInv
  /\ WebTypeOK
  /\ AnswersFit
  /\ ContextTrails
  /\ PageTrails

\* A change of the user's teams is remembered until the layout is asked for again.
LEMMA ContextTrailsKept ==
  ASSUME PageTypeOK, ContextTrails, TabStep
  PROVE  ContextTrails'
<1> USE DEF ContextTrails
<1>0. "entering" \notin TeamPages /\ Outside \cap (TeamPages \cup {"entering"}) = {}
  BY DEF TeamPages, SidebarPages, Outside, Landings
<1>1. CASE Shows
  <2>1. page' \in Outside
    BY <1>1 DEF Shows
  <2> QED  BY <1>0, <2>1
<1>2. CASE Visits
  <2>1. page' = "entering" /\ "layout" \in pending'
    BY <1>2 DEF Visits, Visit, Enter
  <2> QED  BY <1>0, <2>1
<1>3. CASE Moves
  <2>1. page \in TeamPages /\ UNCHANGED <<context, memberOf, changed>>
    BY <1>3 DEF Moves, Move, memberVars
  <2> QED  BY <2>1
<1>9. CASE Joined
  <2>1. page' = "signup"
    BY <1>9 DEF Joined, Stay
  <2> QED  BY <2>1 DEF TeamPages, SidebarPages
<1>4. CASE Waits \/ OperateSidebar
  <2>1. UNCHANGED <<page, pending, context, memberOf, changed>>
    BY <1>4 DEF Waits, Stay, OperateSidebar, memberVars
  <2> QED  BY <2>1
<1>5. CASE Joins
  <2>1. PICK teams \in SUBSET Teams : ChangeMembership(teams)
    BY <1>5 DEF Joins
  <2>2. UNCHANGED <<page, pending, context>>
    BY <1>5 DEF Joins, tabVars
  <2> QED  BY <2>1, <2>2 DEF ChangeMembership
<1>6. CASE LoadLayout
  <2>1. context' = memberOf /\ UNCHANGED memberOf
    BY <1>6 DEF LoadLayout, memberVars
  <2> QED  BY <2>1
<1>7. CASE LoadPage
  <2>1. UNCHANGED <<page, context, memberOf, changed>> /\ pending' = pending \ {"page"}
    BY <1>7 DEF LoadPage, memberVars
  <2> QED  BY <2>1
<1>8. CASE Entered
  <2>1. page = "entering" /\ pending = {} /\ UNCHANGED <<context, memberOf, changed>>
    BY <1>8 DEF Entered, memberVars
  <2> QED  BY <2>1
<1> QED
  BY <1>1, <1>2, <1>3, <1>4, <1>5, <1>6, <1>7, <1>8, <1>9 DEF TabStep

\* The server answers what a team's page asks for to members only.
LEMMA PageTrailsKept ==
  ASSUME PageTypeOK, PageTrails, TabStep
  PROVE  PageTrails'
<1> USE DEF PageTrails
<1>0. "entering" \notin {"monitors", "new"} /\ Outside \cap {"monitors", "new", "entering"} = {}
  BY DEF Outside, Landings
<1>1. CASE Shows
  <2>1. page' \in Outside
    BY <1>1 DEF Shows
  <2> QED  BY <1>0, <2>1
<1>2. CASE Visits \/ Moves
  <2>1. PICK t, asked : Enter(t, asked)
    BY <1>2 DEF Visits, Moves, Visit, Move
  <2>2. page' = "entering" /\ target' = t
          /\ (t.page \in {"monitors", "new"} => "page" \in pending')
    BY <2>1 DEF Enter
  <2> QED  BY <1>0, <2>2
<1>8. CASE Joined
  <2>1. page' = "signup"
    BY <1>8 DEF Joined, Stay
  <2> QED  BY <2>1
<1>3. CASE Waits \/ OperateSidebar
  <2>1. UNCHANGED <<page, team, target, pending, memberOf, changed>>
    BY <1>3 DEF Waits, Stay, OperateSidebar, memberVars
  <2> QED  BY <2>1
<1>4. CASE Joins
  <2>1. PICK teams \in SUBSET Teams : ChangeMembership(teams)
    BY <1>4 DEF Joins
  <2>2. UNCHANGED <<page, team, target, pending>>
    BY <1>4 DEF Joins, tabVars
  <2>3. memberOf \cup changed \subseteq memberOf' \cup changed'
    BY <2>1 DEF ChangeMembership
  <2> QED  BY <2>2, <2>3
<1>5. CASE LoadLayout
  <2>1. UNCHANGED <<page, team, target, memberOf, changed>> /\ pending' = pending \ {"layout"}
    BY <1>5 DEF LoadLayout, memberVars
  <2> QED  BY <2>1
<1>6. CASE LoadPage
  <2>1. UNCHANGED <<page, team, target, memberOf, changed>> /\ target.team \in memberOf
    BY <1>6 DEF LoadPage, memberVars
  <2> QED  BY <2>1
<1>7. CASE Entered
  <2>1. /\ page = "entering" /\ pending = {} /\ page' = target.page /\ team' = target.team
        /\ target' = Home /\ UNCHANGED <<memberOf, changed>>
    BY <1>7 DEF Entered, memberVars
  <2> QED  BY <2>1 DEF Home
<1> QED
  BY <1>1, <1>2, <1>3, <1>4, <1>5, <1>6, <1>7, <1>8 DEF TabStep

\* A tab that was just opened has loaded nothing.
LEMMA TabInvInitially == WebInit => TabInv
<1> SUFFICES ASSUME WebInit PROVE TabInv
  OBVIOUS
<1>1. WebInv /\ AccountsTypeOK /\ mailsBefore \in 0..mailed
  BY WebInvInitially, AccountsInvInitially DEF WebInit, AccountsInv, WebInv
<1>2. PageTypeOK
  BY TargetsThereAre, WebAssumption
     DEF WebInit, PageTypeOK, Outside, TeamPages, SidebarPages, Landings
<1>3. WaitTypeOK
  BY FS_EmptySet, WebAssumption DEF WebInit, WaitTypeOK
<1>4. SidebarTypeOK
  BY Zenon DEF WebInit, SidebarTypeOK, SidebarUnmounted
<1>5. MemberTypeOK
  BY DEF WebInit, AccountsInit, MemberTypeOK
<1>6. AnswersFit
  <2>1. \A r \in Requests : requests[r] = Idle
    BY DEF WebInit, AccountsInit
  <2>2. Idle.session = 0 /\ Idle.answer = "none" /\ issued = 0
    BY DEF Idle, AtClient, WebInit, AccountsInit
  <2>3. Fits(Idle, issued)
    BY <2>2 DEF Fits
  <2> QED  BY <2>1, <2>3, Zenon DEF AnswersFit
<1>7. ContextTrails /\ PageTrails
  BY DEF WebInit, ContextTrails, PageTrails, TeamPages, SidebarPages
<1> QED
  BY <1>1, <1>2, <1>3, <1>4, <1>5, <1>6, <1>7, WebTypeOKParts DEF TabInv

\* Every step keeps what the tab knows right.
LEMMA TabInvKept == TabInv /\ [WebNext]_webVars => TabInv'
<1> SUFFICES ASSUME TabInv, [WebNext]_webVars PROVE TabInv'
  OBVIOUS
<1>0. WebInv /\ WebTypeOK /\ AnswersFit /\ ContextTrails /\ PageTrails /\ AccountsInv
  BY DEF TabInv, WebInv
<1>1. TabStep
  BY <1>0, WebStepIsTabStep
<1>2. WebInv' /\ AccountsTypeOK' /\ (mailsBefore \in 0..mailed)'
  BY <1>0, WebInvKept DEF WebInv, AccountsInv
<1>3. AnswersFit'
  BY <1>0, AnswersFitKept
<1>4. PageTypeOK /\ WaitTypeOK /\ SidebarTypeOK /\ MemberTypeOK
  BY <1>0, WebTypeOKParts
<1>5. cookie \in 0..issued'
  BY <1>0, <1>4, WebStepIsAccountsStep, IssuedGrows DEF MemberTypeOK
<1>6. PageTypeOK' /\ WaitTypeOK' /\ SidebarTypeOK' /\ MemberTypeOK'
  BY <1>1, <1>4, <1>5, PageTypesKept, WaitTypesKept, TabStepIsSidebarStep, SidebarTypesKept,
     MemberTypesKept
<1>7. (/\ AccountsTypeOK /\ PageTypeOK /\ WaitTypeOK /\ SidebarTypeOK /\ MemberTypeOK
       /\ mailsBefore \in 0..mailed)' => WebTypeOK'
  BY WebTypeOKParts, PTL
<1>8. ContextTrails' /\ PageTrails'
  BY <1>0, <1>1, <1>4, ContextTrailsKept, PageTrailsKept
<1> QED
  BY <1>2, <1>3, <1>6, <1>7, <1>8 DEF TabInv

(* The tab is always in one of its states: a page of a team has that       *)
(* team's layout, a sidebar that is not there is as it will be mounted, a  *)
(* page waits for one answer at the most (sidebar.tsx:56,                  *)
(* [teamID]/layout.tsx:20, login-form.tsx:47).                             *)
THEOREM WebTypesAlwaysHold == WebSpec => []WebTypeOK
<1>1. TabInv => WebTypeOK
  BY DEF TabInv
<1> QED  BY <1>1, TabInvInitially, TabInvKept, PTL DEF WebSpec

(* The team switcher names the team whose monitors are shown, whatever     *)
(* other tabs and other users change, unless that team is one of those     *)
(* changed since the layout was loaded (team-switcher.tsx:48,              *)
(* teams/layout.tsx:69, new-team/page.tsx:62).                             *)
THEOREM SwitcherAlwaysTrails == WebSpec => []SwitcherTrails
<1>1. TabInv => SwitcherTrails
  <2> SUFFICES ASSUME TabInv, page \in {"monitors", "new"}, context # {}, team \notin changed
               PROVE  ActiveTeam(context, team) = team
    BY DEF SwitcherTrails
  <2>1. page \in SidebarPages /\ page \in TeamPages
    BY DEF SidebarPages, TeamPages
  <2>2. team \in Teams
    BY <2>1, WebAssumption DEF TabInv, WebTypeOK, Teams
  <2>3. team \in memberOf
    BY DEF TabInv, PageTrails
  <2>4. team \in context
    BY <2>1, <2>2, <2>3 DEF TabInv, ContextTrails
  <2> QED  BY <2>4 DEF ActiveTeam
<1> QED  BY <1>1, TabInvInitially, TabInvKept, PTL DEF WebSpec

\* A toggle shows what was hidden and hides what was shown.
LEMMA UseTogglesShown ==
  ASSUME SidebarTypeOK, UseSidebar
  PROVE  UNCHANGED <<open, openMobile>> \/ (isMobile' = isMobile /\ Shown' # Shown)
<1>0. isMobile \in BOOLEAN /\ open \in BOOLEAN /\ openMobile \in BOOLEAN
  BY Zenon DEF SidebarTypeOK
<1>1. \A x \in BOOLEAN : (~x) # x
  OBVIOUS
<1>2. CASE toggleSidebar
  <2>1. CASE isMobile /\ setOpenMobile(~openMobile)
    <3>1. Shown = openMobile /\ Shown' = (~openMobile) /\ isMobile' = isMobile
      BY <2>1, Zenon DEF Shown, setOpenMobile
    <3> QED  BY <1>0, <1>1, <3>1, Zenon
  <2>2. CASE ~isMobile /\ setOpen(~open)
    <3>1. Shown = open /\ Shown' = (~open) /\ isMobile' = isMobile
      BY <2>2, Zenon DEF Shown, setOpen
    <3> QED  BY <1>0, <1>1, <3>1, Zenon
  <2> QED  BY <1>2, <2>1, <2>2, Zenon DEF toggleSidebar
<1>3. CASE SheetContent
  <2>1. isMobile /\ openMobile /\ openMobile' = FALSE /\ isMobile' = isMobile
    BY <1>3, Zenon DEF SheetContent, PageUsable, setOpenMobile
  <2>2. Shown = openMobile /\ Shown' = FALSE
    BY <2>1, Zenon DEF Shown
  <2> QED  BY <2>1, <2>2, Zenon
<1>4. CASE useIsMobile
  BY <1>4 DEF useIsMobile
<1> QED
  BY <1>2, <1>3, <1>4, Zenon DEF UseSidebar, SidebarTrigger, SidebarRail, handleKeyDown

(* While the layout of a team stays, so does its sidebar, wherever its     *)
(* links lead; and what the user does to it is done to the sidebar she     *)
(* sees (sidebar.tsx:92, [teamID]/layout.tsx:20).                          *)
THEOREM SidebarAlwaysStaysAsLeft == WebSpec => SidebarStaysAsLeft
<1>1. ASSUME TabInv, [WebNext]_webVars
      PROVE  [layout # 0 /\ layout' = layout =>
                \/ UNCHANGED <<open, openMobile>>
                \/ page' = page /\ isMobile' = isMobile /\ Shown' # Shown]_webVars
  <2> SUFFICES ASSUME layout # 0, layout' = layout
               PROVE  \/ UNCHANGED <<open, openMobile>>
                      \/ page' = page /\ isMobile' = isMobile /\ Shown' # Shown
    OBVIOUS
  <2>1. PageTypeOK /\ SidebarTypeOK /\ TabStep
    BY <1>1, WebTypeOKParts, WebStepIsTabStep DEF TabInv
  <2>2. CASE UNCHANGED layoutVars
    BY <2>2 DEF layoutVars, sidebarVars
  <2>3. CASE layout # 0 /\ UseSidebar /\ UNCHANGED <<layout, page>>
    BY <2>1, <2>3, UseTogglesShown
  <2>4. ~LeaveLayout
    BY DEF LeaveLayout
  <2>5. SidebarStep
    BY <2>1, TabStepIsSidebarStep
  <2> QED
    BY <2>2, <2>3, <2>4, <2>5 DEF SidebarStep
<1> QED
  BY <1>1, TabInvInitially, TabInvKept, PTL DEF WebSpec, SidebarStaysAsLeft
================================================================================
