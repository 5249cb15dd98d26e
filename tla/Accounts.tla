------------------------------- MODULE Accounts -------------------------------
(***************************************************************************)
(* The account of one email address: registration, login, the verification *)
(* of the address, the provider's account of it (OAuth) and sessions       *)
(* (api/handler/auth, api/middleware/auth.go).                             *)
(*                                                                         *)
(* A handler is a transaction: it reads the user row without a lock, makes *)
(* up its mind, and may write the row, mail a link and commit.  Whoever    *)
(* wrote the row holds it until the commit, which comes after the mail.    *)
(*                                                                         *)
(* A verification code is its number in the order of the mails.            *)
(***************************************************************************)
EXTENDS Naturals

CONSTANTS
  Requests,      \* how many requests the server works on at a time
  MaxCodes,      \* bound: verification mails
  MaxSessions    \* bound: sessions created

ASSUME AccountsAssumption == MaxCodes \in Nat /\ MaxSessions \in Nat

VARIABLES
  smtpEnabled,   \* config.Env().SMTPEnabled of the running server
  user,          \* "none": nobody registered the address; else its user's Verified
  verifyCode,    \* users.verify_code, 0 for NULL
  mailed,        \* history: the mails sent carry the codes 1..mailed
  expired,       \* the codes 1..expired are too old
  issued,        \* history: the sessions 1..issued were created
  sessions,      \* the rows of the table sessions that have not expired
  provider,      \* the provider's account of the address leads to "none", the "user"
                 \* above, or an "other": made for it, or logged in when it was linked
  vouched,       \* history: the sessions the provider's callback created
  requests,
  verifiedOnce   \* history: the user was verified at some time

accountVars == <<smtpEnabled, user, verifyCode, mailed, expired, issued, sessions,
                 provider, vouched, requests, verifiedOnce>>
mailVars == <<smtpEnabled, mailed, expired>>
providerVars == <<provider, vouched>>
sessionVars == <<issued, sessions, providerVars>>
userVars == <<user, verifyCode, verifiedOnce>>

Ops == {"register", "login", "oauth", "resend", "verify", "createTeam"}
Users == {"none", "unverified", "verified"}
Leads == {"none", "user", "other"}

(* saw, sawCode, sawProvider: the rows as the handler read them.  code:    *)
(* that of the link that was followed, later the code that was mailed.     *)
Request ==
  [op          : Ops,
   stage       : {"idle", "sent", "read", "written", "answered"},
   saw         : Users,
   sawCode     : 0..MaxCodes,
   sawProvider : Leads,
   code        : 0..MaxCodes,
   session     : 0..MaxSessions,
   answer      : {"none", "200", "mailed", "registered", "307", "4xx", "401", "403", "5xx",
                  "success", "expired"}]

(* A request the server has not begun with, or has done with.              *)
AtClient(op, stage, code, answer, session) ==
  [op |-> op, stage |-> stage, saw |-> "none", sawCode |-> 0, sawProvider |-> "none",
   code |-> code, session |-> session, answer |-> answer]

Idle == AtClient("login", "idle", 0, "none", 0)

AccountsTypeOK ==
  /\ smtpEnabled \in BOOLEAN
  /\ user \in Users
  /\ mailed \in 0..MaxCodes
  /\ expired \in 0..mailed
  /\ verifyCode \in 0..MaxCodes
  /\ issued \in 0..MaxSessions
  /\ sessions \subseteq 1..issued
  /\ provider \in Leads
  /\ vouched \subseteq 1..issued
  /\ requests \in [Requests -> Request]
  /\ verifiedOnce \in BOOLEAN

AccountsInit ==
  /\ smtpEnabled \in BOOLEAN
  /\ user = "none"
  /\ verifyCode = 0
  /\ mailed = 0
  /\ expired = 0
  /\ issued = 0
  /\ sessions = {}
  /\ provider = "none"
  /\ vouched = {}
  /\ requests = [r \in Requests |-> Idle]
  /\ verifiedOnce = FALSE

--------------------------------------------------------------------------------
(* A request is sent, and its answer taken or dropped.                     *)
Begin(r, op, code) ==
  /\ requests[r].stage = "idle"
  /\ requests' = [requests EXCEPT ![r] = AtClient(op, "sent", code, "none", 0)]
  /\ UNCHANGED <<mailVars, sessionVars, userVars>>

Finish(r) ==
  /\ requests[r].stage = "answered"
  /\ requests' = [requests EXCEPT ![r] = Idle]
  /\ UNCHANGED <<mailVars, sessionVars, userVars>>

Answer(r, answer, session) ==
  requests' = [requests EXCEPT ![r] =
    AtClient(requests[r].op, "answered", 0, answer, session)]

At(r, op, stage) == requests[r].op = op /\ requests[r].stage = stage

(* Somebody has written the user row, or the address, and not committed.   *)
Locked == \E r \in Requests : requests[r].stage = "written"

(* GetUserByEmail and GetUserByID find the user who registered.  Only a    *)
(* registration and the callback look for the provider's account as well.  *)
ReadUser(r) ==
  /\ requests[r].stage = "sent"
  /\ requests[r].op # "createTeam"
  /\ At(r, "verify", "sent") => requests[r].code > expired
  /\ requests' = [requests EXCEPT ![r] =
       [@ EXCEPT !.stage = "read", !.saw = user,
                 !.sawCode = IF requests[r].op \in {"login", "verify"} THEN verifyCode ELSE 0,
                 !.sawProvider = IF requests[r].op \in {"register", "oauth"}
                                   THEN provider ELSE "none"]]
  /\ UNCHANGED <<mailVars, sessionVars, userVars>>

(* A statement, the mail or the commit fails, and all is rolled back but a *)
(* mail that was sent.  An INSERT that finds the address taken fails too.  *)
FailRequest(r) ==
  /\ requests[r].stage \in {"sent", "read", "written"}
  /\ Answer(r, "5xx", 0)
  /\ UNCHANGED <<mailVars, sessionVars, userVars>>

(* The outcome is known from what was read, and nothing is written.        *)
Reply(r, op, answer) ==
  /\ At(r, op, "read")
  /\ Answer(r, answer, 0)
  /\ UNCHANGED <<mailVars, sessionVars, userVars>>

(* Mutant: the code is stored whether its mail was sent or not.            *)
SendCodeUnmailed(r) ==
  /\ ~Locked
  /\ mailed < MaxCodes
  /\ requests' = [requests EXCEPT ![r] = [@ EXCEPT !.stage = "written", !.code = mailed + 1]]
  /\ UNCHANGED <<smtpEnabled, mailed, expired, sessionVars, userVars>>

(* The row is written with a new code, and the link mailed.                *)
SendCode(r) ==
  /\ ~Locked
  /\ mailed < MaxCodes
  /\ mailed' = mailed + 1
  /\ requests' = [requests EXCEPT ![r] = [@ EXCEPT !.stage = "written", !.code = mailed + 1]]
  /\ UNCHANGED <<smtpEnabled, expired, sessionVars, userVars>>

(* The transaction of SendCode commits.                                    *)
CommitCode(r, op, answer) ==
  /\ At(r, op, "written")
  /\ user' = "unverified"
  /\ verifyCode' = requests[r].code
  /\ Answer(r, answer, 0)
  /\ UNCHANGED <<mailVars, sessionVars, verifiedOnce>>

SetVerified ==
  /\ user' = "verified"
  /\ verifyCode' = 0
  /\ verifiedOnce' = TRUE

(* CreateSession and the cookie of the answer.                             *)
OpenSession(r, answer) ==
  /\ issued < MaxSessions
  /\ issued' = issued + 1
  /\ sessions' = sessions \cup {issued + 1}
  /\ Answer(r, answer, issued + 1)

--------------------------------------------------------------------------------
(* No account was found that has the address.                              *)
Unknown(r) == requests[r].saw = "none" /\ requests[r].sawProvider = "none"

RegisterTaken(r) == ~Unknown(r) /\ Reply(r, "register", "4xx")

RegisterMails(r) ==
  /\ At(r, "register", "read")
  /\ smtpEnabled
  /\ Unknown(r)
  /\ user = "none"
  /\ SendCode(r)

RegisterCommits(r) == CommitCode(r, "register", "mailed")

(* Without SMTP the new user is verified, and logged in.                   *)
RegisterVerified(r) ==
  /\ At(r, "register", "read")
  /\ ~smtpEnabled
  /\ Unknown(r)
  /\ user = "none"
  /\ ~Locked
  /\ SetVerified
  /\ OpenSession(r, "registered")
  /\ UNCHANGED <<mailVars, providerVars>>

(* An unknown address, no password or a wrong one.                         *)
LoginRefused(r) == Reply(r, "login", "4xx")

CodeIsGood(code) == code # 0 /\ code > expired

(* A link that still works is in the user's inbox: nothing is mailed.      *)
LoginUnverified(r) ==
  /\ smtpEnabled
  /\ requests[r].saw = "unverified"
  /\ CodeIsGood(requests[r].sawCode)
  /\ Reply(r, "login", "403")

LoginMails(r) ==
  /\ At(r, "login", "read")
  /\ smtpEnabled
  /\ requests[r].saw = "unverified"
  /\ ~CodeIsGood(requests[r].sawCode)
  /\ SendCode(r)

LoginCommits(r) == CommitCode(r, "login", "403")

(* Mutant: whether the address is verified is not asked.                   *)
LoginSucceedsUnasked(r) ==
  /\ At(r, "login", "read")
  /\ requests[r].saw # "none"
  /\ OpenSession(r, "200")
  /\ UNCHANGED <<mailVars, userVars, providerVars>>

LoginSucceeds(r) ==
  /\ At(r, "login", "read")
  /\ requests[r].saw = "verified"
  /\ OpenSession(r, "200")
  /\ UNCHANGED <<mailVars, userVars, providerVars>>

(* A user left unverified by a server that had SMTP.                       *)
LoginVerifies(r) ==
  /\ At(r, "login", "read")
  /\ ~smtpEnabled
  /\ requests[r].saw = "unverified"
  /\ ~Locked
  /\ SetVerified
  /\ OpenSession(r, "200")
  /\ UNCHANGED <<mailVars, providerVars>>

(* OAuthCallback: the provider, or the state of the flow, does not fit, or *)
(* the address is that of another user than the one logged in.             *)
OAuthRefused(r) ==
  /\ At(r, "oauth", "sent") \/ (At(r, "oauth", "read") /\ ~Unknown(r))
  /\ Answer(r, "4xx", 0)
  /\ UNCHANGED <<mailVars, sessionVars, userVars>>

(* A session, and where the provider's account leads from now on.  Nobody  *)
(* asks whether the user is verified, and the row is not written.          *)
OpenVouched(r, lead) ==
  /\ At(r, "oauth", "read")
  /\ provider' = lead
  /\ vouched' = vouched \cup {issued + 1}
  /\ OpenSession(r, "307")
  /\ UNCHANGED <<mailVars, userVars>>

(* The address has a user: the provider's account is linked to her.  Of    *)
(* two that link it the second meets the unique index, and fails.          *)
OAuthLinks(r) ==
  /\ requests[r].saw # "none"
  /\ requests[r].sawProvider = "none"
  /\ provider = "none"
  /\ OpenVouched(r, "user")

(* A user is created, who is verified, or another one links the account.   *)
(* No index keeps a registration from coming in between.                   *)
OAuthCreates(r) ==
  /\ Unknown(r)
  /\ provider = "none"
  /\ OpenVouched(r, "other")

(* The account is known, and its user the only one with this address.      *)
OAuthLogsIn(r) ==
  /\ requests[r].sawProvider # "none"
  /\ requests[r].saw # "none" => requests[r].sawProvider = "user"
  /\ OpenVouched(r, provider)

ResendUnknown(r) == requests[r].saw = "none" /\ Reply(r, "resend", "4xx")

(* "Email already verified": 200, as if a mail had been sent.              *)
ResendVerified(r) == requests[r].saw = "verified" /\ Reply(r, "resend", "200")

ResendVerifies(r) ==
  /\ At(r, "resend", "read")
  /\ ~smtpEnabled
  /\ requests[r].saw = "unverified"
  /\ ~Locked
  /\ SetVerified
  /\ Answer(r, "200", 0)
  /\ UNCHANGED <<mailVars, sessionVars>>

ResendMails(r) ==
  /\ At(r, "resend", "read")
  /\ smtpEnabled
  /\ requests[r].saw = "unverified"
  /\ SendCode(r)

ResendCommits(r) == CommitCode(r, "resend", "mailed")

(* VerifyEmail: the link is too old, or not of the code the row held.      *)
LinkExpired(r) ==
  /\ \/ At(r, "verify", "sent") /\ requests[r].code <= expired
     \/ /\ At(r, "verify", "read")
        /\ requests[r].saw # "verified"
        /\ requests[r].saw = "none" \/ requests[r].sawCode # requests[r].code
  /\ Answer(r, "expired", 0)
  /\ UNCHANGED <<mailVars, sessionVars, userVars>>

LinkUsedBefore(r) == requests[r].saw = "verified" /\ Reply(r, "verify", "success")

VerifyEmail(r) ==
  /\ At(r, "verify", "read")
  /\ requests[r].saw = "unverified"
  /\ requests[r].sawCode = requests[r].code
  /\ ~Locked
  /\ SetVerified
  /\ Answer(r, "success", 0)
  /\ UNCHANGED <<mailVars, sessionVars>>

(* Everything the handlers do to the account, beside reading it.           *)
Handle(r) ==
  \/ ReadUser(r) \/ FailRequest(r)
  \/ RegisterTaken(r) \/ RegisterMails(r) \/ RegisterCommits(r) \/ RegisterVerified(r)
  \/ LoginRefused(r) \/ LoginUnverified(r) \/ LoginMails(r) \/ LoginCommits(r)
  \/ LoginSucceeds(r) \/ LoginVerifies(r)
  \/ OAuthRefused(r) \/ OAuthLinks(r) \/ OAuthCreates(r) \/ OAuthLogsIn(r)
  \/ ResendUnknown(r) \/ ResendVerified(r) \/ ResendVerifies(r)
  \/ ResendMails(r) \/ ResendCommits(r)
  \/ LinkExpired(r) \/ LinkUsedBefore(r) \/ VerifyEmail(r)

--------------------------------------------------------------------------------
(* A session expires, is revoked from another device, or is logged out.    *)
EndSession(s) ==
  /\ s \in sessions
  /\ sessions' = sessions \ {s}
  /\ UNCHANGED <<mailVars, userVars, issued, providerVars, requests>>

ExpireCode ==
  /\ expired < mailed
  /\ expired' = expired + 1
  /\ UNCHANGED <<smtpEnabled, mailed, userVars, sessionVars, requests>>

(* The server is started anew, maybe with another configuration; what it   *)
(* was working on is rolled back, and the connections fail.                *)
Restart ==
  /\ smtpEnabled' \in BOOLEAN
  /\ requests' = [r \in Requests |->
       IF requests[r].stage \in {"sent", "read", "written"}
         THEN AtClient(requests[r].op, "answered", 0, "5xx", 0)
         ELSE requests[r]]
  /\ UNCHANGED <<mailed, expired, userVars, sessionVars>>

(* The middleware lets a request with this token pass.                     *)
Authorized(token) == token \in sessions

(* A request to another part of the API is answered.                       *)
AnswerTeam(r, answer, team) ==
  /\ At(r, "createTeam", "sent")
  /\ requests' = [requests EXCEPT ![r] = AtClient("createTeam", "answered", team, answer, 0)]
  /\ UNCHANGED <<mailVars, sessionVars, userVars>>

AccountsNext ==
  \/ \E r \in Requests :
       \/ \E op \in Ops \ {"verify"} : Begin(r, op, 0)
       \/ \E code \in 1..mailed : Begin(r, "verify", code)
       \/ Finish(r)
       \/ Handle(r)
       \/ \E answer \in {"200", "4xx", "401"}, team \in 0..MaxCodes : AnswerTeam(r, answer, team)
  \/ \E s \in sessions : EndSession(s)
  \/ ExpireCode
  \/ Restart

AccountsSpec == AccountsInit /\ [][AccountsNext]_accountVars

--------------------------------------------------------------------------------
(* An unverified user can be verified: the code in the row is one that was *)
(* mailed, whatever failed or was rolled back before (register.go:105,     *)
(* resend_verification.go:82).                                             *)
StoredCodeWasMailed == user = "unverified" => verifyCode \in 1..mailed

(* A session that a registration or a login opened is of a user who was    *)
(* verified, through restarts with and without SMTP and requests that      *)
(* overtake another; and only who has an account at the provider gets one  *)
(* that is not.  Its callback links an unverified user and logs her in     *)
(* (oauth_callback.go:132, :216): she may be in and refused by LoginMails. *)
SessionIsEarned ==
  /\ sessions \ vouched # {} => verifiedOnce
  /\ vouched # {} => provider # "none"

(* "Your email is verified" (website/app/verify/[result]/page.tsx:74) once *)
(* is verified for good.  It fails: a resend, or a login, that read the    *)
(* row before the link was followed writes it back unverified after.       *)
VerifiedForGood == [][user = "verified" => user' = "verified"]_accountVars
================================================================================
