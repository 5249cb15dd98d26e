---------------------------- MODULE AccountsProofs -----------------------------
(***************************************************************************)
(* What holds of the account whatever number of requests, mails and        *)
(* sessions there is: its types, that the code in the row was mailed, and  *)
(* what sessions were opened for.                                          *)
(***************************************************************************)
EXTENDS Accounts, TLAPS

(* Of a request q: what it remembers and answers stays true while others   *)
(* run.  The code it writes was mailed, a user it saw verified was         *)
(* verified, an account of the provider it saw is there, a session it      *)
(* hands out was opened for a verified user or by the provider's callback, *)
(* and it speaks of a mail only if one was sent.                           *)
Modest(q) ==
  /\ q.stage = "written" => q.code \in 1..mailed
  /\ q.sawCode \in 0..mailed
  /\ q.saw = "verified" => verifiedOnce
  /\ q.sawProvider # "none" => provider # "none"
  /\ q.answer \in {"403", "mailed"} => mailed > 0
  /\ q.answer = "success" => verifiedOnce
  /\ q.op = "resend" /\ q.answer = "200" => verifiedOnce
  /\ q.session # 0 => verifiedOnce \/ q.session \in vouched
  /\ q.answer \in {"registered", "307"} \/ (q.op = "login" /\ q.answer = "200") => q.session # 0

Honest(r) == Modest(requests[r])

AccountsInv ==
  /\ AccountsTypeOK
  /\ verifyCode \in 0..mailed
  /\ user = "unverified" => verifyCode # 0
  /\ user = "verified" => verifiedOnce
  /\ sessions \ vouched # {} => verifiedOnce
  /\ vouched # {} => provider # "none"
  /\ \A r \in Requests : Honest(r)

\* A request at the client has the type of a request.
LEMMA AtClientType ==
  ASSUME NEW op \in Ops, NEW stage \in {"idle", "sent", "answered"}, NEW code \in 0..MaxCodes,
         NEW answer \in {"none", "200", "mailed", "registered", "307", "4xx", "401", "403",
                         "5xx", "success", "expired"},
         NEW session \in 0..MaxSessions
  PROVE  AtClient(op, stage, code, answer, session) \in Request
<1>1. "none" \in Users /\ "none" \in Leads /\ 0 \in 0..MaxCodes
  BY AccountsAssumption DEF Users, Leads
<1> QED  BY <1>1 DEF AtClient, Request

\* So has one that is not made.
LEMMA IdleIsRequest == Idle \in Request
BY AtClientType, AccountsAssumption DEF Idle, Ops

\* The invariant holds of a server nobody has asked anything.
LEMMA AccountsInvInitially == AccountsInit => AccountsInv
<1> SUFFICES ASSUME AccountsInit PROVE AccountsInv
  OBVIOUS
<1>0. requests \in [Requests -> Request]
  BY IdleIsRequest DEF AccountsInit
<1>3. smtpEnabled \in BOOLEAN /\ verifiedOnce \in BOOLEAN
  BY Zenon DEF AccountsInit
<1>4. /\ user \in Users /\ provider \in Leads
      /\ mailed \in 0..MaxCodes /\ expired \in 0..mailed /\ issued \in 0..MaxSessions
  BY AccountsAssumption DEF AccountsInit, Users, Leads
<1>1. AccountsTypeOK
  BY <1>0, <1>3, <1>4, Zenon DEF AccountsInit, AccountsTypeOK
<1>2. ASSUME NEW r \in Requests PROVE Honest(r)
  BY DEF AccountsInit, Honest, Modest, Idle, AtClient
<1> QED
  BY <1>1, <1>2, AccountsAssumption DEF AccountsInit, AccountsInv

\* Putting a modest request in the place of another keeps the invariant.
LEMMA RequestStep ==
  ASSUME AccountsInv, NEW r \in Requests, NEW q \in Request, Modest(q),
         requests' = [requests EXCEPT ![r] = q],
         UNCHANGED <<mailVars, sessionVars, userVars>>
  PROVE  AccountsInv'
<1>0. UNCHANGED <<smtpEnabled, user, verifyCode, mailed, expired, issued, sessions, provider,
                  vouched, verifiedOnce>>
  BY DEF mailVars, sessionVars, providerVars, userVars
<1>1. AccountsTypeOK'
  BY <1>0 DEF AccountsInv, AccountsTypeOK
<1>2. ASSUME NEW s \in Requests PROVE Honest(s)'
  <2>1. requests'[s] = q \/ (requests'[s] = requests[s] /\ Honest(s))
    BY DEF AccountsInv, AccountsTypeOK
  <2> QED  BY <1>0, <2>1 DEF Modest, Honest
<1> QED
  BY <1>0, <1>1, <1>2 DEF AccountsInv

\* A request that is sent knows nothing yet.
LEMMA BeginKeeps ==
  ASSUME AccountsInv, NEW r \in Requests, NEW op \in Ops, NEW code \in 0..MaxCodes,
         Begin(r, op, code)
  PROVE  AccountsInv'
<1> DEFINE q == AtClient(op, "sent", code, "none", 0)
<1>1. q \in Request
  BY AtClientType, AccountsAssumption
<1>2. mailed \in Nat
  BY AccountsAssumption DEF AccountsInv, AccountsTypeOK
<1>3. requests' = [requests EXCEPT ![r] = q] /\ UNCHANGED <<mailVars, sessionVars, userVars>>
  BY DEF Begin
<1>4. q.stage = "sent" /\ q.saw = "none" /\ q.sawCode = 0 /\ q.sawProvider = "none"
        /\ q.answer = "none" /\ q.session = 0
  BY DEF AtClient
<1> HIDE DEF q
<1>5. Modest(q)
  BY <1>1, <1>2, <1>4 DEF Modest
<1> QED  BY <1>1, <1>3, <1>5, RequestStep, Zenon

\* A request whose answer was taken knows nothing any more.
LEMMA FinishKeeps ==
  ASSUME AccountsInv, NEW r \in Requests, Finish(r)
  PROVE  AccountsInv'
<1>1. mailed \in Nat
  BY AccountsAssumption DEF AccountsInv, AccountsTypeOK
<1>2. requests' = [requests EXCEPT ![r] = Idle] /\ UNCHANGED <<mailVars, sessionVars, userVars>>
  BY DEF Finish
<1>3. /\ Idle.stage = "idle" /\ Idle.saw = "none" /\ Idle.sawCode = 0 /\ Idle.sawProvider = "none"
      /\ Idle.answer = "none" /\ Idle.session = 0
  BY DEF Idle, AtClient
<1>4. Modest(Idle)
  BY <1>1, <1>3, IdleIsRequest DEF Modest
<1> QED  BY <1>2, <1>4, IdleIsRequest, RequestStep, Zenon

(* A plain answer, without a session.                                      *)
LEMMA AnswerKeeps ==
  ASSUME AccountsInv, NEW r \in Requests,
         NEW answer \in {"200", "mailed", "4xx", "401", "403", "5xx", "success", "expired"},
         Answer(r, answer, 0), UNCHANGED <<mailVars, sessionVars, userVars>>,
         answer \in {"403", "mailed"} => mailed > 0,
         answer = "success" => verifiedOnce,
         requests[r].op = "login" => answer # "200",
         requests[r].op = "resend" /\ answer = "200" => verifiedOnce
  PROVE  AccountsInv'
<1> DEFINE q == AtClient(requests[r].op, "answered", 0, answer, 0)
<1>0. requests[r].op \in Ops
  BY DEF AccountsInv, AccountsTypeOK, Request
<1>1. q \in Request
  BY <1>0, AtClientType, AccountsAssumption
<1>2. mailed \in Nat
  BY AccountsAssumption DEF AccountsInv, AccountsTypeOK
<1>3. requests' = [requests EXCEPT ![r] = q]
  BY DEF Answer
<1>4. q.stage = "answered" /\ q.saw = "none" /\ q.sawCode = 0 /\ q.sawProvider = "none"
        /\ q.answer = answer
        /\ q.session = 0 /\ q.op = requests[r].op
  BY DEF AtClient
<1> HIDE DEF q
<1>5. Modest(q)
  BY <1>1, <1>2, <1>4 DEF Modest
<1> QED  BY <1>1, <1>3, <1>5, RequestStep, Zenon

\* What the row says of a verified user and of its code is so when it is read.
LEMMA ReadUserKeeps ==
  ASSUME AccountsInv, NEW r \in Requests, ReadUser(r)
  PROVE  AccountsInv'
<1> DEFINE c == IF requests[r].op \in {"login", "verify"} THEN verifyCode ELSE 0
           p == IF requests[r].op \in {"register", "oauth"} THEN provider ELSE "none"
           q == [requests[r] EXCEPT !.stage = "read", !.saw = user, !.sawCode = c,
                                    !.sawProvider = p]
<1>1. requests[r] \in Request /\ user \in Users
  BY DEF AccountsInv, AccountsTypeOK
<1>6. c \in 0..mailed /\ c \in 0..MaxCodes /\ p \in Leads /\ (p # "none" => provider # "none")
  BY AccountsAssumption DEF AccountsInv, AccountsTypeOK, Leads
<1>3. requests' = [requests EXCEPT ![r] = q] /\ UNCHANGED <<mailVars, sessionVars, userVars>>
  BY DEF ReadUser
<1> HIDE DEF c, p
<1>2. /\ q \in Request /\ q.stage = "read" /\ q.saw = user /\ q.sawCode = c
      /\ q.sawProvider = p
  BY <1>1, <1>6 DEF Request
<1>4. q.op = requests[r].op /\ q.answer = requests[r].answer /\ q.session = requests[r].session
  BY <1>1 DEF Request
<1> HIDE DEF q
<1>5. Modest(q)
  BY <1>2, <1>4, <1>6 DEF AccountsInv, Honest, Modest
<1> QED  BY <1>2, <1>3, <1>5, RequestStep, Zenon

(* What was mailed, verified, linked or opened once was so for ever.       *)
LEMMA ModestLasts ==
  ASSUME AccountsInv, NEW q, Modest(q),
         mailed' \in {mailed, mailed + 1}, verifiedOnce => verifiedOnce',
         vouched \subseteq vouched', provider # "none" => provider' # "none"
  PROVE  Modest(q)'
<1>1. mailed \in Nat
  BY AccountsAssumption DEF AccountsInv, AccountsTypeOK
<1>2. mailed' \in Nat /\ mailed <= mailed'
  BY <1>1
<1> QED  BY <1>1, <1>2 DEF Modest

(* The row is written and the link mailed: one more code was mailed.       *)
LEMMA SendCodeKeeps ==
  ASSUME AccountsInv, NEW r \in Requests, SendCode(r)
  PROVE  AccountsInv'
<1> DEFINE q == [requests[r] EXCEPT !.stage = "written", !.code = mailed + 1]
<1>1. requests[r] \in Request /\ mailed \in 0..MaxCodes /\ mailed < MaxCodes
  BY DEF AccountsInv, AccountsTypeOK, SendCode
<1>0. mailed + 1 \in 0..MaxCodes
  BY <1>1, AccountsAssumption
<1>2. q \in Request /\ q.stage = "written" /\ q.code = mailed + 1
  BY <1>0, <1>1 DEF Request
<1>3. requests' = [requests EXCEPT ![r] = q] /\ mailed' = mailed + 1
        /\ UNCHANGED <<smtpEnabled, expired, sessionVars, userVars>>
  BY DEF SendCode
<1>4. /\ q.op = requests[r].op /\ q.answer = requests[r].answer /\ q.session = requests[r].session
      /\ q.saw = requests[r].saw /\ q.sawCode = requests[r].sawCode
      /\ q.sawProvider = requests[r].sawProvider
  BY <1>1 DEF Request
<1> HIDE DEF q
<1>5. AccountsTypeOK'
  BY <1>1, <1>2, <1>3, AccountsAssumption DEF AccountsInv, AccountsTypeOK, sessionVars, providerVars,
                                              userVars
<1>6. UNCHANGED <<verifiedOnce, vouched, provider, user, verifyCode, sessions>>
  BY <1>3 DEF sessionVars, providerVars, userVars
<1>7. Modest(requests[r])
  BY DEF AccountsInv, Honest
<1>8. ASSUME NEW q0, q0 = q PROVE Modest(q0)'
  BY <1>1, <1>2, <1>3, <1>4, <1>6, <1>7, <1>8, AccountsAssumption DEF Modest
<1>9. ASSUME NEW s \in Requests PROVE Honest(s)'
  <2>1. CASE s = r
    <3>1. PICK q0 : q0 = q
      OBVIOUS
    <3>2. requests'[s] = q0 /\ Modest(q0)'
      BY <1>3, <1>8, <2>1, <3>1 DEF AccountsInv, AccountsTypeOK
    <3> QED  BY <3>2 DEF Honest, Modest
  <2>2. CASE s # r
    <3>1. PICK q0 : q0 = requests[s]
      OBVIOUS
    <3>2. requests'[s] = q0 /\ Modest(q0)
      BY <1>3, <2>2, <3>1 DEF AccountsInv, AccountsTypeOK, Honest
    <3>3. Modest(q0)'
      BY <1>3, <1>6, <3>2, ModestLasts
    <3> QED  BY <3>2, <3>3 DEF Honest, Modest
  <2> QED  BY <2>1, <2>2
<1> QED
  BY <1>1, <1>3, <1>5, <1>6, <1>9, AccountsAssumption DEF AccountsInv

(* An answer that may write the row to be verified or to hold a code, and  *)
(* may open a session: of a user who was verified, or by the provider.     *)
LEMMA AnswerWrites ==
  ASSUME AccountsInv, NEW r \in Requests,
         NEW answer \in {"200", "mailed", "registered", "307", "403", "success"},
         NEW session \in 0..MaxSessions,
         Answer(r, answer, session), UNCHANGED mailVars,
         \/ user' = "unverified" /\ verifyCode' \in 1..mailed /\ UNCHANGED verifiedOnce
         \/ user' = "verified" /\ verifyCode' = 0 /\ verifiedOnce' = TRUE
         \/ UNCHANGED userVars,
         \/ session = 0 /\ UNCHANGED sessionVars
         \/ /\ session = issued + 1 /\ issued' = issued + 1
            /\ sessions' = sessions \cup {issued + 1}
            /\ \/ verifiedOnce' = TRUE /\ UNCHANGED providerVars
               \/ vouched' = vouched \cup {issued + 1} /\ provider' \in Leads \ {"none"},
         answer \in {"403", "mailed"} => mailed > 0,
         answer = "success" => verifiedOnce' = TRUE,
         requests[r].op = "resend" /\ answer = "200" => verifiedOnce' = TRUE,
         answer \in {"registered", "307"} \/ (requests[r].op = "login" /\ answer = "200")
           => session # 0
  PROVE  AccountsInv'
<1> DEFINE q == AtClient(requests[r].op, "answered", 0, answer, session)
<1>0. requests[r].op \in Ops /\ requests \in [Requests -> Request]
  BY DEF AccountsInv, AccountsTypeOK, Request
<1>1. q \in Request
  BY <1>0, AtClientType, AccountsAssumption
<1>2. mailed \in Nat /\ mailed <= MaxCodes /\ verifyCode \in 0..mailed /\ issued \in 0..MaxSessions
  BY AccountsAssumption DEF AccountsInv, AccountsTypeOK
<1>3. requests' = [requests EXCEPT ![r] = q]
  BY DEF Answer
<1>4. q.stage = "answered" /\ q.saw = "none" /\ q.sawCode = 0 /\ q.sawProvider = "none"
        /\ q.answer = answer
        /\ q.session = session /\ q.op = requests[r].op
  BY DEF AtClient
<1> HIDE DEF q
<1>5. requests' \in [Requests -> Request]
  BY <1>0, <1>1, <1>3
<1>6. verifiedOnce = TRUE => verifiedOnce' = TRUE
  BY DEF userVars
<1>7. verifiedOnce \in BOOLEAN /\ verifiedOnce' \in BOOLEAN
  BY Zenon DEF userVars, AccountsInv, AccountsTypeOK
<1>8. /\ user' \in Users /\ verifyCode' \in 0..mailed /\ verifyCode' \in 0..MaxCodes
      /\ user' = "unverified" => verifyCode' # 0
  BY <1>2, AccountsAssumption DEF userVars, Users, AccountsInv, AccountsTypeOK
<1>9. user' = "verified" => verifiedOnce' = TRUE
  BY <1>7 DEF userVars, AccountsInv
<1>10. /\ issued' \in 0..MaxSessions
       /\ sessions' \subseteq 1..issued' /\ vouched' \subseteq 1..issued'
       /\ vouched \subseteq vouched'
       /\ session # 0 => verifiedOnce' = TRUE \/ session \in vouched'
  <2>0. sessions \subseteq 1..issued /\ vouched \subseteq 1..issued
    BY DEF AccountsInv, AccountsTypeOK
  <2>1. CASE session = 0 /\ UNCHANGED sessionVars
    BY <1>2, <2>0, <2>1 DEF sessionVars, providerVars
  <2>2. CASE /\ session = issued + 1 /\ issued' = issued + 1
             /\ sessions' = sessions \cup {issued + 1}
             /\ \/ verifiedOnce' = TRUE /\ UNCHANGED providerVars
                \/ vouched' = vouched \cup {issued + 1}
    <3>1. issued' \in 0..MaxSessions /\ issued' = issued + 1 /\ issued \in Nat /\ session = issued + 1
      BY <1>2, <2>2
    <3>2. sessions' \subseteq 1..issued'
      BY <2>0, <2>2, <3>1
    <3>3. vouched' = vouched \/ vouched' = vouched \cup {issued + 1}
      BY <2>2 DEF providerVars
    <3>4. vouched' \subseteq 1..issued' /\ vouched \subseteq vouched'
      <4>1. 1..issued \cup {issued + 1} \subseteq 1..issued'
        BY <3>1
      <4> QED  BY <2>0, <3>3, <4>1, Zenon
    <3>5. verifiedOnce' = TRUE \/ session \in vouched'
      BY <2>2, <3>1
    <3> QED  BY <3>1, <3>2, <3>4, <3>5
  <2> QED  BY <2>1, <2>2
<1>11. sessions' \ vouched' # {} => verifiedOnce' = TRUE
  <2>1. sessions \ vouched # {} => verifiedOnce' = TRUE
    BY <1>6, <1>7 DEF AccountsInv
  <2> QED  BY <1>7, <2>1 DEF sessionVars, providerVars
<1>15. /\ provider' \in Leads /\ (vouched' # {} => provider' # "none")
       /\ provider # "none" => provider' # "none"
  BY DEF sessionVars, providerVars, AccountsInv, AccountsTypeOK
<1>12. AccountsTypeOK'
  BY <1>5, <1>7, <1>8, <1>10, <1>15 DEF mailVars, AccountsInv, AccountsTypeOK
<1>16. mailed' = mailed /\ (verifiedOnce => verifiedOnce')
  BY <1>6, <1>7 DEF mailVars
<1>13. ASSUME NEW q0, q0 = q PROVE Modest(q0)'
  BY <1>2, <1>4, <1>7, <1>10, <1>13, <1>15, <1>16 DEF Modest
<1>14. ASSUME NEW s \in Requests PROVE Honest(s)'
  <2>1. CASE s = r
    <3>1. PICK q0 : q0 = q
      OBVIOUS
    <3>2. requests'[s] = q0 /\ Modest(q0)'
      BY <1>0, <1>3, <1>13, <2>1, <3>1
    <3> QED  BY <3>2 DEF Honest, Modest
  <2>2. CASE s # r
    <3>1. PICK q0 : q0 = requests[s]
      OBVIOUS
    <3>2. requests'[s] = q0 /\ Modest(q0)
      BY <1>0, <1>3, <2>2, <3>1 DEF AccountsInv, Honest
    <3>3. Modest(q0)'
      BY <1>10, <1>15, <1>16, <3>2, ModestLasts
    <3> QED  BY <3>2, <3>3 DEF Honest, Modest
  <2> QED  BY <2>1, <2>2
<1> QED
  BY <1>8, <1>9, <1>11, <1>12, <1>14, <1>15 DEF AccountsInv, mailVars

\* A failure is answered with a 5xx and writes nothing.
LEMMA FailRequestKeeps ==
  ASSUME AccountsInv, NEW r \in Requests, FailRequest(r)
  PROVE  AccountsInv'
BY AnswerKeeps DEF FailRequest

\* An outcome that only rests on what was read.
LEMMA ReplyKeeps ==
  ASSUME AccountsInv, NEW r \in Requests, NEW op \in Ops,
         NEW answer \in {"200", "mailed", "4xx", "401", "403", "5xx", "success", "expired"},
         Reply(r, op, answer),
         answer = "403" => mailed > 0,
         answer # "mailed",
         answer = "success" => verifiedOnce,
         op = "login" => answer # "200",
         op = "resend" /\ answer = "200" => verifiedOnce
  PROVE  AccountsInv'
BY AnswerKeeps DEF Reply, At

\* The row is left with the code that was mailed.
LEMMA CommitCodeKeeps ==
  ASSUME AccountsInv, NEW r \in Requests, NEW op \in Ops,
         NEW answer \in {"mailed", "403"}, CommitCode(r, op, answer)
  PROVE  AccountsInv'
<1>1. requests[r].code \in 1..mailed /\ mailed \in Nat
  BY AccountsAssumption DEF CommitCode, At, AccountsInv, AccountsTypeOK, Honest, Modest
<1>2. 0 \in 0..MaxSessions /\ mailed > 0
  BY <1>1, AccountsAssumption
<1>3. /\ Answer(r, answer, 0)
      /\ UNCHANGED mailVars /\ UNCHANGED sessionVars
      /\ user' = "unverified" /\ verifyCode' \in 1..mailed /\ UNCHANGED verifiedOnce
      /\ requests[r].op = op
  BY <1>1 DEF CommitCode, At
<1> QED
  BY <1>2, <1>3, AnswerWrites

(* A new session, of a user who was verified.                              *)
LEMMA OpenSessionKeeps ==
  ASSUME AccountsInv, NEW r \in Requests, NEW answer \in {"200", "registered"},
         OpenSession(r, answer), UNCHANGED <<mailVars, providerVars>>,
         requests[r].op # "resend",
         SetVerified \/ (verifiedOnce = TRUE /\ UNCHANGED userVars)
  PROVE  AccountsInv'
<1>1. issued + 1 \in 0..MaxSessions /\ issued + 1 # 0
  BY AccountsAssumption DEF OpenSession, AccountsInv, AccountsTypeOK
<1>2. /\ Answer(r, answer, issued + 1) /\ issued' = issued + 1
      /\ sessions' = sessions \cup {issued + 1}
  BY DEF OpenSession
<1>3. \/ user' = "verified" /\ verifyCode' = 0 /\ verifiedOnce' = TRUE
      \/ verifiedOnce' = TRUE /\ UNCHANGED userVars
  BY DEF SetVerified, userVars
<1> QED
  BY <1>1, <1>2, <1>3, AnswerWrites

\* A session the provider's callback opens.
LEMMA OpenVouchedKeeps ==
  ASSUME AccountsInv, NEW r \in Requests, NEW lead \in Leads \ {"none"}, OpenVouched(r, lead)
  PROVE  AccountsInv'
<1>1. issued + 1 \in 0..MaxSessions /\ issued + 1 # 0
  BY AccountsAssumption DEF OpenVouched, OpenSession, AccountsInv, AccountsTypeOK
<1>2. /\ Answer(r, "307", issued + 1) /\ issued' = issued + 1
      /\ sessions' = sessions \cup {issued + 1}
      /\ vouched' = vouched \cup {issued + 1} /\ provider' \in Leads \ {"none"}
      /\ UNCHANGED mailVars /\ UNCHANGED userVars
      /\ requests[r].op = "oauth"
  BY DEF OpenVouched, OpenSession, At
<1> QED
  BY <1>1, <1>2, AnswerWrites

\* Every handler keeps the invariant.
LEMMA HandleKeeps ==
  ASSUME AccountsInv, NEW r \in Requests, Handle(r)
  PROVE  AccountsInv'
<1> USE DEF Ops
<1>0. /\ Honest(r) /\ mailed \in Nat /\ verifiedOnce \in BOOLEAN
      /\ 0 \in 0..MaxSessions
  BY AccountsAssumption DEF AccountsInv, AccountsTypeOK
<1>1. CASE ReadUser(r) \/ FailRequest(r)
  BY <1>1, ReadUserKeeps, FailRequestKeeps
<1>2. CASE RegisterTaken(r) \/ LoginRefused(r) \/ ResendUnknown(r)
  BY <1>2, ReplyKeeps DEF RegisterTaken, LoginRefused, ResendUnknown
<1>11. CASE ResendVerified(r)
  <2>1. verifiedOnce
    BY <1>0, <1>11 DEF ResendVerified, Honest, Modest
  <2> QED  BY <1>11, <2>1, ReplyKeeps DEF ResendVerified
<1>12. CASE OAuthRefused(r)
  BY <1>12, AnswerKeeps DEF OAuthRefused
<1>13. CASE OAuthLinks(r) \/ OAuthCreates(r) \/ OAuthLogsIn(r)
  <2>1. \E lead \in Leads \ {"none"} : OpenVouched(r, lead)
    BY <1>0, <1>13
       DEF OAuthLinks, OAuthCreates, OAuthLogsIn, Leads, Honest, Modest, AccountsInv, AccountsTypeOK
  <2> QED  BY <2>1, OpenVouchedKeeps
<1>3. CASE RegisterMails(r) \/ LoginMails(r) \/ ResendMails(r)
  BY <1>3, SendCodeKeeps DEF RegisterMails, LoginMails, ResendMails
<1>4. CASE RegisterCommits(r) \/ LoginCommits(r) \/ ResendCommits(r)
  BY <1>4, CommitCodeKeeps DEF RegisterCommits, LoginCommits, ResendCommits
<1>5. CASE RegisterVerified(r) \/ LoginVerifies(r)
  BY <1>5, OpenSessionKeeps DEF RegisterVerified, LoginVerifies, At
<1>6. CASE LoginSucceeds(r)
  <2>1. verifiedOnce = TRUE
    BY <1>0, <1>6 DEF LoginSucceeds, Honest, Modest
  <2> QED  BY <1>6, <2>1, OpenSessionKeeps DEF LoginSucceeds, At
<1>7. CASE LoginUnverified(r)
  <2>1. mailed > 0
    <3>1. requests[r].sawCode # 0 /\ requests[r].sawCode \in 0..mailed
      BY <1>0, <1>7 DEF LoginUnverified, CodeIsGood, Honest, Modest
    <3> QED  BY <1>0, <3>1
  <2> QED  BY <1>7, <2>1, ReplyKeeps DEF LoginUnverified
<1>8. CASE ResendVerifies(r) \/ VerifyEmail(r)
  <2>1. \E answer \in {"200", "success"} :
          /\ Answer(r, answer, 0) /\ UNCHANGED <<mailVars, sessionVars>>
          /\ user' = "verified" /\ verifyCode' = 0 /\ verifiedOnce' = TRUE
          /\ requests[r].op # "login"
    BY <1>8 DEF ResendVerifies, VerifyEmail, SetVerified, At
  <2> QED  BY <1>0, <2>1, AnswerWrites
<1>9. CASE LinkExpired(r)
  BY <1>9, AnswerKeeps DEF LinkExpired, At
<1>10. CASE LinkUsedBefore(r)
  <2>1. verifiedOnce
    BY <1>0, <1>10 DEF LinkUsedBefore, Honest, Modest
  <2> QED  BY <1>10, <2>1, ReplyKeeps DEF LinkUsedBefore
<1> QED
  BY <1>1, <1>2, <1>3, <1>4, <1>5, <1>6, <1>7, <1>8, <1>9, <1>10, <1>11, <1>12, <1>13 DEF Handle

(* What changes neither row nor requests.                                  *)
LEMMA EndSessionKeeps ==
  ASSUME AccountsInv, NEW s \in sessions, EndSession(s)
  PROVE  AccountsInv'
BY DEF EndSession, AccountsInv, AccountsTypeOK, Honest, Modest, mailVars, userVars, providerVars

\* A code that gets too old is still one that was mailed.
LEMMA ExpireCodeKeeps ==
  ASSUME AccountsInv, ExpireCode
  PROVE  AccountsInv'
BY AccountsAssumption DEF ExpireCode, AccountsInv, AccountsTypeOK, Honest, Modest, sessionVars,
                          providerVars, userVars

\* A restart answers what was under way with a 5xx and rolls it back.
LEMMA RestartKeeps ==
  ASSUME AccountsInv, Restart
  PROVE  AccountsInv'
<1> DEFINE q(r) == AtClient(requests[r].op, "answered", 0, "5xx", 0)
<1>0. requests \in [Requests -> Request]
  BY DEF AccountsInv, AccountsTypeOK
<1>1. ASSUME NEW r \in Requests PROVE q(r) \in Request
  <2>1. requests[r].op \in Ops
    BY <1>0 DEF Request
  <2> QED  BY <2>1, AtClientType, AccountsAssumption
<1>2. ASSUME NEW r \in Requests
      PROVE  /\ q(r).stage = "answered" /\ q(r).saw = "none" /\ q(r).sawCode = 0
             /\ q(r).sawProvider = "none"
             /\ q(r).answer = "5xx" /\ q(r).session = 0
  BY DEF AtClient
<1>3. requests' = [r \in Requests |->
        IF requests[r].stage \in {"sent", "read", "written"} THEN q(r) ELSE requests[r]]
  BY DEF Restart
<1> HIDE DEF q
<1>4. requests' \in [Requests -> Request]
  BY <1>0, <1>1, <1>3
<1>5. AccountsTypeOK'
  <2>1. smtpEnabled' \in BOOLEAN
    BY DEF Restart
  <2>2. UNCHANGED <<mailed, expired, userVars, sessionVars>>
    BY DEF Restart
  <2> QED
    BY <1>4, <2>1, <2>2, Zenon
       DEF AccountsInv, AccountsTypeOK, sessionVars, providerVars, userVars
<1>6. mailed \in Nat
  BY AccountsAssumption DEF AccountsInv, AccountsTypeOK
<1>7. UNCHANGED <<mailed, user, verifyCode, verifiedOnce, sessions, vouched, provider>>
  BY DEF Restart, userVars, sessionVars, providerVars
<1>8. ASSUME NEW r \in Requests PROVE Honest(r)'
  <2>1. requests'[r] = q(r) \/ requests'[r] = requests[r]
    BY <1>3
  <2>2. Honest(r)
    BY DEF AccountsInv
  <2> QED
    BY <1>2, <1>6, <1>7, <2>1, <2>2 DEF Honest, Modest
<1> QED
  BY <1>5, <1>7, <1>8 DEF AccountsInv

\* Another part of the API answers, and opens no session.
LEMMA AnswerTeamKeeps ==
  ASSUME AccountsInv, NEW r \in Requests, NEW answer \in {"200", "4xx", "401"},
         NEW team \in 0..MaxCodes, AnswerTeam(r, answer, team)
  PROVE  AccountsInv'
<1> DEFINE q == AtClient("createTeam", "answered", team, answer, 0)
<1>1. q \in Request
  BY AtClientType, AccountsAssumption DEF Ops
<1>2. mailed \in Nat
  BY AccountsAssumption DEF AccountsInv, AccountsTypeOK
<1>3. requests' = [requests EXCEPT ![r] = q] /\ UNCHANGED <<mailVars, sessionVars, userVars>>
  BY DEF AnswerTeam
<1>4. q.stage = "answered" /\ q.saw = "none" /\ q.sawCode = 0 /\ q.sawProvider = "none"
        /\ q.answer = answer
        /\ q.session = 0 /\ q.op = "createTeam"
  BY DEF AtClient
<1> HIDE DEF q
<1>5. Modest(q)
  BY <1>1, <1>2, <1>4 DEF Modest
<1> QED  BY <1>1, <1>3, <1>5, RequestStep, Zenon

(* Every step keeps the invariant.                                         *)
LEMMA AccountsInvKept == AccountsInv /\ [AccountsNext]_accountVars => AccountsInv'
<1> SUFFICES ASSUME AccountsInv, [AccountsNext]_accountVars PROVE AccountsInv'
  OBVIOUS
<1>1. CASE UNCHANGED accountVars
  BY <1>1 DEF accountVars, AccountsInv, AccountsTypeOK, Honest, Modest
<1>2. ASSUME NEW r \in Requests, NEW op \in Ops \ {"verify"}, Begin(r, op, 0) PROVE AccountsInv'
  BY <1>2, BeginKeeps, AccountsAssumption
<1>3. ASSUME NEW r \in Requests, NEW code \in 1..mailed, Begin(r, "verify", code)
      PROVE  AccountsInv'
  <2>1. code \in 0..MaxCodes
    BY AccountsAssumption DEF AccountsInv, AccountsTypeOK
  <2> QED  BY <1>3, <2>1, BeginKeeps DEF Ops
<1>4. ASSUME NEW r \in Requests, Finish(r) \/ Handle(r) PROVE AccountsInv'
  BY <1>4, FinishKeeps, HandleKeeps
<1>5. ASSUME NEW r \in Requests, NEW answer \in {"200", "4xx", "401"}, NEW team \in 0..MaxCodes,
             AnswerTeam(r, answer, team)
      PROVE  AccountsInv'
  BY <1>5, AnswerTeamKeeps
<1>6. ASSUME (\E s \in sessions : EndSession(s)) \/ ExpireCode \/ Restart PROVE AccountsInv'
  BY <1>6, EndSessionKeeps, ExpireCodeKeeps, RestartKeeps
<1> QED
  BY <1>1, <1>2, <1>3, <1>4, <1>5, <1>6 DEF AccountsNext

\* The invariant holds in every behaviour of the accounts
\* (api/handler/auth, api/middleware/auth.go).
THEOREM AccountsHold == AccountsSpec => []AccountsInv
BY AccountsInvInitially, AccountsInvKept, PTL DEF AccountsSpec

(* Types, for any number of requests, codes and sessions                   *)
(* (api/handler/auth, repository/user.go).                                 *)
THEOREM AccountsTypeCorrect == AccountsSpec => []AccountsTypeOK
<1>1. AccountsInv => AccountsTypeOK
  BY DEF AccountsInv
<1> QED  BY <1>1, AccountsHold, PTL

(* The code an unverified row holds is one that was mailed: the mail goes  *)
(* out before the commit that stores its code (register.go:107).           *)
THEOREM StoredCodeAlwaysMailed == AccountsSpec => []StoredCodeWasMailed
<1>1. AccountsInv => StoredCodeWasMailed
  BY AccountsAssumption DEF AccountsInv, AccountsTypeOK, StoredCodeWasMailed
<1> QED  BY <1>1, AccountsHold, PTL

(* Sessions are those of a user who was verified once, or come by the      *)
(* provider's account, however requests overtake each other and whatever   *)
(* restarts change (login.go:101-173, oauth_callback.go:112-216).          *)
THEOREM SessionAlwaysEarned == AccountsSpec => []SessionIsEarned
<1>1. AccountsInv => SessionIsEarned
  BY DEF AccountsInv, SessionIsEarned
<1> QED  BY <1>1, AccountsHold, PTL
--------------------------------------------------------------------------------
(* What verification lacks.  VerifiedForGood fails, and the theorem below  *)
(* says when only: when one handler writes between the reads and the       *)
(* writes of another.                                                      *)
Underway(r) == requests[r].stage \in {"read", "written"}

OneAtATime == \A r, q \in Requests : Underway(r) /\ Underway(q) => r = q

\* A handler that is alone finds the row as it read it, and is not about to
\* write back a row that is verified.
RowAsRead(r) ==
  /\ requests[r].stage = "read" => requests[r].saw = user
  /\ requests[r].stage = "written" => user # "verified"

\* A step that leaves the user row alone, as a request sees it.
LeavesRow(r) ==
  \/ requests'[r] = requests[r]
  \/ requests'[r].stage \notin {"read", "written"}
  \/ requests'[r].stage = "read" /\ requests'[r].saw = user
  \/ /\ requests[r].stage = "read" /\ requests'[r].stage = "written"
     /\ requests[r].saw = "unverified" \/ user = "none"

\* A step in which the handler of r writes the user row and answers.
WritesRow(r) ==
  /\ Underway(r)
  /\ requests'[r].stage = "answered"
  /\ \A q \in Requests \ {r} : requests'[q] = requests[q]
  /\ user' = "verified" \/ requests[r].stage = "written"

\* An answer ends what is under way for its own request only.
LEMMA AnswerEnds ==
  ASSUME AccountsTypeOK, NEW r \in Requests, NEW answer, NEW session,
         Answer(r, answer, session)
  PROVE  /\ requests'[r].stage = "answered"
         /\ \A q \in Requests \ {r} : requests'[q] = requests[q]
         /\ \A q \in Requests : LeavesRow(q)
<1> DEFINE a == AtClient(requests[r].op, "answered", 0, answer, session)
<1>1. a.stage = "answered"
  BY DEF AtClient
<1>2. requests' = [requests EXCEPT ![r] = a]
  BY DEF Answer
<1> HIDE DEF a
<1>3. requests'[r] = a /\ \A q \in Requests \ {r} : requests'[q] = requests[q]
  BY <1>2 DEF AccountsTypeOK
<1> QED  BY <1>1, <1>3 DEF LeavesRow

\* A handler that mails a code has read a row that is not verified.
LEMMA SendCodeLeavesRow ==
  ASSUME AccountsTypeOK, NEW r \in Requests, SendCode(r), requests[r].stage = "read",
         requests[r].saw = "unverified" \/ user = "none"
  PROVE  user' = user /\ \A q \in Requests : LeavesRow(q)
<1>1. requests \in [Requests -> Request]
  BY DEF AccountsTypeOK
<1>2. requests' = [requests EXCEPT ![r] = [@ EXCEPT !.stage = "written", !.code = mailed + 1]]
  BY DEF SendCode
<1>3. requests'[r].stage = "written" /\ \A q \in Requests \ {r} : requests'[q] = requests[q]
  BY <1>1, <1>2 DEF Request
<1>4. user' = user
  BY DEF SendCode, userVars
<1> QED  BY <1>3, <1>4 DEF LeavesRow

\* What a handler does to the row, and to the requests that read it.
LEMMA HandlerWrites ==
  ASSUME AccountsTypeOK, NEW r \in Requests, Handle(r)
  PROVE  (user' = user /\ \A q \in Requests : LeavesRow(q)) \/ WritesRow(r)
<1>1. CASE ReadUser(r)
  <2>1. requests \in [Requests -> Request]
    BY DEF AccountsTypeOK
  <2>2. \E c, p : requests' = [requests EXCEPT ![r] =
          [@ EXCEPT !.stage = "read", !.saw = user, !.sawCode = c, !.sawProvider = p]]
    BY <1>1 DEF ReadUser
  <2>3. /\ requests'[r].stage = "read" /\ requests'[r].saw = user
        /\ \A q \in Requests \ {r} : requests'[q] = requests[q]
    BY <2>1, <2>2 DEF Request
  <2>4. user' = user
    BY <1>1 DEF ReadUser, userVars
  <2> QED  BY <2>3, <2>4 DEF LeavesRow
<1>2. CASE \/ FailRequest(r)
           \/ RegisterTaken(r) \/ LoginRefused(r) \/ LoginUnverified(r) \/ LoginSucceeds(r)
           \/ OAuthRefused(r) \/ OAuthLinks(r) \/ OAuthCreates(r) \/ OAuthLogsIn(r)
           \/ ResendUnknown(r) \/ ResendVerified(r) \/ LinkExpired(r) \/ LinkUsedBefore(r)
  <2>1. user' = user
    BY <1>2 DEF FailRequest, RegisterTaken, LoginRefused, LoginUnverified, LoginSucceeds,
                OAuthRefused, OAuthLinks, OAuthCreates, OAuthLogsIn, OpenVouched,
                ResendUnknown, ResendVerified, LinkExpired, LinkUsedBefore, Reply, userVars
  <2>2. \E answer, session : Answer(r, answer, session)
    BY <1>2 DEF FailRequest, RegisterTaken, LoginRefused, LoginUnverified, LoginSucceeds,
                OAuthRefused, OAuthLinks, OAuthCreates, OAuthLogsIn, OpenVouched,
                ResendUnknown, ResendVerified, LinkExpired, LinkUsedBefore, Reply, OpenSession
  <2> QED  BY <2>1, <2>2, AnswerEnds
<1>3. CASE RegisterMails(r) \/ LoginMails(r) \/ ResendMails(r)
  BY <1>3, SendCodeLeavesRow DEF RegisterMails, LoginMails, ResendMails, At
<1>4. CASE RegisterCommits(r) \/ LoginCommits(r) \/ ResendCommits(r)
  <2>1. requests[r].stage = "written" /\ \E answer : Answer(r, answer, 0)
    BY <1>4 DEF RegisterCommits, LoginCommits, ResendCommits, CommitCode, At
  <2> QED  BY <2>1, AnswerEnds DEF WritesRow, Underway
<1>5. CASE RegisterVerified(r) \/ LoginVerifies(r) \/ ResendVerifies(r) \/ VerifyEmail(r)
  <2>1. requests[r].stage = "read" /\ user' = "verified"
    BY <1>5 DEF RegisterVerified, LoginVerifies, ResendVerifies, VerifyEmail, SetVerified, At
  <2>2. \E answer, session : Answer(r, answer, session)
    BY <1>5 DEF RegisterVerified, LoginVerifies, ResendVerifies, VerifyEmail, OpenSession
  <2> QED  BY <2>1, <2>2, AnswerEnds DEF WritesRow, Underway
<1> QED  BY <1>1, <1>2, <1>3, <1>4, <1>5 DEF Handle

\* What any step does to them.
LEMMA RowWriters ==
  ASSUME AccountsTypeOK, [AccountsNext]_accountVars
  PROVE  \/ user' = user /\ \A q \in Requests : LeavesRow(q)
         \/ \E r \in Requests : WritesRow(r)
<1>1. ASSUME NEW r \in Requests, NEW op, NEW code, Begin(r, op, code)
      PROVE  user' = user /\ \A q \in Requests : LeavesRow(q)
  <2> DEFINE a == AtClient(op, "sent", code, "none", 0)
  <2>1. a.stage = "sent"
    BY DEF AtClient
  <2>2. requests' = [requests EXCEPT ![r] = a] /\ user' = user
    BY <1>1 DEF Begin, userVars
  <2> HIDE DEF a
  <2>3. requests'[r] = a /\ \A q \in Requests \ {r} : requests'[q] = requests[q]
    BY <2>2 DEF AccountsTypeOK
  <2> QED  BY <2>1, <2>2, <2>3 DEF LeavesRow
<1>2. ASSUME NEW r \in Requests, Finish(r)
      PROVE  user' = user /\ \A q \in Requests : LeavesRow(q)
  <2>1. Idle.stage = "idle"
    BY DEF Idle, AtClient
  <2>2. requests' = [requests EXCEPT ![r] = Idle] /\ user' = user
    BY <1>2 DEF Finish, userVars
  <2>3. requests'[r] = Idle /\ \A q \in Requests \ {r} : requests'[q] = requests[q]
    BY <2>2 DEF AccountsTypeOK
  <2> QED  BY <2>1, <2>2, <2>3 DEF LeavesRow
<1>3. ASSUME NEW r \in Requests, NEW answer, NEW t, AnswerTeam(r, answer, t)
      PROVE  user' = user /\ \A q \in Requests : LeavesRow(q)
  <2> DEFINE a == AtClient("createTeam", "answered", t, answer, 0)
  <2>1. a.stage = "answered"
    BY DEF AtClient
  <2>2. requests' = [requests EXCEPT ![r] = a] /\ user' = user
    BY <1>3 DEF AnswerTeam, userVars
  <2> HIDE DEF a
  <2>3. requests'[r] = a /\ \A q \in Requests \ {r} : requests'[q] = requests[q]
    BY <2>2 DEF AccountsTypeOK
  <2> QED  BY <2>1, <2>2, <2>3 DEF LeavesRow
<1>4. CASE Restart
  <2>1. \A op : AtClient(op, "answered", 0, "5xx", 0).stage = "answered"
    BY DEF AtClient
  <2>2. user' = user
    BY <1>4 DEF Restart, userVars
  <2>3. \A q \in Requests : \/ requests'[q] = requests[q]
                            \/ requests'[q] = AtClient(requests[q].op, "answered", 0, "5xx", 0)
    BY <1>4 DEF Restart
  <2>4. \A q \in Requests : requests'[q] = requests[q] \/ requests'[q].stage = "answered"
    BY <2>1, <2>3
  <2> QED  BY <2>2, <2>4 DEF LeavesRow
<1>5. ASSUME \/ \E s \in sessions : EndSession(s)
             \/ ExpireCode
             \/ UNCHANGED accountVars
      PROVE  user' = user /\ \A q \in Requests : LeavesRow(q)
  BY <1>5 DEF EndSession, ExpireCode, accountVars, userVars, LeavesRow
<1> QED
  BY <1>1, <1>2, <1>3, <1>4, <1>5, HandlerWrites, Zenon DEF AccountsNext

\* One at a time, handlers find the row as they read it, and none takes a
\* verification back.
LEMMA RowsAsReadKept ==
  ASSUME AccountsTypeOK, OneAtATime, \A r \in Requests : RowAsRead(r),
         [AccountsNext]_accountVars
  PROVE  /\ \A r \in Requests : RowAsRead(r)'
         /\ user = "verified" => user' = "verified"
<1>1. CASE user' = user /\ \A q \in Requests : LeavesRow(q)
  <2>1. ASSUME NEW q \in Requests PROVE RowAsRead(q)'
    <3>1. RowAsRead(q) /\ LeavesRow(q) /\ user' = user
      BY <1>1
    <3>2. "none" # "verified" /\ "unverified" # "verified" /\ "read" # "written"
      OBVIOUS
    <3> QED  BY <3>1, <3>2 DEF RowAsRead, LeavesRow
  <2> QED  BY <1>1, <2>1
<1>2. ASSUME NEW r \in Requests, WritesRow(r)
      PROVE  /\ \A q \in Requests : RowAsRead(q)'
             /\ user = "verified" => user' = "verified"
  <2>1. ASSUME NEW q \in Requests PROVE RowAsRead(q)'
    <3>1. CASE q = r
      BY <1>2, <3>1 DEF WritesRow, RowAsRead
    <3>2. CASE q # r
      <4>1. requests'[q] = requests[q] /\ ~Underway(q)
        BY <1>2, <3>2 DEF WritesRow, OneAtATime
      <4> QED  BY <4>1 DEF RowAsRead, Underway
    <3> QED  BY <3>1, <3>2
  <2>2. user = "verified" => user' = "verified"
    BY <1>2 DEF WritesRow, RowAsRead
  <2> QED  BY <2>1, <2>2
<1> QED  BY <1>1, <1>2, RowWriters

(* As long as no two handlers have the user's row at hand at once, a user  *)
(* who was verified stays verified, across restarts, failures and links    *)
(* that are followed again: the overlap of a resend or a login with the    *)
(* verification is all that VerifiedForGood fails for                      *)
(* (resend_verification.go:57-85, login.go:101-129, verify_email.go:62-74).*)
THEOREM VerifiedForGoodWithoutOverlap == AccountsSpec /\ []OneAtATime => VerifiedForGood
<1> DEFINE Inv == \A r \in Requests : RowAsRead(r)
<1>1. AccountsInit => Inv
  <2>1. Idle.stage = "idle"
    BY DEF Idle, AtClient
  <2>2. AccountsInit => \A r \in Requests : requests[r] = Idle
    BY DEF AccountsInit
  <2> QED  BY <2>1, <2>2 DEF RowAsRead
<1>2. AccountsTypeOK /\ OneAtATime /\ Inv /\ [AccountsNext]_accountVars
        => Inv' /\ [user = "verified" => user' = "verified"]_accountVars
  BY RowsAsReadKept
<1> QED  BY <1>1, <1>2, AccountsTypeCorrect, PTL DEF AccountsSpec, VerifiedForGood
================================================================================
