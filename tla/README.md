# Kymarium: a TLA+ model of the monitoring system

Kymarium checks services (HTTP, ICMP) from several regions, opens and resolves
incidents from the results and alerts teams. Three Go programs share one
PostgreSQL/TimescaleDB database and one Redis: the API (`api/`), the scheduler
(`schedular/`) and one worker per region (`worker/`); a Next.js client
(`website/`) lets users sign up, form teams and set up monitors. This directory
models the parts whose steps interleave, checks them with TLC on small instances
and proves their central properties with TLAPS for every size.

Paths below are relative to the repository (`src/`).

## 1. The system

| Component | State it keeps | Operations | Interacts with |
|---|---|---|---|
| Scheduler (`schedular/scheduler.go`) | none in memory but running goroutines; `monitors.next_check`, `last_checked` | a loop every 1.1 s; per batch of 20 monitors one goroutine enqueues tasks, one moves `next_check` on | database, Redis queues, the API's writes of `interval`, regions, `next_check` |
| Worker: ping tasks (`worker/handler/monitor_ping.go`) | one transaction per task | ping, record, load open incident, write status, decide, write, commit, notify | scheduler (tasks carry a copy of the monitor), recorder, incidents, notification queue |
| Worker: ping recorder (`worker/handler/ping_recorder.go`) | channel of 4000, batch, waiting goroutines, all in memory | `Record`, `run`, `flush`, `flushOne` | handlers, `pings` table |
| Worker: notification dispatch (`worker/handler/notification_dispatch.go`) | none | load monitor and channel, send, fail for a retry | queue, third-party HTTP services |
| Incident API (`api/handler/incident/`) | `incidents`, `incident_monitors`, `event_timelines` | create, change status, edit, append event | the worker's writes of the same rows |
| Monitor API (`api/handler/monitor/`) | `monitors`, `monitor_regions`, `monitor_notifications` | create, update, delete, analytics | all of the above |
| Notification API (`api/handler/notification/`) | `notifications` | create, update, delete, test | dispatch |
| Teams and invitations (`api/handler/team*`, `invite_token`) | `teams`, `team_members`, `team_invites` | create/delete/leave/remove, invite/cancel/accept/reject | access checks of every handler |
| Accounts (`api/handler/auth`, `user`, `api/middleware/auth.go`) | `users`, `accounts`, `sessions` | register, resend, verify, log in and out, OAuth, revoke | mail, access checks, the client's redirects |
| Status pages (`api/handler/statuspage/`) | `status_pages`, groups, monitors | create, replace, delete, public view | incidents, analytics |
| Web client: form and list of monitors (`website/components/monitor`, `components/ui/multi-selector.tsx`, `lib/`) | form values, errors, the picker's selection, a ref with the ticked groups, requests under way | edit, tick, switch type, submit, time out, go to the list | monitor API |
| Web client: accounts, teams, navigation (`website/app`, `components/auth`, `components/sidebar`, `components/ui/sidebar.tsx`) | the page and what it waits for, the layout's teams, the session cookie, sidebar and sheet | sign up, log in, follow a mailed link, switch and create teams, toggle | accounts, teams |

What is hard here:

* **Concurrency without locks.** Each handler is one READ COMMITTED transaction
  that reads, decides and writes by id. Nothing but an uncommitted `UPDATE` of a
  row makes another wait.
* **Stale copies.** A ping task carries the monitor as the scheduler read it;
  `next_check` is computed from that copy; `UpdateMonitor` and the mailing of a new
  code write back columns they read; the client keeps teams, a ref and errors
  longer than what they were about.
* **Order.** A ping is recorded before the window that must contain it is read,
  and another goroutine stores it some time in between, before or after; alerts of
  a recovery and of its outage are tasks of their own; layout and page of the
  client are loaded side by side.
* **Failure.** asynq runs a task again after a crash or a missed deadline; work
  after the commit (alerts) is lost or must not be repeated; the recorder keeps
  what it cannot write; a mail is sent before its transaction commits; a client
  gives up after 15 seconds and the server does not hear of it.
* **Liveness.** A service that stays up must end with status `up` and without an
  open incident, an outage that lasts must be reported, recorded pings must drain,
  every region must be asked again and again, an enqueued alert must arrive, and a
  form must not stay disabled.

Correctness, per component: incidents - `resolved_at`, status and timeline agree,
alerts answer committed transitions, locks end with their transaction, detection
and recovery follow the thresholds; recorder - a ping is stored once, or lost
with the process; scheduler - a check is scheduled once and no region starves;
dispatch - an alert reaches every channel, again only after a fault; teams - one
owner, members only through accepted invitations, pending ones bounded; accounts -
a stored code was mailed, a session belongs to a user who was verified or whom a
provider vouched for; status pages - normalised order, elements of one page only; the form - what it accepts is
what it shows, its errors are current, its reports true; the pages - what they say of
mails, verification and teams was true.

## 2. Modules

| Module | Models | Kind |
|---|---|---|
| `IncidentThresholds` | window, failure count, detection and recovery conditions, the two queries on stored pings | pure operators |
| `Incidents` | ping task transaction, incident API, monitor status | state machine |
| `MCIncidents` | thresholds as functions, symmetry | TLC instance |
| `IncidentsProofs` | its types, five invariants, when timelines are in order, when an incident is the only one and resolved once, the operators | proofs |
| `PingLog` | what a recorder promises | abstract specification |
| `PingRecorder` | channel, waiting senders, batch, flush, faults | state machine, implements `PingLog` |
| `MCPingRecorder` | which ping is of which monitor | TLC instance |
| `PingRecorderProofs` | four theorems, refinement included | proofs |
| `Scheduler` | loop, two goroutines per batch, API writes, relative time | state machine |
| `MCScheduler` | the instance | TLC instance |
| `SchedulerProofs` | two theorems | proofs |
| `Alerts` | from a committed change to messages in channels: the producing loop, asynq's retries and leases, the dispatch handler, edits of channels | state machine |
| `AlertsProofs` | three properties and the types | proofs |
| `TeamMembership` | teams, members, invitations, every handler that writes them | state machine |
| `MCTeamMembership` | symmetry | TLC instance |
| `TeamMembershipProofs` | six theorems | proofs |
| `Accounts` | registration, login, resend, verification, a provider's callback and sessions of one address | state machine |
| `AccountsProofs` | what is stored and opened, when a verification lasts | proofs |
| `Sidebar` | column and sheet of the client's sidebar | state machine (actions only) |
| `WebSession` | one browser tab, extends `Accounts` and `Sidebar` | state machine, implements `Accounts` |
| `MCWebSession` | symmetry | TLC instance |
| `WebSessionProofs` | the refinement, types, what pages tell, switcher and sidebar | proofs |
| `MultiSelect` | the multi-select picker | state machine (actions only) |
| `StatusCodes` | the picker as the field of accepted status codes, extends `MultiSelect` | state machine |
| `NewMonitor` | the page that creates a monitor, its requests and the handler, extends `StatusCodes` | state machine, implements `StatusCodes` |
| `MCNewMonitor` | tables of status codes and regions, the sample TLC takes of them | TLC instance |
| `NewMonitorProofs` | the picker, the field, the page | proofs |

### `Incidents`

A transaction is one action per read whose result is used later and one action
for the commit, which installs its writes. `task[t].pc` follows
`HandleStartServiceTask` and `processIncident`:

| `pc` after the action | Action | Code |
|---|---|---|
| `queued` | `Enqueue` | `scheduleMonitors`: the payload copies `monitors.status` into `seen` |
| `recorded` | `RunPing` | `pingMonitor`, `PingRecorder.Record` |
| `loaded` | `LoadOpenIncident` | `GetOpenIncidentByMonitorID` |
| `ready` | `WriteStatus` | `UpdateMonitorStatus` if `seen` differs from the result; locks the row |
| `decided` | `Decide` | the reads of `handleIncidentFailure` / `handleIncidentRecovery` and their conditions |
| `committed` or `idle` | `CommitIncident` | the writes of the chosen plan, `CommitTransaction` |
| `idle` | `Notify` | `enqueueNotificationTasks` |

`Persist` is the recorder as the window sees it: it stores any buffered ping at
its place in time. `AbortIncident`, `FailCreate`, `MissDeadline` and `CrashWorker`
are the ways a transaction ends without its commit; `MissDeadline` and
`CrashWorker` put the task back into the queue, as asynq does. The API handlers
that read before they write are two actions with a `request` in between
(`CheckNoOpenIncident`/`CreateIncident`, `LoadMonitor`/`UpdateMonitor`); the
others are one.

Abstractions: pings are success or failure inside a window of bounded length
(`Horizon`, what a `LIMIT` can return); a message is its region and its cause;
`started_at` is a small set of instants because only `ORDER BY` reads it; of a
timeline only the last status event, the last message and the number of
`auto_resolved` events are kept.

*Last* is by `created_at`, as the code reads a timeline
(`repository/incident.go:193`, `:291`). A writer takes it before it waits for the
incident's row, so of two that overlap the one that commits last may have the
earlier one. `late[w]` is what was stored for the incident since writer `w` may have
taken its own `created_at`, and `StoreEvent` leaves open which of them comes last
(`Endings`). `CreateIncidentEvent` posts any type of event, those of a status
included, and leaves the status. The flag `disputed` remembers that a status
event was overtaken, or posted by hand, until one is written undisturbed. Writers
that do not overlap are taken to have clocks that agree on their order.

### `PingRecorder` and `PingLog`

`Record` never waits: a full channel makes the ping an `overflow` goroutine
(`flushOne`), which writes it alone or, failing that, waits in `senders` for room.
`Receive`, `Tick` and `Flush` are `run`. A flush answers in three ways: `Commits`,
`Fails` (nothing stored) and `FailsInDoubt` (stored, answer lost). A batch with a
ping of a deleted monitor or one already stored cannot be written (`Insertable`:
foreign and primary key). `PingLog` says the same with four actions - accept,
store any set of pending pings, lose all, delete a monitor - and no recorder.

### `Scheduler`

Time is relative: `wait[m]` is what is left until `next_check`, and a goroutine
that has read the clock keeps its `age`, so that a late write installs a
`next_check` that is already partly spent. A slot is one batch with its two
goroutines; `Slots` bounds how many run at once. `Loop` cuts the due monitors into
batches in any way that fits `BatchSize` (the code orders by `next_check`).
Nothing makes a loop wait for the goroutines
of the previous one. `picked` are the monitors a loop took and nobody has moved on,
`stalled` those whose update failed or died; `again` collects what was scheduled
again with neither reason, and must stay empty.

### `Alerts`

The changes of one monitor are numbered in the order of their commits. `producer`
is `enqueueNotificationTasks` after each of them: it reads the channels
(`ReadChannels`), enqueues one task per id and goes on when the queue refuses one
(`Enqueue`, `EnqueueFails`), or dies with the rest (`ProducerStops`). `handler` are
the dispatch handlers of all workers: `Dequeue`, `Fetch` (what was deleted is not an
error, so the task ends), `Send` or `SendFails` (with and without the message
having arrived), `Return`. asynq is modelled from how `worker.go` and the tasks use
it: an error, or a lease that ran out (`LeaseExpires`), puts the task back until it
was retried `MaxRetry` times; a handler without its lease may still send.
`SetChannels`, `DeleteNotification` and `DeleteMonitor` are the API's edits.
`faults`, `hurt` and `slow` are history: which task a fault hit, which channel was
not enqueued because of one, which change was not all told when the next came.

### `TeamMembership`

A request is a slot whose `op` is the handler and whose `pc` says which of its
reads it has made; every `SELECT` whose answer it keeps is an action, the writes
and the commit are one:

| `op` | Handler | Actions in order |
|---|---|---|
| `delete` | `DeleteTeam` | `BeginDeleteTeam`, `DeleteTeam` |
| `leave` | `LeaveTeam` | `BeginLeaveTeam`, `LeaveTeam` |
| `remove` | `RemoveMember` | `BeginRemoveMember`, `FindTarget`, `RemoveMember` |
| `invite` | `CreateInvite` | `BeginCreateInvite`, `FindNotMember`, `FindNonePending`, `CreateInvite` |
| `cancel` | `DeleteInvite` | `BeginDeleteInvite`, `FindPending`, `DeleteInvite` |
| `accept`, `reject` | `UpdateInvite` | `ReadInvite`, `CheckMember` (accept), `AcceptInvite` or `RejectInvite` |
| `token` | `GetInviteToken` | `ReadInvite`, `CheckMember`, `AcceptInvite` |

`AbandonRequest` is every refusal, error and rollback. Foreign keys and the unique
index on members are guards of the inserts; deleting a team cascades to what was
committed before. `left` records members whose row was deleted. Ids are used once:
the ids of deleted rows join `gone` and `expired`. `AskedRoles` are the roles
requests ask for and `normalizeInviteRole` filters. An invitation's three
timestamps are the set of those that are not null. Expiry may happen at any time.
Tokens, mails, the name of a team and a user's own existence are left out.

### `Accounts`

One email address, with any number of requests to it. A handler reads the user row
(`ReadUser`), decides from what it read, and may write the row, mail a link and
commit; between its write and its commit it holds the row (`Locked`), because the
mail is sent inside the transaction: `RegisterMails`/`RegisterCommits`,
`LoginMails`/`LoginCommits`, `ResendMails`/`ResendCommits`. Handlers that mail
nothing write and commit in one step (`RegisterVerified`, `LoginVerifies`,
`ResendVerifies`, `VerifyEmail`). `FailRequest` is an error or a rollback anywhere:
it undoes everything but a mail that was sent. `Restart` rolls back what is under
way and may change `SMTP_ENABLED`, so that users registered under one setting log in
under the other. `Handle` also has the callback of a provider (OAuth), which logs in
the user its account leads to, links the account to the user of the same address
(`OAuthLinks`, verified or not) or creates a user of its own (`OAuthCreates`);
`provider` is where the account leads, `vouched` are the sessions opened that way. The
exchange with the provider is its outcome only. A code is its number in the order of the mails, `1..expired` are
too old. `Authorized` is the middleware; `AnswerTeam` is a request to another part
of the API, which the middleware lets pass or not.

### `Sidebar` and `WebSession`

`WebSession` is one browser tab. `page` is what it shows, `entering` while the web
server puts a page under `/teams` together: `pending` are its requests (`LoadLayout`,
`LoadPage`), answered in any order, each of which may find the session gone
(`Unauthorized`) and redirect to the login with its own `next`. `Visit` starts from
nothing, `Move` keeps the layout, and with it `context` (the teams it loaded) and the
sidebar. `SubmitForm` and `TakeAnswer` are the forms and what they make of answers;
`Abort` is the client's time-out, after which the request goes on at the server and
its answer is `Dropped`. `FollowLink` leads through the API to `/verify/[result]`,
which counts down to the login, and `ReturnFromProvider` through the callback to the
page the flow was begun for, or to an error. `mailsBefore` remembers the mails sent
before the page asked for another, to hold its notice against. `Elsewhere` is what others do to the user's
memberships. `Sidebar` has the column's and the sheet's state and the one toggle for
both. Every step of `WebSession` is a step of `Accounts` or leaves it alone.

### `MultiSelect`, `StatusCodes` and `NewMonitor`

`MultiSelect` is the picker with the props its only user gives it: the selection in
its order, the open list, the search box, the badges that fit. `Picks` are the
actions that end in `onValueChange`, `Browses` the others. `StatusCodes` is the field
around it: `onValueChange` expands groups and filters out those of groups that the
ref holds and the selection does not. Picker, ref and codes live for different
times: with the open accordion, with the HTTP settings, with the type.
`acceptedStatus` is what the worker makes of the codes: every 2xx of an empty list.

`NewMonitor` is the page. An input's content is what the two validations make of it
(`bad`, `odd`: refused by the server only, `ok`); `switchMonitorType`, `EditInput`,
`ToggleRegion`, `SubmitRefused` and `SubmitSent` are the form's; `HandlerRefuses`,
`HandlerGoesOn` and `HandlerCreates` are `CreateMonitor` as one step, since it
commits or changes nothing and no two creations meet; `ReceiveCreated`,
`ReceiveRefused`, `ReceiveUnauthorized` and `Abort` are what `handleSubmit` makes of
the answer, on the form or after it was left; `fetchMonitors` and `MonitorsPage` are
the router's way to the list. Submissions can overlap, because the button "Create new
notifications" has no type and so submits. `MCNewMonitor` has the real tables of
codes, on which TLC evaluates the assumptions, and a sample of the map of regions.

## 3. What the runs check

Each run stays under five minutes with two workers.

| Run | Instance | Shows |
|---|---|---|
| `IncidentsApi` | 1 task, 1 two-step request, 1 API write, 1 change of health, 1 fault | `TypeOK`, `ResolvedIsStamped` and `StatusMatchesTimeline` with users changing incidents and monitors between any two steps of the worker, and a crash, an error or a missed deadline anywhere; no lock outlives its transaction (`LocksAreHeldInTransaction`); alerts answer committed transitions and none is repeated by a redelivery (`NoticesJustified`); `StatusRecovers` although `UpdateMonitor` may write a stale status |
| `IncidentsLive` | 2 tasks, failure threshold 3, recovery threshold 2, 2 changes of health, 6 incident ids | `OutageIsReported`, `IncidentsAutoResolve`; `DetectionNeedsFailures`: however the recorder and the window race, opening an incident takes threshold - 1 failed pings |
| `RecorderFaults` | 5 pings of 2 monitors, channel of 1, batches of 2, 2 faults of 4 kinds | `TypeOK`, `OnePlace`, `NeverDropped`, `ImplementsPingLog`, `Drained` |
| `SchedulerChecks` | 2 monitors, 1 region, batches of 1, 2 slots, 1 edit, 1 fault of 3 kinds | `TypeOK`; `PickedOnce`: a check is repeated only because a goroutine that is to move `next_check` on still runs or has failed; `AlwaysChecked` |
| `Alerts` | 2 channels, one of them hit by faults, 2 handlers, an outage and its recovery, 1 retry, 2 faults or a fault and an edit | `RepeatsAreExplained`, `OvertakingIsExplained`, `SilenceIsExplained`: each repeated, overtaking or missing message goes back to a fault of its own channel, or to a change that came while the one before was still being told; `AlertArrives`: in the end every task that was enqueued has ended, its message arrived unless it was tried too often or its channel or monitor is gone |
| `TeamRequests` | 2 users, 1 team, 3 invitations, 2 overlapping requests, `owner` and `admin` asked for | `TypeOK` (no row of a deleted team), `SingleOwner`, `StampMatchesStatus`, `PendingBounded`, `AcceptedMeansJoined`, `JoinsAreInvited` |
| `NewMonitor` | 1 code and its group, 2 inputs that tell the validations apart, 1 region, 2 submissions | `TypeOK`; `AcceptsOnlyShown`: what the worker would count as a success, every 2xx for an empty list, is what the picker shows; `DropsAreUnticked`: no change but a picker's first drops codes of a group it did not untick; `FieldErrorsAreCurrent`, `ReportIsTrue`, `ListShowsCreated`, `SpinnerEnds` |
| `WebSession` | 2 requests, 2 codes, 1 session, 2 teams, cooldown and countdown of 1 | `WebTypeOK`, `StoredCodeWasMailed`; `SessionIsEarned`: only a provider's callback opens a session of a user never verified; `PagesTellTheTruth`: pages under `/teams`, landings and the notice "resent" are backed by a session, a verification, a mail; `SwitcherTrails`, `SidebarStaysAsLeft` |

Why the bounds are enough: the races are between two transactions on one monitor
(or one incident, account or invitation), so two tasks (of two regions in
`FindTwoOpen`) or two requests contain them, and what meets a task of the worker
meets it in one task; an incident can be opened twice only by two tasks, so two ids
suffice for safety and six let an outage, a recovery and a second outage each open
duplicates; a channel of 1 with batches of 2 reaches every combination of full
channel, waiting sender, overflow and partial batch with five pings; two slots are
two overlapping loops; with three invitations two can be pending for one user while a
third is settled. Alerts of different channels share the loop that enqueues them and
the handlers: with two channels, faults that hit one of them (`Troubled`) show whether
the other notices, and with two faults a handler without lease can send beside the
retry of its task, or a task be put aside. In `NewMonitor` a group and a code of it show every way in which
selection, ref and codes can part; inputs are independent of each other, so that one
inside and one outside the accordion, one of them with an `odd` content, stand for
all (`Watched` names them); two submissions are an overlap. In `WebSession` a second
code makes the first one stale, and two teams are what a switcher can mix up.

Counters that would grow for ever are bounded in guards: `MaxChanges`,
`MaxBuffered`, `MaxEdits`, `MaxFaults`, `MaxUpsets` (faults and edits of `Alerts`
together), `MaxRetry` (asynq's own limit, made small),
`MaxSubmissions`, `MaxCodes`, `MaxSessions`, `MaxTeams` and the sets of ids and
slots. `WebSession` has two more bounds in its guards: `SessionsLeft` (mails, links and
restarts are followed up to the last session) and `AllIdle` (what is done under
`/teams`, but for the answers that arrive there, starts while no request is under
way, and so does the way back from the provider), because a request to the account
concerns none of those pages. Its two requests are interchangeable (`MCSymmetry`).

`CHECK_DEADLOCK FALSE` is set where the system of the instance really stops: when
its finitely many pings are written, when the bounded API writes have deleted
the only monitor, when every change was told, when every team and invitation id
has been used, and when the submissions are used up and the list is shown.
`SchedulerChecks` and `IncidentsLive` check deadlock.

### Fairness

* `Incidents`: strong fairness of each task's handler (asynq runs every task to
  its end; row locks are granted in turn, so a task that waits for a lock again
  and again gets it), strong fairness of enqueueing per monitor and region (the
  scheduler enqueues them on and on; the slots are a bound of the model), weak
  fairness of the recorder (its ticker). Users, faults and services owe nothing.
* `PingRecorder`: weak fairness of `run` (receive, tick, flush) and of each
  overflow goroutine. `select` chooses at random between a tick and a ping, so a
  ping cannot starve the tick; recorded pings are finitely many in an instance.
* `Scheduler`: weak fairness of time, the loop, both goroutines, the end of a
  request and the workers that take tasks.
* `Alerts`: weak fairness of the producing loop of each change and of each handler
  (goroutines are scheduled), and of some task being taken by some handler: asynq
  polls its queues for ever, and with finitely many tasks it need not be fair to each.
* `NewMonitor`: weak fairness of `Abort`: `setTimeout` fires. The server owes nothing.
* `TeamMembership`, `Accounts`, `WebSession`: none; nobody owes anyone an answer to an
  invitation, a click on a link, or an answer.

### Violations

Four runs end in a counterexample to something the repository says of itself.

| Run | Claim | What the code does |
|---|---|---|
| `FindTwoOpen` | one active incident per monitor, enforced by an index | no migration creates the index; two regions open two. `OneActiveWithoutOverlap` says when it holds |
| `FindPoisonBatch` | the recorder writes what it buffers | one ping of a deleted monitor blocks its batch, and every later one, for ever |
| `FindRefusedCreated` | a 400 is a failure of `CreateMonitor` | the 400 for a bad configuration is written and nil returned: the handler goes on and commits the monitor |
| `FindUnverified` | "Your email is verified" | a resend or a login that read the user before writes it back unverified. `VerifiedForGoodWithoutOverlap` says when it cannot |

Met while reading and left without a run:

* `agents/backend/monitoring.md` says detection counts the current ping and the
  history; the current one may be in the history already, and one failure then
  counts as two, as does one success for a recovery. `DetectionNeedsFailures` says
  what remains true.
* The same file says a recovery "Requires an open incident", but the incident
  resolved is the one read at the start and may have been resolved since, so it can
  be resolved and alerted for twice. `ResolvedOnceWithoutOverlap` says when not. It
  also says tasks are enqueued for each region of `APP_REGIONS`; the code enqueues
  for the monitor's own regions.
* `update_monitor.go:133` says it preserves the status; it writes back the status it read,
  over what a worker wrote meanwhile. `StatusRecovers` says the next pings repair it.
* An invitation is settled by id: of two requests that both read it pending the
  second settles it again, and an accepted invitation can end canceled although its
  member joined.
* `schedular/scheduler.go:131` says one task per monitor and region; since a loop
  does not wait for the previous one's `next_check`, a slow update lets it enqueue
  them again. `agents/backend/data.md:19` says the next check is
  `now + interval + jitter`; the interval is the one the loop read, which an update
  may have replaced, and there is no jitter. `schedular/scheduler.go:32` says every 2
  seconds; the constant is 1.1.
* The form sends the chosen channels as `notifications`
  (`website/lib/api/monitor.ts:109`), the handler reads `notification`
  (`api/handler/monitor/create_monitor.go:28`): a monitor created on the page has none.
* A status change and an automatic resolution take the `created_at` of their events
  (`update_incident_status.go:96`, `monitor_ping.go:316`) before they wait for the
  incident's row: the timeline may end with the event of the one that was overwritten.
  `POST` of an event takes the types of status events too
  (`create_incident_event.go:19`) and leaves the status. `TimelineMatchesWhenApart`
  says that nothing else parts the two.
* `website/components/monitor/new/http.tsx:458` says "Leave empty to accept whatever the
  endpoint returns"; the worker accepts every 2xx then (`core/monitor/http.go:145`).
  Ticking and unticking "All 2xx" while 200 is selected leaves the form with an empty
  list and the picker showing 200 (`http.tsx:423-446`): 204 would be a success. And a
  picker whose accordion was closed and opened again drops, with its first change, the
  codes of the groups ticked before, although it goes on showing them (`:386`).
* The form accepts URLs the server refuses (`website/lib/schemas/monitor.ts:92`,
  `models/monitorm/http.go:40`), one of the ways into `FindRefusedCreated`.
* The callback of a provider links its account to an unverified user of the same
  address and logs her in (`api/handler/auth/oauth_callback.go:132`, `:216`); nothing
  sets `verified`, and her password still gets a 403. It does not lock out a
  registration either: the two can leave two users with one address, after which
  `GetUserIDByEmail` (`repository/auth.go:88`) refuses every callback for it. The
  forms' buttons for Google have no handler (`login-form.tsx:142`,
  `signup-form.tsx:130`).
* `website/app/email-sent/page.tsx:54-57` says "Verification email resent" on any 200,
  also when the address was verified already or, without SMTP, is verified by that very
  request (`resend_verification.go:62`, `:76`). `PagesTellTheTruth` says that it is so
  in no other case.
* `website/components/sidebar/nav-user.tsx` offers "Log out" without a handler, and
  three links of `app-sidebar.tsx` lead to pages there are not.

## 4. What is proved

All theorems hold for every value of the constants that satisfies the modules'
named assumptions (`ConstantsAssumption`, `RecorderAssumption`, `SchedulerAssumption`,
`TeamsAssumption`, `AlertsAssumption`, `AccountsAssumption`, `WebAssumption`,
`MultiSelectAssumption`, `StatusCodesAssumption`, `NewMonitorAssumption`), and so for
any number of monitors, regions, tasks, requests, pings, codes, submissions and faults.

`IncidentsProofs` (specification `Spec`):

* `TypeCorrect`: `TypeOK` is inductive as it stands, because it also says what a
  task has read at each `pc` (a task that decided to resolve has an incident).
* `ResolvedAlwaysStamped`: each of the three writers sets both columns.
* `StatusAlwaysMatchesTimeline`: uses the types and `ResolvedIsStamped`. It excepts
  timelines in dispute; `TimelineMatchesWhenApart` has no exception, but supposes that
  no two writers of an incident overlap (`WritersApart`) and nobody posts an event by
  hand. Its invariant `InOrder` says that then nobody is late.
* `LocksAlwaysHeldInTransaction`: uses that only `WriteStatus` takes a lock and
  every way out of a transaction releases it.
* `NoticesAlwaysJustified` is not inductive: between commit and `Notify` a task
  *owes* an alert. The strengthening `AlertsInv` of that module counts the owing
  tasks: alerts sent plus alerts owed for opening an incident are at most one, and
  exactly zero for incidents users opened; alerts sent plus owed for recoveries are
  at most the `auto_resolved` events. Finite-set cardinality lemmas carry the steps.
* `DetectionAlwaysNeedsFailures` is not inductive either: a plan to open an incident
  rests on a window, and the window on what was stored, late or not. `DetectionInv`
  adds `Evidence`: of each monitor and region, the failures among the stored pings
  and those in the buffer are together at most the failures that happened, as long
  as the count has not reached the threshold. Failures are counted as sets of
  positions; a ping that is appended, taken or inserted maps the positions one to
  one but for its own (`AppendedLost`, `TakenLost`, `InsertedFails`), and a cut only
  loses some (`NewestFails`). `DetectedFails` turns a window with enough failures into
  enough stored ones, less the ping at hand, which may be stored already.
* `OneActiveWithoutOverlap`: `OneActiveIncident` is violated (`FindTwoOpen`), and this
  says for what reasons only. The hypotheses are about the behaviour: no two
  transactions about one monitor are under way at once (`NoOverlap`), and no step
  but a worker's commit opens or reopens an incident (`OnlyWorkersOpen`). Faults,
  redelivery, deletions and every other edit are allowed. The invariant `SingleInv`
  says that a transaction that read of no open incident is still right
  (`OpenAsRead`), and that it plans to open one only then (`CreatesUnseen`).
* `ResolvedOnceWithoutOverlap`, under the same hypotheses: a worker resolves an
  incident once and alerts of it once. `RecoveryInv` says that what a transaction has
  read as open was resolved by nobody since (`ResolvesFirst`), and that two with the
  same incident are about the same monitor (`SameMonitor`), even if it was deleted.
* The operators, for any thresholds and any length of the log: `OutageIsDetected`
  (as many failures in a row as the threshold open an incident) and `RecoveryHolds`
  (a single failure after a recovery opens none again, if recovery takes more
  successes than a window can lack failures; with fewer, the failures of before
  count once more). `HorizonKeepsDecisions` and `CutCommutesWithStoring` justify an
  abstraction: keeping the `Horizon` newest pings, and storing late ones among
  them, is the same to every query as keeping the whole log.

`PingRecorderProofs`: `RecorderTypes`, then `PingsInOnePlace` (inductive with the
types; every action moves one ping or a whole batch), `PingsNeverDropped` (an
action property from the types) and `RecorderImplementsPingLog`: the initial state
maps to the initial state, `Record` to `Accept`, a commit to `Store` (or a stutter
for an empty set), `Crash` to `Lose`, deletion to deletion, everything else to a
stutter. `pending` is mapped to the pings held of live monitors and not stored.

`SchedulerProofs`: `SchedulerTypes`, and `ChecksScheduledOnce` without any condition
on faults, edits or on how slow goroutines are. Its invariant `Covered` says that
every monitor picked and not yet moved on is in the rows of a running goroutine or
among the stalled; what a loop picks twice is therefore always one of those.

`AlertsProofs`: a message is sent by an attempt of its task, and attempts are what
there is to count. `AlertsInv` says that the messages sent and the handlers still
sending are together no more than the attempts begun (`Counted`), that a task was
retried no more often than faults hit it, that no task is worked on under two leases
(`OneLease`), and what a handler without its lease, or with an error, goes back to.
`RepeatsAlwaysExplained` follows from it. `OvertakingAlwaysExplained` is inductive with
it: a handler that sends an older change after a newer one either holds a task that was
not settled when the newer one was committed, or lost its lease. `SilenceAlwaysExplained`
comes from `ChangeInv`: a channel found is still to be enqueued, has its task, or a fault
of its own. None of them rests on `Troubled` or `MaxUpsets`, and so they hold for
faults that hit every channel.

`TeamMembershipProofs`: `RowSteps` says what a step can do to the rows, so that
each invariant is shown for the six writing actions only. `TeamTypes` is inductive:
inserts look for their team and a deletion takes every row along.
`AlwaysSingleOwner` needs `OffersNoOwner` (no invitation offers that role) and
`StampAlwaysMatchesStatus` goes with it. `AcceptedAlwaysJoined` and
`JoinsAlwaysInvited` need what requests remember to stay true while others run:
`Linked` (the id a request read was used and never names another invitation) and
`Skipped` (a request that will not insert a member found one, who is a member
still, has left, or was of a team that is gone). `PendingAlwaysBounded` counts:
pending invitations of a user plus requests about to insert one never exceed the
number of requests, because a request becomes ready only when nothing is pending.

`AccountsProofs`: `StoredCodeAlwaysMailed` and `SessionAlwaysEarned` need `Honest`: what
a request remembers stays true while others run (a code it writes was mailed, a user
it saw verified was verified once, a session it hands out was opened for one, or by the
callback).
`VerifiedForGoodWithoutOverlap` is the other side of `FindUnverified`: if no two
handlers have the row at hand at once (`OneAtATime`), a verification lasts, because a
handler then finds the row as it read it (`RowAsRead`).

`WebSessionProofs`: `WebImplementsAccounts` shows that each step of the tab is a step
of `AccountsNext` or changes no account variable, so that the theorems of
`AccountsProofs` hold of it, the conditional one included (`TabCannotUpsetAccounts`).
`PagesAlwaysTellTheTruth` adds where the tab comes from (`WebInv`): past the layout it
has a session; a team is created, and an address registered, from its own form only; and
a resend that has mailed did so after the page asked (`OwnForm`). A page under `/teams`
therefore rests on a session, and that on a verification or a provider. `TabStep` says in a few lines what any step does to page,
layout and requests, and the rest is shown of it: `WebTypesAlwaysHold` and
`SwitcherAlwaysTrails` with the invariant `TabInv`. The types alone are not inductive:
an answer may carry a team or a session that does not exist (`AnswersFit` excludes it).
The switcher is right because the layout's teams are the user's but for those changed
since (`ContextTrails`), and a page past its own answer is of one of hers or of a
changed one (`PageTrails`). `SidebarAlwaysStaysAsLeft` is an action property from the
types: what moves the tab without leaving the layout does not touch the sidebar, and
a toggle changes what is shown (`UseTogglesShown`).

`NewMonitorProofs`, in the order of the modules: lemmas on the picker's sequences
(mounting, ticking, removing, cutting keep it free of repetition);
`PicksAlwaysAnnounced`; `AcceptsShownCodes` with `StatusInv` (the codes are shown ones, and there are
some while a group is ticked); `DropsAlwaysUnticked` with `RefFollows` (after a
reported change the ref holds the groups of the selection); `PageImplementsStatus`, by
which both hold of the page (`PageAcceptsShownCodes`, `DropsUntickedOnPage`);
and `PageInv` with three strengthenings: `AnswersAreTrue` (an
answer on its way says what the handler did) for `ReportAlwaysTrue`, `ErrorsAreCurrent`
(also of errors a closed accordion hides) for `FieldErrorsAlwaysCurrent`, and
`ReadHasReported` (from the moment the list was read until a new report it has what was
reported) for `ListAlwaysShowsCreated`.

Every invariant and every action property of the passing runs is stated by a theorem.
Only model-checked are the liveness properties (`OutageIsReported`,
`IncidentsAutoResolve`, `StatusRecovers`, `Drained`, `AlwaysChecked`, `AlertArrives`,
`SpinnerEnds`), since fairness and `ENABLED` are beyond the prover. Two of the claims
that fail have a theorem that says when they hold; `EveryPingWritten` is a liveness
property, and `RefusedIsNotCreated` fails whenever the server alone finds a fault.

## 5. What is not modelled, and the plan

Not modelled:

* message layout and senders (text and HTTP), HTTP and ICMP checks (their outcome is
  chosen), configuration, hashing, tokens, routing, generated documentation,
  TimescaleDB's aggregation and retention: no state whose order matters, or external;
* the exchange with an OAuth provider, its tokens and state, passwords and the profile:
  they touch neither the code nor `verified`; status pages and analytics;
* of the form: which channels are ticked (the server reads
  them under another name, see above), the text of errors, the names under
  which the server's errors are set (no field has them), and the search of the list
  beyond which options a text finds; of the list: everything but target and identity;
* of the map of regions all but five rows, which show that labels are not unique: the
  rest is data;
* of the tab: Back and Forward, a second tab, clicks while a page is being put
  together, the cookie of the sidebar (written, never read), the user's name and
  picture; the component library's wrappers and the template's start page.

Next, in this order:

1. `MonitoringPipeline`: `Scheduler`, `PingRecorder` and `Incidents` composed on
   one monitor: what `Enqueue` and `Persist` assume of the other two, as a
   refinement; and `Alerts` behind it, whose `Change` is a commit of `Incidents`.
2. `StatusPage` and analytics: normalisation, validation and uptime as pure
   functions against a reference definition.
3. The channels of a new monitor, once both sides agree on the name of their field.
4. Proofs: the refinement of 1.
