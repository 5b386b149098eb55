# A TLA+ model of ServeFlow

ServeFlow schedules the volunteers of churches: leaders create services and the
roles they need, a solver picks volunteers, volunteers confirm or decline, and
on the day equipment, tasks and attendance are tracked live. The API is a NestJS
process (`src/apps/api`) over one PostgreSQL database; the web client (`src/apps/web`) calls it over HTTP and listens to a socket.

The code has almost no locks and no unique constraints on the rows that matter.
Each repository method is one database transaction, and each handler is a
sequence of such calls with an `await` between them. Unit tests run one
handler at a time against a mocked database, so what happens when two handlers
interleave, or when one stops half way, is what this project models, and what a
browser tab makes of answers that are late, lost or refused.

Contents: [components](#1-components), [plan](#2-plan), [what the modules
say](#3-the-modules), [runs](#4-what-tlc-checks), [proofs](#5-what-is-proved),
[limits](#6-what-is-not-modelled-and-not-proved).

## 1. Components

Paths are relative to `src/apps/api/src/` unless they start with `web/` or
`packages/`.

| Component | State it keeps | Operations that change it | Talks to |
|---|---|---|---|
| Scheduling, `modules/scheduling` | `schedule_runs` (RUNNING, COMPLETED, coverage, gaps), `assignments` (source, confirmed_at, declined_at) | generate, confirm, decline (finds a replacement), override | reads services, roles, volunteers, availability; notifies; emits `coverage.changed` |
| Tenant database, `database/` | pg pool, the session of each connection (transaction, `app.current_church_id`) | `runInTenantContext`, `query` | every repository |
| Services, `modules/services`; `modules/recurrence` | `services` | create, update, cancel (cascades), copy by recurrence rule | scheduling, attendance, checklists |
| Service roles | `service_roles`, `service_role_skills` | create, update, add a required skill | scheduling |
| Volunteers, skills | `volunteer_profiles`, `volunteer_skills` | invite (find or create user, profile, membership), status, skills | scheduling, auth |
| Availability | `availability` rows, several per day possible | submit, update | scheduling |
| Dashboard | none | none: reads runs and assignments | scheduling |
| Equipment | `equipment` (status), `equipment_reservations` (checked_out_at, checked_in_at), `fault_reports` | reserve, check out, check in, set status, report and resolve a fault | emits `equipment.fault_reported` |
| Tasks | `tasks` (status, completed_at, dependencies) | create, set status, add photo | emits `task.updated` |
| Realtime gateway and live pages, `modules/realtime`, `web/app/services/[id]` | socket rooms; what each page shows | join, emit; load, merge an event, set a status | tasks, attendance, scheduling |
| Attendance, reliability | `attendance`, `check_ins`; `reliability_score` of profiles | check in, recompute the scores | emits `checkin.recorded`; scheduling reads the score |
| Auth | `users`, `churches`, `refresh_tokens` | register, log in, refresh, log out | memberships |
| Memberships, permissions | `memberships`, ministries' leaders | assign, find or create | every guard |
| Messaging, notifications | `messages`, `notifications` (sent_at) | send, notify by e-mail | scheduling, an e-mail provider |
| Checklists | `checklist_templates`, `checklist_instances` (JSON completion) | add an item, instantiate, complete an item | services |
| Ministries, teams, campuses, churches | one row each | create, update | none |
| Analytics, assistant, calendar | none | none: reports | reads the rest |
| Observability, filters, pipes, health | none | none | all |
| Web client, `web/lib`, `web/app` | a session (React state and `sessionStorage`), what each page shows | sign in and out, navigate, submit a form, load | API |

What makes each of them correct, and where it is hard:

* **Scheduling.** Nobody is placed twice on a day or twice in a service;
  coverage and gaps describe the rows a run made; a role is not overfilled; a
  run ends. Hard because the check (`resolveCandidates`) and the insert it
  justifies are separate transactions, a decline re-solves a role of a finished
  run, services are cancelled under a solve, and any step may fail.
* **Tenant database.** A call's statements run in its own transaction with its
  own church set, what it reads is not taken back, its writes are
  all-or-nothing, clients return to the pool. Hard because transaction and
  setting belong to a shared connection, and every statement, ROLLBACK and
  COMMIT included, may reject.
* **Equipment.** The status agrees with the reservations. Hard because checkout
  and checkin are two transactions and the status can be edited in between.
* **Tasks and live pages.** A page shows what the database holds once things
  are quiet. Hard because events are emitted after commit, in any order, are
  lost while a socket is away, and race with loads.
* **Services and attendance.** What is recorded of a service agrees with the
  service: lateness with its start, no-shows with its roster, copies with its
  rule. Hard because calls read the service before they write, services move and
  disappear under them, and a schedule may be generated again.
* **Availability, roles, reports.** Who can serve is drawn from five tables that
  anybody edits at any time, a solver reads its candidates and then each one's
  history and skills in transactions of their own, and four modules draw figures
  from the same tables, each with a query of its own.
* **Auth, memberships, volunteers.** Registration and invitation leave complete
  accounts, one profile per user; a token rotates once. Hard because they are
  sequences of writes in separate transactions, found before they are created.
* **Messaging.** A success means everybody was told. Hard because a failure half
  way answers 500 after the message is stored, while other e-mails still go out,
  and users retry; and because a mail can be refused without an exception.
* **Web client.** A page shows what its user did, and says so when it cannot.
  Hard because requests have no timeout, answers come in any order and outlive
  the page that asked.
* **Pure functions** (reliability score, candidate scores, recurrence, lookup of
  permissions). Boundaries: the prior below five points, clamps, caps.

`PROJECT.json` lists these hazards one by one at the line where each bites.

## 2. Plan

All of the following are built, in this order; a component's place in the list
is how much depends on it.

1. `Scheduling`: generate and decline step by step.
2. `TenantTx`, the abstract promise of a repository call (atomic, answered or
   failed), and `TenantDb`, the pool and connections that implement it. It is
   what justifies modelling each repository call as one action elsewhere.
3. `LiveTasks`: task rows, the gateway's room (ordered per socket, lossy when
   away) and a live page with loads in flight.
4. `Equipment`: checkout and checkin against status edits and each other.
5. `Onboarding`: registration, sessions, invitations and ministry assignments
   with failures between writes.
6. `ServiceDay`: services, their copies, check-in, scores and checklists.
7. `Roster`: availability, skills, roles, candidates, scores and reports.
8. `WebClient`, a browser tab, and `Messaging`, an API call that notifies many;
   `WebMessaging` composes them.

Each module `M` has an instance `MCM` for TLC and a module of proofs `MProofs`;
`WebMessaging`'s stand for the last three, `TenantDb`'s for `TenantTx` as well.

What would come next: what a task's row holds; the certifications, teams and
maintenance records, each single writes that nothing reads yet.

## 3. The modules

### Scheduling

Tables are functions whose domain is the set of existing ids; a run's id is the
request that made it. A `Request` is one multi-step call, with its position
(`pc`) and local variables (`loc`). Between two of its steps anything else may
happen.

| Code | Action |
|---|---|
| `schedulingService.generate`: read roles | `Generate` |
| `createRun` | `CreateRun`, `CreateRunThrows` (service cancelled meanwhile) |
| `resolveCandidates`, choosing the winners | `Resolve`, `ResolveNone` |
| `createAssignment` in the loop | `Insert`, `InsertThrows` |
| `completeRun` | `CompleteRun`, `CompleteRunThrows` |
| controller `decline`: find and mark | `Decline` |
| `handleDecline`: role and service, placed volunteers | `ListTaken`, `ListTakenGone` |
| `handleDecline`: candidates | `FindReplacement`, `FindReplacementNone` |
| `createAssignment`, then `notifyByEmail` | `Place`, `PlaceThrows`, `Notify` |
| any transaction fails, or the process stops | `Abort` |
| `confirm`, `override`, service `cancel`, profile status, availability | one action each |

Scores only order candidates, by data the model leaves out, so the winners are
*any* subset of the size the code computes. `met` is a history variable: the
calls that were in flight together.

Likewise roles are solved in any order: the code's order is that of their names,
which leaders choose.

### TenantTx and TenantDb

`TenantDb` runs `runInTenantContext` statement by statement: connect, BEGIN,
`set_config('app.current_church_id', ..., true)`, the callback's statements,
COMMIT or ROLLBACK, release in `finally`. The pool and the server are external
and modelled from how the code uses them: a queue of waiting `connect()`s, idle
and closed clients, one session per connection with its transaction and setting.
A statement may be refused, a connection may be lost at any point, also after
COMMIT took effect and before its answer.

A statement sees (`Visible`) what is committed and what its own session has
written, whatever church that is of. The policies of the schema filter nothing
in the setup the repository has: its one role (`docker-compose.yml:7`) owns the
tables and is a superuser, row level security is not forced, and no other role
is created, although `sandbox-init.sql:122` speaks of one. Which rows a
repository's statement asks for is in its WHERE clause, which the module leaves
out; so it says nothing of what one church sees of another. What it does say is
that the setting is right, where a statement runs (`OwnContext`), and that
reading is not disturbed by calls that broke on the same client (`ReadsStand`).

`TenantTx` is the promise: a call writes, applies everything at once or nothing,
and answers. `TenantDb` refines it with `answer` mapped to the outcome in `pc`
(`AllOrNothing == Tx!Spec`). `Scheduling`'s actions are `TenantTx`'s `Apply`
followed by the return, or (`Abort`) a `Throw`. A `Throw` after an `Apply` (the
lost COMMIT answer) is an `Abort` right after a step that wrote.

### LiveTasks

A task's row is its revision, the number of writes so far: all a page can be is
up to date with a row or behind it, and `task.updated` carries the whole row.

| Code | Action |
|---|---|
| `TasksController.updateStatus`: `assertTaskExists` | `Patch` |
| `tasks.updateStatus` | `Update`, `UpdateGone` (null: the service was cancelled meanwhile) |
| `emitTaskUpdated`, and the return | `Emit` |
| the answer reaches the page, which calls `load()` | `Answer` |
| a failed transaction, a stopped process, a lost answer | `Abort` |
| `create`, `addPhoto`, service `cancel` | `Create`, `AddPhoto`, `Cancel`: nobody is told |
| `handleConnection`, `handleJoin` | `Connect`, `ConnectRefused`, `Join`, `JoinRefused` |
| a broken connection: it connects and joins again, without a load | `Drop` |
| the page's `task.updated` handler | `Deliver`, `DeliverNull` |
| the page's `checkin.recorded` handler | `CheckinRecorded` |
| `load()`: the tasks call, all answers, one failing | `ReadTasks`, `ShowTasks`, `LoadFails` |

The emit is after the transaction and races with other requests' emits; the
events to one socket stay in order; a load's answer is in no order with either.
`synced` is a history variable: the page was level with the table once and has
since missed nothing. Every way the code lets it miss something clears it, and
each of them is an action: a broken connection, a load older than what is
shown, a failure between commit and emit, an emit after that of a later commit,
a task created or a photo added. `LevelWhenQuiet` says there is no other way.

### Equipment

Checking out and checking in are each a `Request` with two writes.

| Code | Action |
|---|---|
| `reserve` | `Reserve` |
| `checkOut`, `checkIn`: `assertExists` | `Arrive` |
| `reservations.checkOut`, `reservations.checkIn` | `Stamp`; no row: `NotFound` |
| `equipment.updateStatus` | `SetStatus` |
| a transaction fails, or the process stops | `Abort` |
| PATCH status | `UpdateStatus` |

The code looks at neither the status nor other reservations before it writes.
Whether an item is out is what its page shows: a reservation with a check-out
stamp and no check-in stamp. `disturbed` is a history variable: something
happened that may set status and reservations apart, and no call or edit has
ended since with both in agreement. `StatusFitsUse` lists those causes, two of
which need no concurrency: an item that is out with two reservations becomes
AVAILABLE when the first comes back, and a returned reservation that is checked
out again is IN_USE while its page says "Returned".

### Onboarding

Registration, login, refresh, invitation and assignment are each a `Request`;
logout and creating a ministry are one write. The tables are keyed by what
names a row: `users` and `profiles` by the address, which both unique
constraints amount to, the others by the request that inserted the row.

| Code | Action |
|---|---|
| `AuthController.register`, then `registerUser`: lookup, insert | `Register`, `FindEmail`, `InsertUser` |
| `churches.create`, `campuses.create`, `createChurchAdmin` | `InsertChurch`, `InsertCampus`, `InsertAdmin` |
| `login`: `verifyCredentials` | `Login`, `Verify` |
| `issueSession`: memberships, then the refresh token | `LoadMemberships`, `InsertToken` |
| `refresh`: `findValid`, `revoke` | `Refresh`, `FindValid`, `Revoke` |
| `logout` | `Logout` |
| `PermissionGuard` | the guard `Permitted` of the next three |
| `ministries.create` | `CreateMinistry` |
| `inviteVolunteer`: the user, outside the transaction | `Invite`, `FindUser`, `InsertInvited` |
| its transaction: profile, membership, COMMIT | `FindProfile`, `InsertProfile`, `FindMembership`, `Commit` |
| `addVolunteer`: ministry, volunteer | `Assign`, `FindMinistry`, `FindVolunteer` |
| `assignVolunteerToMinistry`: lookup, insert | `SelectMembership`, `StoreMembership` |
| a statement fails, or the process stops | `Abort` |

Here a transaction is not one action, since what matters is which other
transactions commit between its statements: each reads what is committed (READ
COMMITTED), its own writes appear at `Commit`, and a second insert of one
user's profile waits for the first transaction to end and then fails, or, if
that one was rolled back, goes on. `unique (user_id, church_id, campus_id,
ministry_id, role)` refuses nothing, because campus or ministry is null in
every row the code inserts; `on conflict do nothing` therefore never fires.

The lookup of a user's memberships across churches
(`memberships.repository.ts:31`) is made without a church set and finds them all,
as the policies do not apply to the role that makes it (see `TenantDb`).

`met` is a history variable: a call that looked a membership or a token up while
another was about to insert or revoke it.

### ServiceDay

A call finds what its path names in one transaction and writes in a later one;
other calls run between the two. What is not found is a 404 or 400 that changes
nothing, so it is no step. Ids are positions in sequences, and a cancelled
service keeps its position and is not live, so that what referred to it can be
told from what did not.

| Code | Action |
|---|---|
| `services.create`, `update`, `cancel` | `Create`, `Update`, `Cancel` |
| `generateRecurring`: read the template; `expand` and `createShiftedCopies` | `GenerateRecurring`; `CreateShiftedCopies` |
| what `Scheduling` does, as far as it is read here | `Assign`, `CompleteRun`, `Decline` |
| `AttendanceController.checkIn`: find; select the row; insert or upsert | `FindForCheckIn`; `SelectAttendance`; `RecordCheckIn`, `CheckInThrows` |
| `recomputeForChurch`: the counts; the updates | `CountForScores`; `UpdateScores` |
| checklists: `instantiate`, `completeItem` | `FindForInstance`, `Instantiate`; `FindInstance`, `CompleteItem` |
| the clock | `Tick` |

Operators translate the queries and pure functions: `Roster`, `Attended`,
`NoShows`, `Declines`, `ReliabilityScore`, `Occurrences`. `checked_in_at` is the
time the transaction began, `is_late` compares a clock read later with a start
read earlier: `unsettled` is a history variable, the check-ins for which one of
the two moved in between or the service moved since.

Two things the queries do, which the properties take into account: the counts
run over the rows of *every* completed run of the last year while the roster is
that of the latest one, and declines count whatever their date and run, although
`reliability.types.ts:10` speaks of the "trailing 12 months".

### Roster

One transaction per action, but for `addSkillToVolunteer` and
`addRequiredSkill`, which look for a skill's name and insert it in two
statements (`SelectSkill`, `StoreSkill`, `SkillThrows`). Availability and
assignments are bags: nothing keeps two rows from being alike.

A call that staffs roles goes step by step through its own data (`solve`, and
`rank` for the role at hand), because every read of it is a transaction and
anything may be written in between:

| Code | Action |
|---|---|
| `generateSchedule`: roles, `createRun` | `Generate` |
| `handleDecline`: the mark, `listAssignmentsForRun` | `Decline`, `ListTaken` |
| `resolveCandidates`, the number of places | `Resolve` (`Candidates`, `Slots`) |
| `scoreCandidates`: three rounds of a read per candidate | `Score` (`ReadLoad`, `ReadTired`, `ReadSkill`) |
| `createAssignment` of `scored[0]`, `scored[1]`, ... | `Place` |
| `completeRun`, or the end of a decline | `Finish` |
| a statement fails | `SolveThrows` |
| `overrideAssignment` | `Override` |

`Scheduling` has the same handlers with their counts, notifications and
cancellations, and leaves the choice open; `Roster` has the choice. Candidates
are resolved once for a role and are not looked up again between its places,
and what was read of them is not read again.

The rest are operators, one per query or function that reads: `Candidates` with
its parts, `Trailing`, `SkillMatch`, `Preference`, `Balance`, `Fatigue` and
`FinalScore` (`scheduling/`), `BurntOut` (`analytics/`), `Idle`, `Replacements`,
`Untrained` and `Shortages` (`assistant/`), `Upcoming` and `AvailabilityPct`
(`dashboard/`). A score is compared, never shown, so its fractions are kept exact
by multiplying through: by the denominator of the skill match, and by `Busiest`,
what the busiest candidate served. Ties are taken in any order. What the
dashboard shows in percent is rounded as it rounds it.

### WebClient, Messaging, WebMessaging

A page is reduced to what its component does with answers (`PageOf`): whether it
redirects without a session, loads, shows nothing before its data came
(`held`), reloads on a socket event, takes the row out of a task's event
(`merges`), and for each handler (`Form`) whether it
clears the error line, raises a busy flag, catches, and what it reloads. What
the church's rows say is a version number, raised by every write. A load is the
`Promise.all` of the page's GETs; its version is that of the oldest, and one
failing fails it.

| Code | Action |
|---|---|
| `AuthProvider`: restore, login, register, logout | `Restore`, `SubmitSignIn`, `SignedIn`, `SignInFails`, `Logout` |
| links, F5, the pages' redirect | `Open`, `Refresh`, `Redirect` |
| `load()`: read by the server, shown, failed | `ReadLoad`, `ShowLoad`, `LoadFails` |
| the calendar's cursor; socket events that reload | `MoveCursor`; `LiveEvent` |
| `task.updated`: the event's row replaces the page's | `MergeTask` |
| a handler: its request, the write, the answer | `Submit`, `Written`, `WriteAnswered`, `WriteFails` |
| other clients | `OtherWrite` |

An event may be behind the page: it is emitted after its own transaction, in no
order with the page's loads (`LiveTasks` has what puts it there). So `MergeTask`
may take any older version, also one older than the user's own last write; an
event as new as the page changes nothing that a version tells.

`Messaging` is the API's side of sending: `Arrive`, `Store`, `Announce`, then
for each member at once `CreateRow`, `Mail` or `NotMailed`, `MarkSent`. The
e-mail channel looks at no answer of its provider: `Mail` is every call that
does not throw, and the provider may have taken the mail or not (`accepted`);
only a call that throws, a missing address or a missing key is `NotMailed`. Any
query may fail (`Break`, `Throw`); `Promise.all` returns when all have, and rejects
with the first while the others run on. `WebMessaging` joins the two: a request
arrives, is stored and answered in one step of both sides; it may be lost before
it arrives, or its answer may be.

## 4. What TLC checks

| Run | Instance | Shows |
|---|---|---|
| `scheduling` | 3 requests, 3 volunteers, 2 services of a day, 3 roles, one service cancellable; symmetric requests | type correctness; double bookings and double roles come only from calls in flight together; coverage and gaps are exact; overfilling needs repeated declines; no orphans after a cancellation; a decliner never replaces themself in that call |
| `scheduling_manual` | 2 requests, 2 volunteers, 2 roles, with status and availability edits, confirmations, overrides, a cancellation; weak fairness | every run ends and every call is answered |
| `double_booking` | 2 requests | violated: constraint 5 of `candidates.repository.ts` |
| `gap_hidden` | generate twice, then decline | violated: a gap is "visible on the dashboard" |
| `tenant_db` | 2 scoped calls of two churches, 1 unscoped, 2 clients, up to 2 statements and 2 lost connections; weak fairness | statements run in their own call's transaction and church setting; nothing that is read is taken back; no leaked or shared client; all-or-nothing (refinement); a throw wrote nothing unless a connection was lost; every call ends |
| `live_tasks` | 1 page, 2 tasks, 2 services, 2 requests, one reload, one broken connection, photos, a cancellation; weak fairness | a synced page is level when nothing is on its way, and comes to show every change; the load after its own change shows it; it breaks down only by a cancellation under an update |
| `null_event` | 1 request, one cancellation | violated: `task.updated` carries a task |
| `equipment` | 2 items, 2 reservations, 3 calls, edits of one item; symmetric calls and reservations | a status that contradicts the reservations has one of six causes |
| `onboarding` | 4 calls, 2 addresses, 1 ministry, failures and logouts; symmetric calls and addresses | a church without an administrator has nobody in it; a profile has one church-wide membership; ministry memberships and refreshes double only by overlap; an empty session needs an interrupted registration |
| `service_day` | 2 calls, 2 volunteers, 2 items, 3 services, 2 runs, 1 checklist, 4 rows and calls in all; symmetric volunteers, items and calls | `is_late` fits the service unless it moved; a no-show who is not on the roster needs a second solve; services of a series start together only if generated twice or moved; completed items stay; the score is fair at its boundaries |
| `roster` | 2 volunteers, 2 roles of 2 places, 2 services ten days apart, 2 calls, 2 runs, 1 skill, 2 levels, 3 rows of availability, 4 rows and calls else; symmetric volunteers, roles, calls and runs | figures of three modules agree; the solver does not prefer who has served more to an equal, at any place of a role; no deadlock |
| `web_messaging` | 2 requests, 2 members, 3 told together, 3 versions, a page of each kind; symmetric requests and members | a quiet page shows its user's last write unless a load failed or something older came last; only the three detail pages fail in silence; a message is doubled only after an error; a success means every member has a row, and `sent_at` if the mail was taken |

**Bounds.** Role `r1` requires nobody but allows one, `r2` requires two but
allows one, `r3` requires and allows two, so every branch of the fill
expression is met. Three requests are the fewest in which two declines and a
generate, or two generates and a decline, overlap; a double booking needs two
services of one day, so the day is a single one, and `DateOf` can only separate
them. In `tenant_db` a client must be reused by another church and two calls
must wait for one client: two clients and three calls do both once one client
is busy. The code's pool holds ten; with more clients fewer calls wait. Two
lost connections let a call lose its connection and the next one too.

In `live_tasks` a page meets other pages only through the tables and events, so
one page and requests from `Elsewhere` stand for all. Two requests overtake each
other at the emit. The page shows the first task; the second belongs to the
other service and is created later. A reload named `Refresh` races with
the first load and with those of the page's own calls. `MaxRevision` bounds only
photos, `MaxDrops` broken connections.

In `equipment` three calls take an item out with both reservations and bring
one back, or let two calls overlap and a third repair the status; the second
item is the one a call names by mistake.

In `onboarding` one call has to be a registration before anything else can
happen in its church, so four calls leave three that interleave: two
invitations of one address and an assignment, or a volunteer invited by one
call and assigned twice by two others, or two refreshes and a logout of the
first session. Two addresses let one person administer and another volunteer.
That a user is invited to two churches needs two registrations and two
invitations, which are four calls as well. `Ministry` bounds only how many
there are.

In `service_day` two calls are what a race needs, and the two volunteers tell a
roster's from another's row. Three services are a template and two copies, or
copies made twice; `Year` 2, `MaxCount` 2 and `MinPoints` 2 stand for 365 days,
26 copies and 5 data points, so that the ends of the count and of the prior are
met. No history is longer than a `Year`: rows do not leave the counts by age
here, and the year's end cuts no copies off. `ScoreIsFair` meets every
count of two assignments. `FewRows` bounds the tables together: a property is
about a few rows of some tables, not many rows of all.

In `roster` the services are ten days apart, so the first is within eight weeks
of the second but not within one, and the clock shows the first's day and the
day after the second. `MaxOffers` and `MaxRows` bound the tables together. The
case that matters takes a role that one of two available volunteers was placed
in by a run that broke off or completed, and a second run that ranks both:
three rows of availability, two runs, a row and a call. `UNAVAILABLE` rows,
skills and edited profiles are weighed more than once, as few of them are
needed. A role has two places, so a call that finds two candidates fills both,
one after the other, with anything in between.

In `web_messaging` a page's effect, its form and the reload after it need two
requests at a time. `Visited` has one page of each kind; the others differ in
nothing the model has. Three versions are one to load and two writes that
overtake each other. Two members let one notification fail while another goes
on; the two calls together read three (`MaxTold`), so that one call has both
while another has one.

Requests are bounded in the first five modules, so a finished instance has no
successor: these runs do not look for deadlock, and `EveryCallIsAnswered`,
`EveryRunEnds` and `EveryCallEnds` say instead that nobody is stuck; the run
of a call that failed stays RUNNING for good, which `EveryRunEnds` accepts. In
`service_day` and `web_messaging` the bounds of the tables and of `MaxVersion`
stop the last writes. `roster` looks for deadlock.

The type invariants of `TenantDb`, `LiveTasks` and `Equipment` are in the proofs
only; no run repeats them.

**Fairness.** Weak fairness of a request's own steps: once a query has an
answer, Node's event loop runs the continuation. Weak fairness of `CallStep` in
`TenantDb`: the pool serves its queue, the server answers. In `LiveTasks`, `RequestStep` for the same
reason and `Receive`: the transport delivers what it queued, or the connection
breaks. New requests,
declines, aborts, edits, losing a connection and failing to open one are never
fair. `ServiceDay`, `Roster` and `WebMessaging` state no fairness: their
properties are about what may never be. Under `Spec` without fairness a call may stop for ever, which is a
crash.

**Findings.** Each violated run quotes its line in `PROJECT.json`:

* Two schedules of one day, generated at once, book one volunteer in both:
  nothing between `resolveCandidates` and `createAssignment` holds the
  volunteer, and no database constraint refuses the second row.
* The dashboard counts a role's live rows over *all* completed runs of the
  service, coverage over the latest: after a second generate, a gap in the
  current run is hidden by rows of the older one.
* A service cancelled between the two transactions of a task's PATCH makes the
  controller emit `null` to the church's room. The page takes every event for a
  task and reads `updated.id` while it renders, so every open service page of
  the church that shows a task breaks down.

Three more follow from properties that hold. Two declines of one run handled at
once may give one volunteer both roles (`TwoRolesNeedOverlap` allows it to
overlapping calls only), against `candidates.repository.ts:18`; a registration
that fails after its first write leaves a user with a password and no church,
whose address cannot register again (`EmptySessionNeedsInterruption`), against
`auth.service.ts:48`; and `sent_at` is set for mails the provider refused too
(`AnsweredMeansTold` is an inclusion, not an equality), against
`notifications.service.ts:9-11`.

## 5. What is proved

With TLAPS, every invariant and every action property that a run checks, and one
refinement, for every value of the constants that the modules' assumptions allow:

| Assumption | What it asks for beyond types |
|---|---|
| `SchedulingAssumption`, `RosterAssumption` | `Volunteer` is finite: they are rows of a table |
| `TenantDbAssumption`, `EquipmentAssumption` | nothing |
| `LiveTasksAssumption` | requests and reloads have different names |
| `OnboardingAssumption` | null is no ministry's id |
| `ServiceDayAssumption` | `MinPoints` is not 0 (5 in the code): a score divides by the points it has |
| `RosterAssumption` | levels are 1 to 5, reliability 0 to 100, a rule expands to finitely many dates |
| `CallsAreRequests`, `VisitedArePages`, `VersionsAreBounded` | the two sides share their calls; pages visited exist; one write fits under `MaxVersion` |

**SchedulingProofs**: `TypeCorrect`, `NothingOrphaned`,
`DoubleBookingOnlyByOverlap`, `TwoRolesOnlyByOverlap`, from the inductive
invariant `IInv` (theorem `Inductive`). The properties are not inductive: that
two rows of one volunteer on one day come from overlapping calls has to be known
*before* the second row is inserted. The argument:

* `Started`, `LocalsFit`, `TargetDeclined` tie a request's locals to the rows.
* `MetInFlight`: a call in flight has `met` every call that is in flight with it, and
  those that ended meanwhile.
* `PicksWereFree` is the heart: a winner not inserted yet has no other chosen row on
  that day *except* rows inserted by calls this one has met. It holds when the
  candidates are read, and is kept because a row can only appear by the insert
  of a call in flight, which has met this one.
* `TakenCovers` is the same for the rows of one run.
* `NoOrphans` and `LatestFits` let a row's run and service be looked up.

A second invariant, `CInv` (theorem `CountsInductive`), gives `ReportsItsRows`,
`OverfillOnlyByRepeats` and `DeclinerStaysOut`. Coverage is reported once, at the
end, from what the request counted as it went, while other calls insert and
mark rows of the same run:

* `RowsNumbered`: the rows a request inserted are still in its run, as many as it
  counted. `SolveFits`: a role's rows and its winners still to be inserted
  (`Due`) stay within `maxAllowed`, and the gaps so far are the roles done whose
  sum falls short. So `Reported` holds when the run completes, and stays: a
  decline marks a row and a replacement is another request's.
* `ReplacementFits`: a decline places at most one row, of the role of the row it
  is about, which is declined. `OverfillOnlyByRepeats` then counts: a role's rows
  that the solve did not insert map one to one into the calls that placed one
  (`ReplacementsCounted`), the rows declined for them are not live
  (`VacatedApart`), and the solve's own are at most `maxAllowed` (`SolverFill`).
  The counting is by cardinalities, which is why `FiniteTables` is in `CInv`.
* `DeclinerTaken`: after `list`, a decline's exclusions contain the decliner,
  although the decliner's row no longer counts as placed.

**TenantDbProofs**: `TypeCorrect`, `ContextsApart`, `NothingDirtyRead`,
`PoolKeepsClients`, `ThrowsWriteNothing`, and `ImplementsTx`, which is `Spec => Tx!Spec`. The
invariant's core is `CleanUnlessHeld`: a client nobody holds has no transaction
and no church set, so the next call starts from nothing; `SessionFits` says what
the session of a held client is at each position, `WroteOwn` and `TableFits`
that uncommitted rows are in one session only and committed ones complete,
`DownIsLost` that a dead connection holds nothing. `ContextsApart` follows from
`SessionFits`, and `NothingDirtyRead` from `CleanUnlessHeld` too: without it a
call could read what its client's last call had left uncommitted. The refinement maps `Write`
to `Write`, `Commit` and `CommitUnanswered` to `Apply`, `Release` to `Return` or
`Throw`, and all else to a stutter.

**LiveTasksProofs**: `TypeCorrect`, `PageFollows`, `OwnChangesLoaded`,
`CrashOnlyByCancel`. `LevelWhenQuiet` speaks of quiet moments, so it says nothing
of how a page gets there; `SyncedFollow` does: for each task a synced page shows
(`Current`), the current row is still to be emitted by some request, or is the
last event about the task in the inbox, or is shown with no event about the task
to come. A step of another service's requests leaves this alone (`Unmoved`); an
update moves to the first case, an emit from the first to the second, a delivery
from the second to the third. A load keeps it because of `SnapshotsFit`: what a
load has read is not newer than the rows, so a load not older than a current
view is current. `Known` and `LoadAfterCall` give `OwnChangeIsLoaded`;
`NullsHaveCause` ties null events on their way, and the pages they broke, to a
request whose service is gone.

**EquipmentProofs**: `TypeCorrect` and `StatusFollowsUse`. `StatusFitsUse` holds
in quiet states; `Agrees` also says what is true while calls are between their
writes: all of them are about to set the status their reservations call for, so
whichever is last leaves it right.

**OnboardingProofs**: all six properties of the run. None is inductive. The
invariant says of each call what it has stored when it is where it is
(`CallFits`) and of each row which call it is the row of (`RowFits`,
`TokenFits`, `ChurchFits`). Then:

* A registration owns its user from the insert on (`Owner`): two owners of one
  user are one call, because the insert needs an address nobody has. So
  administrators are not shared, and `Registered` holds: behind a password
  there is a registration with its row, on the way to it or failed.
* `InvitationFits` is the heart of `VolunteersBelong`: of the transactions that
  insert a profile of a user at most one is between insert and commit, and no
  profile is there yet; so what it finds about the membership is still true when
  it commits. `ProfileFits` gives the one membership of each profile.
* `StoreFits` and `RefreshFits` say before the second write what the two
  properties say after it: whoever is about to insert has met every
  other who is, or who has since; likewise for a token.

The proof has a lemma for each conjunct. `Grown` and `Alone`, what no step
undoes and that one call moves at a time, keep the cases few.

**ServiceDayProofs**: all six properties of the run, from `SInv` (types, with the
ids a call holds and the rows they name), `LInv` and `WInv`.

* `Reading` gives `LatenessFits`: a check-in that nothing has overtaken holds the
  start its service has, and from the beginning of its transaction the time.
* `Titled`, `CopiesLater` and `CopiesApart` give `TwinsNeedRepeat`: copies of one
  template have it as their title, start after it and, made by one expansion,
  at different times. Ids are positions, so this is about one sequence appended
  to another (`AddedCopies`).
  `CreateShiftedCopies` orders a set of delays by rank; that each rank is taken
  by one delay (`Ranks`) is shown without induction, as an injection of a finite
  set into as many places is onto.
* `ScoresAreFair` is arithmetic over all counts. The score rounds a quotient, so
  the lemmas compare quotients of different denominators before they round.
  The step from the prior to the first computed score is left out of the
  property, as it may go down.
* `NoShowsAreRostered`: if only one run of a service completed, it is the latest
  (`RosterIs`).

**RosterProofs**: all three properties of the run. The invariant adds to the
types what a call that staffs roles holds (`Staffings`, `Rankings`): its places
are of a role that is there, and `Ranked` says that the three rounds of reads
are made in order, each for the candidates of that role, with a fraction as
skill match. `FiniteTables` lets the folds be taken.

* `SumFunctionOnSet` is a fold, about which the prover knows nothing. The
  library's induction theorems cannot be cited (they take an operator), but
  `SetInduction`, for one set of numbers, follows from the fact that such a set
  has a least member (`LeastOf`). It gives the two facts used: a sum of natural
  numbers is one (`SumOfNaturals`), and of nothing it is 0 (`SumOfNothing`).
* `SolverPrefersRested`: `RestedScoresMore` compares the weighted sums term by
  term; the balance is what makes the difference strict, for the denominator of
  the skill match and `Busiest` are positive. Were fractions rounded to whole
  percents, two candidates whose balances differ by less than one would tie,
  which the code's floating point tells apart; that is why the model keeps them
  exact. `TakenIsBest` carries it to each place: whoever is placed goes before
  all that are left, so a candidate with a strictly higher score is not left.
* `FiguresAgree`: who is idle has a load of 0, and the code names nobody of a
  ministry whose loads sum to 0; a rounded share of at most all active
  volunteers is at most 100 (`ShareOfAll`).

**WebMessagingProofs**: all five properties of the run. The pages are data
(`PageOf`), of which the proofs use `PageFits` only, shown page by page. `Steps`
says of each action what it does to the tab in one of fifteen shapes (a load
begins, a load is shown, a write is answered, ...), so that each conjunct of the
invariant is shown per shape, not per action.

* `Shown`, for `OwnWritesAreShown`: unless excused, the page shows the user's last
  answered write, or a load is on its way that read it or is still to read
  (`Pending`). A write counts when its answer starts a full load; a load that
  fails, one that shows an older version and an event that merges a row older
  than that write excuse the page, until a load shows the write.
* `Waited`, for `OnlyHeldPagesAreSilent`: an empty page without an error line has
  a load on its way, or a write whose answer starts one; a handler that clears
  the line is such a write (`Waits`).
* `Tokens`, for `TwiceOnlyAfterFailure`: of the thread's sends and of the reloads
  that lower its busy flag at most one is in flight, and the flag is up while
  it is. `Copies` counts on it: no second send starts before the first failed or
  was shown.
* `Joined` and `Told`, for `SuccessMeansTold`: a request on the server is the
  call of its number; at each stage of it the members to whom a row is still due
  and those who have one are all of them, and who has a mail taken is marked or
  about to be.

**Only model-checked**: liveness (`EveryRunEnds`, `EveryCallIsAnswered`,
`EveryCallEnds`, `ChangesAreShown`), which is out of the prover's reach, and the
violations of the three findings. `TenantTx`, `WebClient` and `Messaging` have no
theorems by themselves, only in the modules that use them.

## 6. What is not modelled and not proved

* `Scheduling` leaves out realtime emits (they leave no state there), scores,
  editing roles during a solve, and changes of ministry membership. Availability
  is one bit per volunteer and day: whether an AVAILABLE row exists.
* `TenantDb` leaves out isolation between concurrent transactions: reads see
  committed rows. SQL errors are one action (`WorkThrows`). Which church's rows a
  statement names is left out, with its WHERE clause.
* Between the two, the step from "each repository call is `TenantTx`" to "each
  call is one action" is argued here, not a formal composition.
* `LiveTasks` leaves out what a row holds: status, the stamps `started_at` and
  `completed_at`, and dependencies. `checkin.recorded` appears only as the start
  of a load; a changed session (a new token) is not modelled, nor are reads of
  the other six calls of `load()`.
* `Onboarding` leaves out roles that no code inserts, permission overrides that
  no code writes, an expired token as a state of its own (`FindValid` may always
  fail), and what tokens and hashes contain. An access token stays good: whoever
  signed in once may call.
* `ServiceDay` keeps of a service its date, its start and a rule of a fixed number
  of days; `Roster` has one recurrence rule as a set of dates. Parsing RRULE text
  is the work of a library outside `src/`.
* `Roster` leaves out trends over months, the words of a question and its answer,
  the calendar's feed, and the dashboard's counts of tasks, checklists and
  equipment.
* `WebClient` leaves out what forms hold and what pages render of their rows. A
  load's GETs are one read, that of the oldest; a page that shows a mixture of
  versions is not told apart from one that shows the oldest.
* `coverage.changed` is emitted (`realtime.gateway.ts:87`) and nothing in the web
  client listens to it, so it is in no module.
* Teams, further campuses, certifications, maintenance records, battery levels and
  the items of checklist templates are single writes that no other code reads.
* Logging, error formatting and validation pipes hold no state and stay out.
