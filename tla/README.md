# Formal models of the Internal Task Management System

TLA+ models of the back end (NestJS, Prisma, PostgreSQL) and of those parts of its
web client (React, axios, TanStack Query) that keep state over an await, with
TLC runs that check them on small instances and TLAPS proofs for instances of
every size.

The back end is a set of request handlers around one database. Each handler is a
short sequence of awaited statements; between any two of them other handlers
run, and PostgreSQL runs every statement under READ COMMITTED, because the code
never asks for another isolation level. The web client is a page whose requests
overlap: what it sent, what it was told, what it shows and what is in the
database are four different things. Nearly everything that is hard to get right
here follows from these two facts, and they are what the modules are about.

Contents: [inventory](#inventory) · [modules](#modules-and-the-code-they-model) ·
[runs](#runs) · [fairness](#fairness-and-deadlock) ·
[disagreements](#where-code-and-documents-disagree) · [proofs](#proofs) ·
[limits](#what-is-not-modelled) · [plan](#plan) · [how to run](#running-it)

## Inventory

Paths are relative to `src/`.

| Component | State | Operations | Interacts with |
|---|---|---|---|
| Auth service `src/auth/auth.service.ts` | `RefreshToken` rows: user, family, usedAt, revokedAt, expiresAt | login, refresh (rotation, reuse detection), logout, me | users' rows; the controller's cookie |
| Auth controller, cookie `src/auth/auth.controller.ts` | the browser's refresh cookie | sets it on login and refresh, clears it on logout and on any failed refresh | one cookie jar, many tabs |
| Access control `src/auth/jwt-auth.guard.ts`, `src/common/authz/` | claims in the access token (user, team, role) | verify, compare role, load within the caller's team | claims outlive changes of role and deactivation |
| Users service `src/users/users.service.ts` | `User` rows: email, role, team, isActive | create, list, get, rename, deactivate, reactivate | revokes sessions, counts tasks, notifies |
| Teams service `src/teams/teams.service.ts` | `Team` rows, the leader's seat | create, rename, setLeader, remove, reads | users' roles and teams |
| Schema and constraints `prisma/` | unique indexes, one-leader partial index, foreign keys, CHECK | reject writes | error filter |
| Error filter `src/common/http-exception.filter.ts` | none | maps database errors to codes | every handler |
| Task use-cases `src/tasks/application/` | `Task` rows: owner, assignee, progress, deadline, deletedAt | create, edit, progress, reassign, delete | policy, repository, notifier |
| Task repository `src/tasks/infrastructure/prisma-task.repository.ts` | none | scoped load, writes by id, list, aggregate, counts | statistics, deactivation |
| Notifications `src/tasks/infrastructure/` | BullMQ jobs, sent mail | enqueue, process with retries, daily digest | Redis, SMTP |
| Statistics `src/stats/` | none | parallel aggregates | repository |
| Seeding and entrypoint `prisma/seed.ts`, `scripts/` | none | migrate, count the users, reset and insert the fixture, serve | all tables; compose restarts it |
| Web session `web/src/lib/api-client.ts`, `web/src/auth/` | access token, the shared refresh promise, identity | interceptor, bootstrap, login, logout, routes | auth endpoints |
| Web data hooks `web/src/features/*/hooks.ts`, `lib/query-keys.ts` | the query cache | reads, writes, invalidation | every screen; outlives the user |
| Task forms and controls `web/src/features/tasks/` | draft, open dialogs, pending writes | create, edit, confirm a past deadline, progress, reassign, delete | data hooks |
| List screens and dashboard `TaskList.tsx`, `UserList.tsx`, `features/stats/` | filters, search box, page | filter, search, page, row buttons | list and statistics endpoints |
| User and team forms `web/src/features/users/`, `teams/` | drafts | create, edit, assign a leader, remove | data hooks |

`PROJECT.json` lists the components with what is modelled of each, and the
hazards, each at the line where it bites.

### What makes the components correct

* **Sessions.** A token is exchanged at most once, so a family has one
  unexchanged token at a time whatever tabs race, wherever a process dies or a
  transaction rolls back. A revoked session is not continued by a refresh that
  was already under way. Detecting reuse closes the family; a deactivated user
  has no session. An honest browser with one tab never triggers reuse
  detection. No request waits for a lock for ever; one that PostgreSQL aborts to
  break a deadlock answers and leaves nothing half done.
* **Directory.** A team has at most one leader; once it has one, a swap that
  fails or is overtaken never leaves the seat empty. Leaders are active. An
  active administrator remains. Everybody but administrators belongs to a team
  that exists. Emails and team names are unique. The racing checks may pass
  together: the constraints have to carry what they miss, with the error code the
  contract promises, and no request may be left waiting.
* **Tasks.** A task's team is derived from its assignee, so no interleaving of
  create, reassign, leader swap and outdated claims may move a task to another
  team, where its owner could no longer see it. A deleted task stays deleted
  although every write goes by id alone. Who has to do a task is told, as far as
  mail that may fail allows: no notice is forgotten, and none of an earlier
  assignment stands for that of the last. Open tasks of a deactivated member are
  reported.
* **Notifications.** Notifying never fails or strands the request that wrote the
  task. A job counts as sent only when its mail was accepted; it is sent again
  only after a counted failure, and ends after three attempts. One digest per
  team and due time however many replicas run, and the schedule survives.
* **Seeding.** A database is seeded once and whole; no crash and no restart at any
  statement wipes what users wrote or leaves a serving API without an
  administrator, who alone could make another one.
* **Web session.** One refresh serves all requests that failed together, each is
  repeated once and comes back to its caller. An honest page is never taken for
  a thief unless an answer was lost. At rest identity, token and cookie belong
  together, and a logout is final.
* **Data hooks.** At rest a screen shows at least what this page was told it has
  written, and nothing that was answered to another team; the code keeps both
  with exceptions, which are stated with the properties and shown to be needed. A
  write that waits for its refetches comes to an end.
* **Forms.** A deadline that is past when the server compares it is let through
  only if the user agreed to that deadline in that form. A form makes one task.
  Saving changes no field the user did not touch, whoever wrote it meanwhile. A
  refusal brings the screen up to date.
* **Lists and dashboard.** At rest the rows satisfy the filters on the screen,
  however the answers came in. Nobody is left on an empty later page. The
  dashboard loses no task, and its overdue figure and the overdue filter mean
  the same.

### What is hard in it

Interleavings at every await; rows read before `argon2.verify` or before a
transaction and used after it; the snapshot of an `UPDATE` that then waits for a
lock, and that never sees rows inserted later; role claims that outlive the
role; lost answers to a request that has committed; a crash between two
statements; database locks taken in different orders; writes and notifications
in different orders. In the client: answers that come back in another order than
they were asked for, or after a logout; a cache that outlives the user; a dialog
that was closed, reopened or left while its save was under way.

## Modules and the code they model

| Module | Contents |
|---|---|
| `Sessions` | login, refresh, logout, the cookie jars, deactivation as far as it revokes tokens |
| `TokenFamilies` | abstract specification: what rotation promises, in single steps, with no requests or locks |
| `SessionsRefinement` | the refinement mapping from `Sessions` to `TokenFamilies` |
| `SessionsProofs` | inductive invariant of `Sessions` and its theorems |
| `Directory` | users and teams under concurrent admin requests, constraints, error codes |
| `DirectoryProofs` | inductive invariant of `Directory` and its theorems |
| `Tasks` | task use-cases, claims, leaders, deactivation's count and report, direct notifier |
| `TasksProofs` | inductive invariant of `Tasks` and its theorems |
| `Notifications` | the queued notifier, the workers, the digest's schedule and sweep, Redis that leaves or restarts |
| `NotificationsProofs` | inductive invariant of `Notifications` and its theorems |
| `Lists` | list endpoints and aggregate statement by statement, with the screens that show them: filters, search, pager, dashboard |
| `ListsProofs` | inductive invariant of `Lists` and its theorems |
| `Seeding` | entrypoint, seed-if-empty and seed, with crashes, restarts and several replicas |
| `WebSession` | one page: interceptors, shared refresh, bootstrap, login, logout, reload, routes, with the server's tokens |
| `WebSessionProofs` | inductive invariant of `WebSession` and its theorems |
| `WebCache` | the query cache over screens and users, every write with what it invalidates |
| `WebCacheProofs` | inductive invariant of `WebCache` and its theorems |
| `TaskForms` | the create form and the dialogs and controls of one task's page against other writers |
| `FormsAndSeedingProofs` | inductive invariants of `TaskForms` and of `Seeding`, and their theorems |
| `MC<module>` | instances for TLC |

The detail of one module is the assumption of the next: `Sessions` shows that the
server's rotation is atomic, and `WebSession` takes one step for it; `WebSession`
signs users in and out, and `WebCache` takes any such sequence; `WebCache` refetches
whatever a write invalidates, and `TaskForms` keeps of it the query of one task.

In `Sessions`, `Directory` and `Tasks` a request is a member of a set of handlers with a program counter
`pc[r]`; an action is the code between two awaits on the database, and carries
the name of the method or statement. The local variables a handler keeps over an
await are `tok`, `who`, `snap` or the record `job[r]`; they are reset when the
handler ends. `PROJECT.json`'s map gives the lines of every definition.
Definitions marked *Seeded fault* are not part of any specification: they are the
plausible bugs the properties are shown to catch.

### PostgreSQL, as far as it matters

External to the repository and modelled from how the code uses it:

* a plain statement reads what was committed before it started and is one step;
* an `UPDATE ... WHERE` over several rows begins with a *snapshot*, which chooses
  its rows (`ReuseSnapshot`, `DeactivateSnapshot`, `SetLeaderSnapshot`); then it
  locks them one by one in the order its plan finds them, which the code does not
  fix and the model leaves open (`LockRow`), tests the condition again on those
  rows only, and holds the locks until the transaction ends (`held`). At most one
  of a team's rows is its leader, so a swap's demotion takes one lock and one step;
* what an open transaction has written is locked and invisible to others:
  `Locked(t)`, `UserLocked(u)`, `RowLocked(u, r)`; an update or insert that makes an
  entry in a unique index has written its row first and waits for the undecided
  entry with that row locked (`SetLeaderLock`, then `SetLeaderPromote`;
  `SeatContested`);
* of transactions that wait for each other in a circle (`WaitsFor`, `Deadlocked`)
  one is aborted, any one: `ReuseDeadlock`, `DeactivateDeadlock`, `SetLeaderDeadlock`;
* a failing statement rolls its transaction back.

### Sessions

State: `issued`, `user`, `family`, `used`, `revoked`, `expired` are the
`RefreshToken` columns (a timestamp column is the set of rows that have it);
`jar` is the cookie of each browser, `BrowserOf` says which tabs share one.
Tokens are numbered in the order of their INSERTs and a family is named by the
token its login issued; token values, hashes and passwords are left out.

| Code | Actions |
|---|---|
| `login` | `LoginCheck` (row read, password, isActive) → `LoginIssue` (INSERT) |
| `refresh` | `RefreshStart` → `RefreshRead` → `RefreshClaim` (compare-and-set) → `RefreshRotate` (INSERT of the child and commit) → `RefreshSign` |
| `refresh`, reuse | `RefreshRead` → `ReuseSnapshot` → `LockRow` per row → `ReuseCommit`, or `ReuseDeadlock` |
| `logout` | `LogoutStart` → `Logout` |
| answers | `DeliverGrant`, `DeliverDeny`; `Drop` loses one or kills the handler; `RefreshFails` is the controller's catch |
| `deactivate` | `DeactivateStart` → `DeactivateSnapshot` → `LockRow` per row → `DeactivateCommit`, or `DeactivateDeadlock`; `Reactivate` |

`Expire` lets time pass `expiresAt`, parents before their children. A tab has one
auth call at a time, as the client's shared refresh promise sees to. A refresh or
a logout without a cookie is answered at once, and its answer clears the jar like
any other refusal.

### Directory

`user` and `team` are the tables, as functions from ids to rows. `snap` and
`demoted` belong to `setLeader`, the only operation that keeps a transaction open
over several statements that conflict: `SetLeaderFind` → `SetLeaderSnapshot` →
`SetLeaderDemote` → `SetLeaderLock` (the new leader's row) → `SetLeaderPromote` (the
index entry and the commit), with `SetLeaderDeadlock` where two of them close a
circle. `Written` is what such a transaction has locked. `reply` is the code of the
answer the last step gave. Each check of the code (`EmailTaken`, `LeadersOf`, `ActiveAdmins`,
`MembersOf`, `NameTaken`) is a step before the write, and each write meets the
constraint of the migration: the unique indexes, `user_one_leader_per_team`, the
foreign key, with the code `mapPrismaError` gives. On the partial index that code
depends on what the driver reports as the target, so both outcomes are possible
(`LeaderIndexError`).

`Deactivate` takes any administrator's row as the caller: the guards read claims,
which outlive a deactivation. `Reactivate` is one step because a user row is never
deleted. Renaming a user writes a column nothing else reads and is left out.

### Tasks

`task` is the table, `claim` the role in the access token each user holds
(`SignAccess` renews it). `told` and `missed` are history: whom a message about
which task was sent to since he was last given it, and for whom the sending failed
or was cut off by a `Crash`, which may end a request at any of its awaits. `TeamOf` is a
constant: no operation changes a user's team. A use-case is *load* (`Visible`:
`findByIdScoped`), its one rule, *write by id*, then *notify*. Requests the load
or the rule refuses change nothing and are not steps. Title, description,
deadline and flags are one datum `text`, which no rule of another operation
reads; the past-deadline check refuses or lets through and is not modelled
further. The swap of a leader is one step here: its interleavings are
`Directory`'s subject.

### Notifications

The system with `REDIS_URL` set; without it a use-case sends the mail itself, which
is `Tasks`' last step. A replica of the back end is a process that serves requests
and hosts one worker (BullMQ's default concurrency): `proc[w]` is the worker and
says whether the replica is up, `caller[e]` the use-case that emits event `e` and
the replica that runs it. `job` and `schedule` are what Redis holds, and `mail`
how often the SMTP server accepted the mail of each job.

| Code | Actions |
|---|---|
| `OverdueDigestScheduler.onApplicationBootstrap` | `Boot`, which needs Redis |
| `QueuedNotifier.enqueue` | `Emit` → `Add`, or `AddRejects`, its catch |
| `NotificationsProcessor.process`, `EmailNotifier` with rethrow | `Take` → `Send` → `Complete` or `Record` |
| `OverdueDigestSweep.run` | `Take` → `SweepRead` → one `FanOut` (or `FanOutRejects`) per team → `Complete` or `Record` |

External, from how the code uses it: the scheduler adds a sweep when it comes due
(`Due`); a job is locked by the worker that took it, the lock lapses when the
worker dies or could not reach Redis for long enough (`Dies`, `RedisReturns`), a
job without a lock is `Stall`ed back into the queue and, the second time, given up;
a worker without the lock cannot finish the job, though it may still send its
mail. Commands wait while Redis is away (docs/11 section 6.6). Redis may come back
with its data or, restarted, with none (`RedisRestarts`): compose runs it without
persistence. Backoff is time and left out; jobs that Redis forgets after they
ended are kept. Whether there is anything to send about an event or a team is the
constant `Quiet`; which teams have an active leader is any set at each sweep.

### Lists

State: `rows` is the table the screen reads (tasks or users), `late` the clock as
far as one deadline has passed, `filters`, `search` (debounced) and `page` the
controls, `cache`, `failed` and `flights` the queries, `last` the answer that is kept
as placeholder, `stats` the dashboard's request. A behaviour looks at one screen.

| Code | Actions |
|---|---|
| filter selects, search box, debounce, pager | `SetFilter`, `Debounce`, `PickPage` |
| `list` (one transaction, two statements) | `Execute` (the clock is read) → `FindMany` → `CountAndDeliver`, or `Lose` |
| `aggregate` (four statements in parallel) and `StatsService` | `StatsBegin` → `StatsRead` in any order → `StatsCompose` |
| row button of the user list | `RunDeactivate`, which refetches |
| everybody else | `Elsewhere`, `Tick` |

`IsOverdue` is `DueStatus`, computed for a row in hand; `OverduePredicate` and
`NotOverdue` are the database's version of it. `RowsAsFiltered` compares the two, on
rows that were read at one time and are looked at later. The team's own figures on the
dashboard are sums over its lines, which is why `StatsAddUp` speaks of the lines.

### Seeding

State: `pc[r]` is where replica `r` is in the entrypoint, `at[r]` the statement of the
seed it is about to make, `teams`, `users`, `tasks` the rows of the fixture with the
replica that wrote them, `work` what users wrote since, `crowd` records that two
replicas found the database empty together. The seed is the sequence
`SeedDatabase`: three statements that delete, then the inserts in the order of the
code. `Wipe` and `Insert` are what a statement does, `WipeAllowed` and `InsertAllowed`
what the foreign keys and unique indexes ask of it; a statement that is refused
ends the process. `Restart` is compose's
`restart: unless-stopped`, after a failure and after a `Crash`.

### WebSession

State of the server: the columns of `Sessions` per grant number, and `stale`, the
access tokens that have expired. State of the page: `token`, `identity`, `booting`,
`promise` (`refreshPromise`), `path`. A call is `idle`, `sent`, `waiting` for a refresh,
or has its answer on the way; `cred` is what it carries.

| Code | Actions |
|---|---|
| page load, `AuthProvider`'s effect | `Reload` → `DeliverBoot` |
| request and response interceptors | `SendData`, `DeliverTokenError` (waits for the shared refresh, or starts it), `DeliverRefresh` (hands the token to all who wait and sends each again), `DeliverCall` |
| `login`, `logout` | `LoginSubmit` → `DeliverLogin`, `HandleLogout` → `DeliverLogout` |
| server | `ServeCall`, `ServeRefresh`, `ServeLogin`, `ServeLogout`; `Fail` loses an answer or the request |
| `ProtectedRoute`, `RoleRoute`, `IndexRedirect` | `Redirect`, `Follow` |

The interceptor signs the page out when the refresh fails, and also when the
repeated request fails for whatever reason; both are in `DeliverRefresh` and
`DeliverCall`. One tab; a request that is delayed past a reload's own refresh, and
the expiry of the refresh token, are left to `Sessions`.

### WebCache

State: `user` and `screen`, `now` the version of the server's data, `data[k]` the cached
answer of key `k` (its version and the user it was answered to), `fetch[k]` the
request under way, `write[w]` the mutation of each kind and `waits[w]` the refetches
it awaits. `mine[k]`, `passed` and `joined` are history: the last write the page was
told of that changes what `k` shows, the keys such a write passed over, and the keys
that were being fetched for somebody else at a login.

`Mounts` gives the queries of each screen, `Invalidates` what a write's `onSuccess`
invalidates, `Changes` the kinds of answers it changes: its own resource, and rosters,
statistics and names elsewhere (`AlsoIn`). `Visit`, `Login` and `Logout` mount screens;
`ServeFetch`, `DeliverFetch`, `FailFetch` are the query library (external, from how the
hooks use it: an invalidation joins a first fetch and cancels any other; the roster
is fresh for five minutes and is never invalidated);
`Submit` → `ServeWrite` → `DeliverOk` → `Settle` is a write that waits for its refetches
and then leads the page elsewhere, wherever the page is by then.

The two properties about what rests on the screen have exceptions, each of them a
case in which the code does not keep the claim. `ReadYourWrites` leaves out `passed`:
answers a write met on their way, and views of a resource the write is not on, which
nothing invalidates: those open when the write is answered, until they are opened
again, and rosters, until five minutes are over. `RostersResync` is the claim for
rosters without the exception (`web_roster`). `OwnOnceAnswered` leaves out `joined`: a
fetch of the previous user that is still under way when the next one signs in is
taken for his own, and its answer stays on his screen. `OwnAtRestAlways` is the claim
without the exception (`web_joined`).

### TaskForms

State: `task` at the server, `shown` the page's copy, `form` the mounted form (what
it was opened with, `base`, what it holds, `value`, and whether there are blanks around
the title, `pad`), `confirm` the body of the open past-deadline dialog, `editOpen` what
the screen remembers of the edit dialog, `failed` that the last fetch has failed,
`calls` the mutations in the order they were sent. `agreed` and `padded` are history.

| Code | Actions |
|---|---|
| `TaskForm` | `OpenEdit`, `CloseEdit`, `Type`, `TypeBlanks`, `Submit` (`BuildCreate`, `BuildEdit`), `ConfirmPastDeadline`, `CancelPastDeadline` |
| `ProgressControl`, `ReassignControl`, delete dialog | `HandleProgress`, `HandleReassign`, `OpenDelete`, `HandleDelete`, `CloseDelete` |
| the query of the task | `ServeFetch` → `DeliverFetch`, or `FailFetch`; both `Render` the screen, whose error view takes the controls and the form down |
| use-cases | `ServeCheck` (load, rule, clock) → `ServeWrite`; `ServePast` (PAST_DEADLINE), `ServeRefuse` |
| continuations | `DeliverOk` → `Settle`, `DeliverPast`, `DeliverRefused` |
| the rest of the world | `Navigate`, `Elsewhere`, `Tick`, `Lose` |

The trim of `buildEdit` removes the blanks after the form has compared what was typed
with what it was opened with: blanks make the title a changed field, and what is sent
is the title without them. `NeverReverts` excepts the title of a form submitted with
them. The server reads its clock and compares before it awaits the write:
`PastIsConfirmed` speaks of the comparison. Both are shown to fail without these
limits (`forms_blank_title`, `forms_late_write`).

Things the model shows without a property being about them: the answer of an
earlier save closes a dialog that was reopened meanwhile; a PAST_DEADLINE answer
to a form that was closed is dropped without a word; what is typed while a save
is pending is lost; a create whose answer was lost makes a second task when it is
submitted again (`OneTaskPerForm` excepts that case).

## Runs

| Run | Question | Instance | States |
|---|---|---|---|
| `sessions_race` | Do rotation, revocation and refinement hold, and does every request end, with races, lost answers, crashes and rollbacks? | one user, two tabs on one cookie jar, one administrator, 3 tokens, 2 requests in flight | 218 000 |
| `sessions_reuse_race` | Does reuse detection close the family? *violated* | two tabs, 4 tokens | |
| `directory` | At most one leader, a seat stays taken, the constraints carry what the racing checks miss, every request answered? | an administrator, a member and a free id, two team ids, a seat that starts vacant; 2 concurrent requests of any kind | 169 000 |
| `directory_last_admin` | Does an active administrator remain? *violated* | two administrators, 2 requests | |
| `tasks_race` | Does a task stay in its team, is deletion final, is no notice forgotten? | three users in two teams, two of them leaders, one task id, 2 requests | 1 170 000 |
| `notifications` | Is nothing lost or doubled without a trace, one digest per team, and does every job and every request end? | two replicas, one event, one team, one due time, 2 attempts, one fault | 211 000 |
| `lists` | Do the rows satisfy the filters, is an empty page only the user's haste, does the dashboard add up? | three tasks, three users, pages of one row, 2 moves, 2 events | 2 930 000 |
| `seeding` | Is the fixture whole, work kept, an administrator there, and does a replica come to serve? | two replicas, 2 crashes, 2 tasks written by users | 339 000 |
| `web_session` | Do failed calls share a refresh, does the session stay whole, does a logout stick, does every call settle? | an administrator and a leader, two data calls, 2 grants, one mishap | 324 000 |
| `web_cache` | Is what rests on the screen up to date and one's own, does every write settle? | a leader, a member of another team, an administrator; writes of three kinds, 2 events, one visit after each login | 342 000 |
| `web_previous_user` | Is what is shown always one's own? *violated* | as `web_cache` | |
| `task_forms` | Is a deadline found past agreed to, one task made per form, nothing reverted? | two titles, a deadline about to pass, 2 forms, 2 calls, one event | 2 780 000 |

Further configurations answer questions beside these and are run in the same way;
what they show is said [below](#where-code-and-documents-disagree) or here:

* `directory_swap` (three concurrent requests on one team, 124 000 states) and
  `directory_grow` (creation and removal of teams without liveness, 267 000)
  check `directory`'s properties on the instances it merges.
* `sessions_quiet` (two browsers with one tab each, no lost answers, 3 600 000
  states): `NoFalseReuse`, an honest client is left alone, and `LogoutEndsSession`.
* `sessions_deactivate_race`, `directory_inactive_leader`, `tasks_orphans`,
  `notifications_mute`, `web_logout`, `web_roster`, `web_joined`, `task_resync`,
  `forms_late_write`, `forms_blank_title`, `lists_stranded`, `lists_overdue` each show one
  property violated.
* `sessions_deadlock` and `directory_deadlock` show `NoDeadlock` violated: circles of
  waiting transactions do close, as [below](#fairness-and-deadlock).

Why the bounds are enough for the questions asked:

* **Tokens, grants.** Three tokens are a login, its child and its grandchild, or two
  families and a rotation: a fork needs a parent and two children. A request
  starts only when a token is left for it (`Room`), so the bound never strands a
  handler and liveness is not an artefact of it. In `WebSession` two grants are two
  users in turn or a login and its rotation: every race there is between one
  refresh and one other call.
* **Requests in flight.** Every race of this code is between two handlers;
  `directory_swap` has three because a chain of two waiting updates behind a third
  is where a cycle of waits could close. The refused checks and the write-time
  constraint each need one competitor. Two data calls are what a shared refresh
  needs.
* **Users, teams, emails, names.** One more id than the seed has, so that
  creation, reuse of a name and collision all happen; two teams, so that leaving
  one's team is possible; in `web_cache` a user of each role, so that all screens and
  both kinds of roster occur.
* **Tasks.** Use-cases never relate two tasks, except for the count of
  `deactivate`, in which one open task is enough. `Lists` has a row for each way
  a task can match the filters, and pages of one row, so that two matches are two
  pages.
* **Kinds of writes** (`Kinds`): one within the tasks, one that changes three
  resources, one that removes what is shown. One mutation of a kind at a time is
  what the buttons, disabled while pending, allow on one screen.
* **Faults and attempts.** One death of a replica, or one absence of Redis (with
  lapsed locks or lost data) is enough for a stalled job, a second worker on it
  while the first goes on, and a sweep that is run again half way; refused mail
  and lost answers are not bounded. Two attempts show a repeated and an exhausted
  job; the code's three only add repetitions. Two crashes of a seeding replica are
  one in the seed and one in the repetition.
* **Visits, moves, events.** A logout, a login and one visit are enough to meet the
  previous user's cache; two moves are a search and a page picked while it waits.
  The proofs of `WebSession`, `WebCache`, `TaskForms`, `Lists` and `Seeding` do not depend
  on these bounds; only that `MaxForms` admits one form is assumed. `LoadedWith`
  limits the deadlines a task has when its page is loaded to the one that may pass:
  the others are typed, or written by another page.
* `SYMMETRY` permutes request ids, or the titles of `TaskForms`, which no constant
  and no definition tells apart, and is used only in runs without liveness.

The bounds have names: `MaxTokens`, `MaxInFlight`, `MaxDue`, `MaxFaults`, `MaxGrants`,
`MaxMishaps`, `MaxVisits`, `MaxEvents`, `MaxForms`, `MaxCalls`, `MaxRows`, `MaxMoves`,
`MaxCrashes`, `MaxWork`, `LoadedWith`, `Kinds`, and the sizes of the sets.

## Fairness and deadlock

`Sessions!FairSpec` and `Directory!FairSpec` assume strong fairness of each
request's next step, and of nothing else: not that a request starts, fails, is
dropped, or that a token expires. The event loop resumes a handler whose
statement has completed, and PostgreSQL queues those who wait for a row lock and
wakes them when it is released, so a statement that can proceed again and again
does. Weak fairness would not be enough for a waiter whose lock is handed round.
`EveryRequestEnds` and `EveryRequestAnswered` say that every request ends
under it. Circles of lock waits do close: the revocation of a family locks the rows
its scan finds, the deactivation those of its own scan, in another order
(`sessions_deadlock`); a swap holds the row of its new leader while it waits for the
index entry of the leader another swap has demoted, and that one waits for the row
(`directory_deadlock`). PostgreSQL aborts one of the transactions; its request answers
with a 500, after a reuse with the refusal it would have given, and nothing it wrote
stays. The liveness properties show that this is enough: after it the others go on,
and no request waits for what the database cannot see.

`Notifications!FairSpec` assumes weak fairness only: some replica is started again
(compose's `restart: unless-stopped`), some worker takes a waiting job, goes on with
the one it has or finds a stalled one (BullMQ's poll and stalled check; database and
SMTP calls return or time out), and a waiting `queue.add` returns when Redis answers.
Nothing makes Redis come back: its liveness properties say what holds once Redis
stays up, and faults are finitely many. Events and due times are not forced.

`WebSession` assumes weak fairness of serving and delivering calls: nginx gives up
on a silent server after its timeout and answers in its place, which the client
sees as a failed call. Logins, logouts, expiry and everything a user does are
free. `WebCache` assumes the same of fetches and writes. `Seeding` assumes weak
fairness of each replica's next step, restart included, because compose restarts
it; it says that a replica serves again and again *or* begins a seed again and
again, because two that reset the database under each other may never finish.

`Tasks`, `Lists` and `TaskForms` have no waiting step and no liveness property.
Deadlock is checked in `web_session`, whose page can always be reloaded or used. The other
configurations set `CHECK_DEADLOCK FALSE`: once ids, tokens, forms or crashes are
used up the system is at rest with nothing left to do, which is no fault; a stuck
*request*, call, write or replica is what the liveness properties exclude.

## Where code and documents disagree

Three are runs that TLC finds violated, with the lines quoted in `PROJECT.json`:

1. **Reuse detection can miss a token** (`sessions_reuse_race`, `ReuseRevokesFamily`).
   The updateMany takes its snapshot, waits for the parent's row lock held by a
   rotation, and that rotation's child is not in the snapshot: it stays live.
2. **No active administrator** (`directory_last_admin`, `AnActiveAdmin`). Two
   administrators deactivate each other; both count one other.
3. **The previous user's rows** (`web_previous_user`, `ShownIsOwn`). The cache is not
   cleared at logout and its keys name no user; whoever signs in next on the same
   page sees the rows answered to another team until a fetch of his own returns. Where
   he joins a fetch of the previous user that was under way, that is not before the
   screen is fetched again (`web_joined`, `OwnAtRestAlways`).

The others have configurations of their own:

4. **A login can outlive a deactivation** (`sessions_deactivate_race`,
   `NoSessionWhenInactive`). `login` tests isActive on the row read before hashing and
   inserts the token after the revoking statement; refresh never tests isActive.
   users.service.ts:148 says "revoke mọi refresh sống → refresh sau đó 401
   SESSION_EXPIRED".
5. **A disabled leader** (`directory_inactive_leader`, `NoInactiveLeader`). The member
   passes deactivate's role check, is promoted, and is then disabled by id.
   docs/06-api-contract.md:536: "Một user lúc bị vô hiệu hoá thì luôn đã là MEMBER".
6. **An unreported orphan** (`tasks_orphans`, `OrphansAreReported`). A task is reassigned
   to a member between the count of open tasks and the write of isActive.
   docs/02-requirements.md:77: "hệ thống báo leader nhóm X số task còn treo".
7. **A mute schedule** (`notifications_mute`, `ScheduleComesBack`). The digest's
   schedule is registered only when a replica starts, and Redis keeps nothing over
   a restart: replicas that reconnect run on without digests, the state that
   overdue-digest.scheduler.ts:27 calls "kiểu hỏng không ai phát hiện ra".
8. **A logout undone** (`web_logout`, `LogoutSticks`). Logout revokes the token it was
   sent (auth.service.ts:131). A refresh under way has exchanged that token before;
   its answer, arriving later, sets a new cookie, and a page load signs the user in
   again. docs/08-test-plan.md:125: "logout 204; refresh sau đó 401 SESSION_EXPIRED".
9. **No resync after a refusal** (`task_resync`, `RefusalResyncs`). TaskDetail.tsx:37:
   "a 403/404 surfaces as a toast + resync"; the controls show the toast and
   refetch nothing.
10. **An empty later page** (`lists_stranded`, `NeverStranded`). TaskList.tsx:57 resets to
    page 1 "so results aren't stranded on a now-empty page", but a page picked while a
    search waits for its debounce, or from the pager of placeholder rows, is kept
    with the new filters.
11. **More overdue than open** (`lists_overdue`, `OverdueAmongOpen`). The four reads of
    the aggregate have snapshots of their own; docs/06-api-contract.md:230 calls
    overdue "tập con của TODO cộng IN_PROGRESS".
12. **An old roster** (`web_roster`, `RostersResync`). Users are created, deactivated and
    reactivated without the rosters being invalidated, which are kept for five minutes:
    a leader who signs in after the administrator on the same page picks from the old
    one. users/hooks.ts:18 has the UI resync "with the server" after a write.
13. **A deadline that passes before it is stored** (`forms_late_write`,
    `PastWhenStoredIsConfirmed`). The clock is read before the write is awaited.
14. **A save that reverts the title** (`forms_blank_title`, `BlanksRevertNothing`). A blank
    typed after the title makes it a changed field, of which the trim leaves the title
    the form was opened with, over what another page saved. TaskForm.tsx:18: "On edit,
    only DIRTY fields are sent (absent=keep".

Without a configuration: a team removed between the lookup of `UsersService.create`
and its INSERT is answered as TEAM_NOT_EMPTY, because `mapPrismaError` takes every
P2003 for a DELETE of a team. And the two statements of a list share a transaction
so that "total khớp đúng tập đã lọc" (prisma-task.repository.ts:53), which READ
COMMITTED does not give.

Two replicas that find the database empty together (`crowd`) are outside what the
compose file starts; the model shows that they wipe each other's seeds, may leave
a serving replica without administrator, or may reset the database for ever, and
that a crash after the first user leaves the fixture partial for good.
`Seeding`'s safety properties say what holds otherwise.

## Proofs

`tlapm` checks all of them, for every number of users, browsers, tabs, teams,
tasks, forms, replicas and concurrent requests; the only assumptions are the named ones of the
modules (sizes are numbers, ids and NULLs are distinct, the seed satisfies the
schema, the overdue filter has its three values).

**Sessions** (`SessionsProofs`). `OneHeadPerFamily` is not inductive: a rotation
that has won its compare-and-set, but not committed, must be known to hold an
unexchanged, unrevoked token, and to hold it alone. `IInv` adds this
(`ClaimHeld`), which rests on a row being locked by one transaction at a time
(`LocksExclusive`), that handlers work on tokens that exist (`Presenting`), that a
family is named by a member (`FamilyNamed`), and splits the cardinality into
`HeadExists` and `HeadUnique`. From it follow

* `TypeCorrect`: the types;
* `RotationNeverForks`: exactly one unexchanged token per family;
* `RevocationIsFinal`: a family whose head is revoked gets no new token;
* `Refinement`: `Spec => Families!Spec`. The head of a family is its unexchanged
  token, the family is open until that token is revoked. A login's INSERT is
  `Begin`, the commit of a rotation `Exchange`; a commit that revokes is `Close`
  of the families whose heads it hits, everything else stutters. `OtherHeads`
  and `NewHead` say that one INSERT moves one head.

**Directory** (`DirectoryProofs`). The tables alone (`MembershipSound`,
`KeysUnique`, `LeaderUnique`, which is `OneLeaderPerTeam` without cardinalities)
are not inductive: one must know what each handler remembers at its await
(`JobsFit`), that the id a pending INSERT carries is nobody else's (`IdsFresh`),
that a target once found is still there and in its team (`TargetsKnown`), and
that what a swap has matched or demoted is in the team of the swap
(`SwapsLocal`). `Answering` and `Moving` state once what an ending and a
continuing step preserve; the writes are then one lemma each. From it
`TypeCorrect`, `OneLeader`, `Membership`, `Uniqueness`, and, with `SwapCommit`
(what the commit of a swap does to every row), `SeatStaysTaken`.

**Tasks** (`TasksProofs`). `TasksStayInTeam` needs what each use-case tested before
its write and may still rely on (`ChecksHold`): the team of the caller is that of
the task's *owner*, which no write changes, and not that of its assignee, which
another reassignment may have changed since. `JobsFit` and `IdsFresh` are as
above; `AssigneeIsTold` is inductive with them. From it `TypeCorrect`,
`ScopeIsStable`, `NoNoticeForgotten` and `DeletedForGood`. The first speaks of
notices sent, missed or about to be sent: without Redis nothing repeats one that
was missed.

**Lists** (`ListsProofs`). `RowsAsFiltered` speaks of the answer on the
screen; `AnswersFit` says it of all answers cached or on their way, each against the
filters of its own key, from which `RowsFit` follows because at rest that key is made
of the controls. `StrandedOnlyByHaste` needs that answers do not age while no row
changes (`AnswersStand`) and that the page looked at begins within the rows that match
(`PageHasRows`): the pager's last page does (`LastPage`), and a page that does is not
empty (`WindowFull`), because every rank up to the size of a set of numbers is
some element's (`RankTaken`, by least elements, which well-foundedness gives without
an induction). Hence `OnlyHasteStrands`. `StatsAddUp` compares what three statements
counted at three moments: `Reading` says of each alone that it is the table's count
unless somebody wrote since the request began, and that the progress counts are
numbers, so that who gets no line has no task; from it `LinesAddUp`. `TypeCorrect` needs
that ranks differ (`RanksDiffer`), hence that a page is no longer than `Limit`
(`WindowSize`), and that a key is only asked for when it is not under way (`LookTidy`,
`RefetchTidy`); no run checks `Lists!TypeOK`, as none does `WebSession!TypeOK`.

**Notifications** (`NotificationsProofs`). None of the three safety properties is
inductive. `CompletedWasSent` needs what a worker that is done has done
(`WorkersFit`), and that a lock names a worker that still has the job
(`LocksFit`). `DuplicatesAreCounted` speaks of counters that are raised when an
attempt *ends*, while mail goes out before: `Counted` says that each time a job
was taken accounts for one mail, already sent or pending in a worker, and that
only the present start is not yet recorded. For that a job that is added must be
new in every respect (`Absent`), also to a worker that lost it with a restart of
Redis: `NamesFresh` says so of the ids that a request, the schedule and a run of
a sweep are about to use, and that two workers at one sweep are at different
runs of it. From it `TypeCorrect`, `SentBeforeCompleted`, `DuplicatesCounted`,
and, since a run is never ahead of the stalls of its sweep and
the scheduler's id is the same in every replica, `OneDigest`.

**WebSession** (`WebSessionProofs`). The properties speak of the page at rest, and
what breaks them is on its way. Three facts carry the proof. At most one refresh is
under way: the shared promise, whose caller waits for it, or the bootstrap's, before
any other call (`OneRefresh`). A grant on its way to the page is not exchanged yet, is
not the cookie, and no other call carries it (`GrantsFresh`). So, unless an answer
was lost, nobody comes with a token already exchanged, and the cookie is exchanged
only while the answer is on its way: `NothingToReuse`, which gives `HonestPage`. For
`SessionWhole`, `PageWhole` and `OneSession` say what belongs together between the two
ends of a login, a refresh and a logout: the identity is the owner of the token, and
the cookie and what refreshes carry are of the token's family. `Quiet` is what a
logout that no refresh crosses leaves: no identity, no cookie, and no refresh that
could bring one, hence `LogoutFinal`.

**WebCache** (`WebCacheProofs`). Neither property speaks of answers that are still on
their way, but both depend on them. `Sound` adds, per key: a request under way was
asked for the present user, unless a login joined it, and an answer on its way is at least as new as what the
page was told of, unless a write passed it over (`FetchSound`). What is shown, no
request under way and none failed, was asked for the present user's team and is as
new as that, with the same two exceptions (`DataSound`); rosters belong to the team
their key names, whoever asked. `WritesSound` says that the page is told of no version the
server has not reached. From it `WritesAreRead` and `OwnAtRest`.

**TaskForms** (`FormsAndSeedingProofs`). `PastIsConfirmed` is about a step of the
server, which can come long after the form was closed. `CallsSound` ties each call
under way to the form it came from while that form is mounted, and says that a call sent with
the confirmation was agreed to, form and deadline; `FormSound` says of an open
confirmation that its body sets no field back. From it `Confirmed` and
`SavesRevertNothing`, with `Outcomes`, which says what becomes of each call in a step.
`TypeCorrect` needs each dialog tied to the mode its form was opened in (`Mounted`).
`OneForm` compares two calls of one form, of which the page may have forgotten the
first: a call *counts* unless it failed or its answer was lost, a form that sends
again has no call that counts (`SlipsSound`), so of a form's calls at most one does
(`OneCounts`).

**Seeding** (the same module; to share it, `Seeding` calls its specification
`SeedingSpec`). Unless two replicas found the database empty together, the
table of users tells how far the seed has come (`OneSeeds`, `UsersTell`): one replica
seeds, it is within its first four statements exactly while there are no users,
the first user is the administrator, and nobody writes before. A replica that
counts finds either no users, and nothing to lose, or leaves them alone. From it
`WorkIsKept` and `AdminIsThere`. `SeedingTypeCorrect` assumes nothing of who seeds with whom:
`WipeSound` and `InsertSound` say that a statement the constraints let through leaves
every reference leading to a row (`References`). `WholeFixture` needs that the one
seed is never refused: `InOrder` says that an insert names nothing twice and nothing
that comes later, and `OneFixture` that the tables hold exactly what was inserted
before the statement the seed is at.

Only model-checked: the liveness properties (outside the prover's reach, as is
ENABLED); `NoFalseReuse` and `LogoutEndsSession`; and the violations, which are
single traces.

## What is not modelled

* User and team forms: their writes and what follows them are in `WebCache`, their
  fields and validation are not modelled; they have no confirmation and no
  several-step protocol.
* `UsersService` rename: a column nothing reads. `AuthService.me`, getters: reads that
  change nothing.
* The notifier when `MAIL_ENABLED` is off, which does nothing.
* Login throttling: the counters are the library's; the answer it gives is one
  of `WebSession`'s.
* JWT verification: a pure check. Role claims that are out of date are in `Tasks`,
  access tokens that have expired in `WebSession`.
* Failing statements outside `refresh` and the seed: elsewhere a failed statement
  ends the handler before or instead of its one write, which is a request that
  stops.
* The envelope of error answers, validation pipes, break-glass logging, application
  wiring, layout and charts: no state.
* Several tabs of the web client: the jar they share is in `Sessions`, but
  `WebSession` has one page, and `WebCache` and `TaskForms` see other pages only as
  writers.

## Plan

Done: all modules listed above, with the proofs that matter most. To come, most
important first:

1. `WebSession` with a second tab: two shared promises over one jar, with the
   refusals that `Sessions` allows for.
2. Proofs of `LogoutEndsSession` and `NoFalseReuse` under their assumptions (one
   tab per jar, no faults).

## Running it

    tlc -workers 2 -config sessions_race.cfg MCSessions
    tlapm SessionsProofs.tla
