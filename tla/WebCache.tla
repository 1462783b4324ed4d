------------------------------ MODULE WebCache ------------------------------
(***************************************************************************)
(* What the screens of one page show: the query hooks, the key factory,    *)
(* the writes with the keys they invalidate, and the one QueryClient all   *)
(* of it lives in from page load to page load, whoever is signed in.       *)
(*                                                                         *)
(* A cached answer is the server's version it was read at and the user it  *)
(* was read for.  Fetches and writes are asked, served and answered in     *)
(* separate steps; mounting a screen, and what a settled promise sets off, *)
(* is one step.  How the page signs in and out is the matter of            *)
(* WebSession, what happens inside a form that of TaskForms.               *)
(***************************************************************************)
EXTENDS Naturals, FiniteSets

CONSTANTS
  Users, NoUser,
  RoleOf,       \* role of each user
  TeamOf,       \* team of each user, NoTeam for administrators
  NoTeam,
  Kinds,        \* bound: kinds of writes submitted in a behaviour
  MaxVisits,    \* bound: screens mounted in a behaviour
  MaxEvents     \* bound: writes submitted and requests lost in a behaviour

-----------------------------------------------------------------------------
(* Keys, screens and writes *)

\* Seeded fault: one roster key for all teams.
Roster_OneForAll(t) == <<"roster", NoTeam>>

\* queryKeys.  A list has one key here: the page and the filters are the
\* matter of Lists, and one record is looked at.
Roster(t) == <<"roster", t>>
TaskList == <<"tasks", "list">>
TaskDetail == <<"tasks", "detail">>
UserList == <<"users", "list">>
TeamMembers == <<"users", "team">>
TeamList == <<"teams", "list">>
TeamDetail == <<"teams", "detail">>
Stats == <<"stats", "all">>
Details == {TaskDetail, TeamDetail}
\* useRoster is disabled without a team.
UseRoster(u) == IF TeamOf[u] = NoTeam THEN {} ELSE {Roster(TeamOf[u])}

Keys == {TaskList, TaskDetail, UserList, TeamMembers, TeamList, TeamDetail, Stats}
          \cup UNION {UseRoster(u) : u \in Users}

\* The queries each screen mounts.
TasksListPage(u) == {TaskList} \cup UseRoster(u)
TaskDetailPage(u) == {TaskDetail} \cup (IF RoleOf[u] = "LEADER" THEN UseRoster(u) ELSE {})
TaskCreatePage(u) == IF RoleOf[u] = "LEADER" THEN UseRoster(u) ELSE {}
DashboardPage == {Stats}
AdminUsersPage == {TeamList, UserList}
AdminUserCreatePage == {TeamList}
AdminTeamsPage == {TeamList}
AdminTeamDetailPage == {TeamDetail, TeamMembers}

Screens(u) ==
  IF u = NoUser THEN {"login"}
  ELSE CASE RoleOf[u] = "ADMIN" -> {"users", "newUser", "teams", "team"}
         [] RoleOf[u] = "LEADER" -> {"tasks", "task", "newTask", "dashboard"}
         [] OTHER -> {"tasks", "task", "newTask"}
AllScreens == {"login", "forbidden"} \cup UNION {Screens(u) : u \in Users}

Mounts(s, u) ==
  CASE s = "tasks" -> TasksListPage(u)
    [] s = "task" -> TaskDetailPage(u)
    [] s = "newTask" -> TaskCreatePage(u)
    [] s = "dashboard" -> DashboardPage
    [] s = "users" -> AdminUsersPage
    [] s = "newUser" -> AdminUserCreatePage
    [] s = "teams" -> AdminTeamsPage
    [] s = "team" -> AdminTeamDetailPage
    [] OTHER -> {}

TaskWrites == {"createTask", "updateTask", "updateProgress", "reassignTask", "deleteTask"}
UserWrites == {"createUser", "updateUser", "deactivateUser", "reactivateUser"}
TeamWrites == {"createTeam", "updateTeam", "deleteTeam"}
Writes == TaskWrites \cup UserWrites \cup TeamWrites \cup {"setLeader"}

ASSUME CacheAssumption ==
  /\ RoleOf \in [Users -> {"ADMIN", "LEADER", "MEMBER"}]
  /\ \A u \in Users : RoleOf[u] = "ADMIN" <=> TeamOf[u] = NoTeam
  /\ NoUser \notin Users /\ Kinds \subseteq Writes
  /\ MaxVisits \in Nat /\ MaxEvents \in Nat

\* The key prefixes a write invalidates when it has succeeded.
TaskInvalidates == {"tasks"}
UserInvalidates == {"users"}
TeamInvalidates == {"teams"}

\* Seeded fault: the leader swap forgets that it changed two users.
SetLeaderInvalidates_TeamsOnly == {"teams"}

SetLeaderInvalidates == {"teams", "users"}

Invalidates(w) ==
  CASE w \in TaskWrites -> TaskInvalidates
    [] w \in UserWrites -> UserInvalidates
    [] w \in TeamWrites -> TeamInvalidates
    [] OTHER -> SetLeaderInvalidates

\* The resource a write is on.
Resource(w) ==
  CASE w \in TaskWrites -> "tasks"
    [] w \in TeamWrites -> "teams"
    [] OTHER -> "users"

\* The other resources whose answers it changes: a roster lists the active users
\* of a team, the statistics have a line for each of them and the team's name,
\* tasks carry names.
AlsoIn(w) ==
  CASE w \in TaskWrites \cup {"updateTeam"} -> {"stats"}
    [] w = "updateUser" -> {"roster", "stats", "tasks"}
    [] w \in UserWrites -> {"roster", "stats"}
    [] OTHER -> {}

Changes(w) == {Resource(w)} \cup AlsoIn(w)

Of(prefixes) == {k \in Keys : k[1] \in prefixes}

-----------------------------------------------------------------------------
VARIABLES
  user,     \* identity
  screen,
  gone,     \* Details whose record was deleted
  now,      \* version of the server's data: writes carried out
  data,     \* cached answers
  failed,   \* keys whose last fetch failed
  fetch,    \* fetch under way for each key
  write,    \* write under way of each kind
  waits,    \* keys whose refetch a succeeded write waits for
  mine,     \* history: version of the last acknowledged write that changed a key
  passed,   \* history: keys that such a write passed over
  joined,   \* history: keys whose fetch was under way for somebody else at a login
  visits, events

bounds == <<visits, events>>
vars == <<user, screen, gone, now, data, failed, fetch, write, waits, mine, passed, joined, bounds>>

NoData == [none |-> TRUE]
Idle == [st |-> "idle"]
Asked(u) == [st |-> "asked", for |-> u]
NoWrite == [st |-> "none"]

\* A page load, at any address the session may see: the cache is empty.
Init ==
  /\ user \in Users \cup {NoUser}
  /\ screen \in Screens(user)
  /\ fetch = [k \in Keys |-> IF k \in Mounts(screen, user) THEN Asked(user) ELSE Idle]
  /\ gone = {} /\ now = 0
  /\ data = [k \in Keys |-> NoData]
  /\ failed = {}
  /\ write = [w \in Writes |-> NoWrite]
  /\ waits = [w \in Writes |-> {}]
  /\ mine = [k \in Keys |-> 0]
  /\ passed = {} /\ joined = {}
  /\ visits = 0 /\ events = 0

Mounted == Mounts(screen, user)
Fetching == {k \in Keys : fetch[k] # Idle}
HasData(k) == data[k] # NoData

\* Lists keep what they have when a fetch fails, details show the error.
Shown == {k \in Mounted : HasData(k) /\ ~(k \in Details /\ k \in failed)}

-----------------------------------------------------------------------------
(* Screens *)

\* Mounting fetches what is missing or stale, which everything but a roster
\* of the last five minutes is, and joins a fetch that is under way.
Mount(s, u) ==
  \E fresh \in SUBSET {k \in Mounts(s, u) : k[1] = "roster" /\ HasData(k) /\ k \notin failed} :
    LET asked == Mounts(s, u) \ (fresh \cup Fetching) IN
    /\ user' = u /\ screen' = s
    /\ fetch' = [k \in Keys |-> IF k \in asked THEN Asked(u) ELSE fetch[k]]
    /\ passed' = passed \ asked
    /\ joined' = (IF u = user THEN joined ELSE joined \cup Fetching) \ asked

Visit(s) ==
  /\ user # NoUser /\ s # screen
  /\ visits < MaxVisits /\ visits' = visits + 1
  /\ Mount(s, user)
  /\ UNCHANGED <<gone, now, data, failed, write, waits, mine, events>>

Login(u) ==
  /\ user = NoUser
  /\ visits < MaxVisits /\ visits' = visits + 1
  /\ Mount(CASE RoleOf[u] = "ADMIN" -> "users" [] RoleOf[u] = "LEADER" -> "dashboard"
             [] OTHER -> "tasks", u)
  /\ UNCHANGED <<gone, now, data, failed, write, waits, mine, events>>

\* Nothing of the cache is dropped.
Logout ==
  /\ user # NoUser
  /\ user' = NoUser /\ screen' = "login"
  /\ UNCHANGED <<gone, now, data, failed, fetch, write, waits, mine, passed, joined, bounds>>

-----------------------------------------------------------------------------
(* Fetches *)

\* A deleted record is a 404.
ServeFetch(k) ==
  /\ fetch[k].st = "asked"
  /\ fetch' = [fetch EXCEPT ![k] =
       IF k \in gone THEN [st |-> "failed"]
       ELSE [st |-> "answered", ver |-> now, for |-> fetch[k].for]]
  /\ UNCHANGED <<user, screen, gone, now, data, failed, write, waits, mine, passed, joined, bounds>>

FailFetch(k) ==
  /\ fetch[k].st = "asked"
  /\ events < MaxEvents /\ events' = events + 1
  /\ fetch' = [fetch EXCEPT ![k] = [st |-> "failed"]]
  /\ UNCHANGED <<user, screen, gone, now, data, failed, write, waits, mine, passed, joined, visits>>

\* Seeded fault: the promise of a refetch that failed stays open.
DeliverFetch_OpenOnError(k) ==
  /\ fetch[k].st \in {"answered", "failed"}
  /\ IF fetch[k].st = "answered"
     THEN /\ data' = [data EXCEPT ![k] = [ver |-> fetch[k].ver, for |-> fetch[k].for]]
          /\ failed' = failed \ {k}
          /\ waits' = [w \in Writes |-> waits[w] \ {k}]
     ELSE /\ failed' = failed \cup {k}
          /\ UNCHANGED <<data, waits>>
  /\ fetch' = [fetch EXCEPT ![k] = Idle]
  /\ UNCHANGED <<user, screen, gone, now, write, mine, passed, joined, bounds>>

DeliverFetch(k) ==
  /\ fetch[k].st \in {"answered", "failed"}
  /\ IF fetch[k].st = "answered"
     THEN /\ data' = [data EXCEPT ![k] = [ver |-> fetch[k].ver, for |-> fetch[k].for]]
          /\ failed' = failed \ {k}
     ELSE /\ failed' = failed \cup {k}
          /\ UNCHANGED data
  /\ fetch' = [fetch EXCEPT ![k] = Idle]
  /\ waits' = [w \in Writes |-> waits[w] \ {k}]
  /\ UNCHANGED <<user, screen, gone, now, write, mine, passed, joined, bounds>>

-----------------------------------------------------------------------------
(* Writes *)

\* The controls a screen offers, given what it shows.
TaskControls ==
  CASE screen = "newTask" -> IF \A k \in Mounted : HasData(k) THEN {"createTask"} ELSE {}
    [] screen = "task" /\ TaskDetail \in Shown ->
         {"updateTask", "deleteTask", "updateProgress"}
           \cup {w \in {"reassignTask"} : RoleOf[user] = "LEADER" /\ UseRoster(user) \subseteq Shown}
    [] OTHER -> {}

UserControls ==
  CASE screen = "newUser" -> {"createUser"}
    [] screen = "users" /\ UserList \in Shown -> UserWrites \ {"createUser"}
    [] OTHER -> {}

TeamControls ==
  CASE screen = "teams" -> {"createTeam"} \cup {w \in {"updateTeam"} : TeamList \in Shown}
    [] screen = "team" /\ TeamDetail \in Shown ->
         {"deleteTeam"} \cup {w \in {"setLeader"} : TeamMembers \in Shown}
    [] OTHER -> {}

\* Pending writes disable their control.
Submit(w) ==
  /\ w \in Kinds
  /\ w \in TaskControls \cup UserControls \cup TeamControls
  /\ write[w] = NoWrite
  /\ events < MaxEvents /\ events' = events + 1
  /\ write' = [write EXCEPT ![w] = [st |-> "sent"]]
  /\ UNCHANGED <<user, screen, gone, now, data, failed, fetch, waits, mine, passed, joined, visits>>

\* Carried out, or refused by a guard, a rule or because the record is gone.
ServeWrite(w) ==
  /\ write[w].st = "sent"
  /\ \/ /\ now' = now + 1
        /\ write' = [write EXCEPT ![w] = [st |-> "ok", ver |-> now + 1]]
        /\ gone' = gone \cup {k \in Details : <<w, k>> \in
                                {<<"deleteTask", TaskDetail>>, <<"deleteTeam", TeamDetail>>}}
     \/ /\ write' = [write EXCEPT ![w] = [st |-> "refused"]]
        /\ UNCHANGED <<now, gone>>
  /\ UNCHANGED <<user, screen, data, failed, fetch, waits, mine, passed, joined, bounds>>

\* The answer is lost, and the page takes the write for failed.
FailWrite(w) ==
  /\ write[w].st = "ok"
  /\ events < MaxEvents /\ events' = events + 1
  /\ write' = [write EXCEPT ![w] = [st |-> "refused"]]
  /\ UNCHANGED <<user, screen, gone, now, data, failed, fetch, waits, mine, passed, joined, visits>>

\* invalidateQueries refetches what is mounted.  A fetch under way is
\* abandoned for it only when the query has data already; the first fetch of
\* a query is joined.
Refetched(prefixes) ==
  {k \in Mounted \cap Of(prefixes) : k \notin Fetching \/ HasData(k)}

\* All but the leader swap return the promise of the refetches.
Awaited(w) == IF w = "setLeader" THEN {} ELSE Mounted \cap Of(Invalidates(w))

\* First fetches, and those of screens left, that are under way go on.  Views of
\* another resource are not invalidated: an open one stays as it is, and a
\* roster also when it is opened again.
PassedOver(w) ==
  (Of(Changes(w)) \cap {k \in Fetching : ~HasData(k) \/ k \notin Mounted})
  \cup {k \in Of(AlsoIn(w)) : k \in Mounted \/ (k[1] = "roster" /\ HasData(k))}

\* onSuccess: invalidate.  Who waits for an abandoned fetch waits no longer.
DeliverOk(w) ==
  /\ write[w].st = "ok"
  /\ LET again == Refetched(Invalidates(w)) IN
     /\ fetch' = [k \in Keys |-> IF k \in again THEN Asked(user) ELSE fetch[k]]
     /\ waits' = [x \in Writes |->
          IF x = w THEN Awaited(w) ELSE waits[x] \ again]
     /\ passed' = (passed \cup PassedOver(w)) \ again
     /\ joined' = joined \ again
  /\ mine' = [k \in Keys |-> IF k \in Of(Changes(w)) THEN write[w].ver ELSE mine[k]]
  /\ write' = [write EXCEPT ![w] = [st |-> "settling"]]
  /\ UNCHANGED <<user, screen, gone, now, data, failed, bounds>>

\* An error is shown, nothing is fetched again.
DeliverRefused(w) ==
  /\ write[w].st = "refused"
  /\ write' = [write EXCEPT ![w] = NoWrite]
  /\ UNCHANGED <<user, screen, gone, now, data, failed, fetch, waits, mine, passed, joined, bounds>>

\* Where the continuation of a write sends the page.
Goto(w) ==
  CASE w \in {"createTask", "deleteTask"} -> "tasks"
    [] w = "createUser" -> "users"
    [] w = "deleteTeam" -> "teams"
    [] OTHER -> screen

\* mutateAsync resolves.  The continuation navigates from wherever the page
\* is by then; RoleRoute and ProtectedRoute have their say about the target.
Settle(w) ==
  /\ write[w].st = "settling" /\ waits[w] = {}
  /\ write' = [write EXCEPT ![w] = NoWrite]
  /\ IF Goto(w) = screen \/ user = NoUser
     THEN UNCHANGED <<user, screen, fetch, passed, joined>>
     ELSE IF Goto(w) \in Screens(user)
     THEN Mount(Goto(w), user)
     ELSE /\ screen' = "forbidden"
          /\ UNCHANGED <<user, fetch, passed, joined>>
  /\ UNCHANGED <<gone, now, data, failed, waits, mine, bounds>>

-----------------------------------------------------------------------------
FetchStep(k) == ServeFetch(k) \/ DeliverFetch(k)
WriteStep(w) == ServeWrite(w) \/ DeliverOk(w) \/ DeliverRefused(w) \/ Settle(w)

Next ==
  \/ \E u \in Users : Login(u)
  \/ Logout
  \/ user # NoUser /\ \E s \in Screens(user) : Visit(s)
  \/ \E k \in Keys : FetchStep(k) \/ FailFetch(k)
  \/ \E w \in Writes : Submit(w) \/ WriteStep(w) \/ FailWrite(w)

\* Every request is answered, if only by the proxy's timeout, and promises
\* that can resolve do.
Progress == (\E k \in Keys : FetchStep(k)) \/ (\E w \in Writes : WriteStep(w))

Spec == Init /\ [][Next]_vars /\ WF_vars(Progress)

-----------------------------------------------------------------------------
(* Properties *)

Versions == 0 .. MaxEvents

TypeOK ==
  /\ user \in Users \cup {NoUser} /\ screen \in AllScreens
  /\ gone \subseteq Details /\ now \in Versions
  /\ data \in [Keys -> {NoData} \cup [ver : Versions, for : Users]]
  /\ failed \subseteq Keys /\ passed \subseteq Keys /\ joined \subseteq Keys
  /\ fetch \in [Keys -> {Idle, [st |-> "failed"]} \cup [st : {"asked"}, for : Users]
                          \cup [st : {"answered"}, ver : Versions, for : Users]]
  /\ write \in [Writes -> [st : {"none", "sent", "refused", "settling"}]
                            \cup [st : {"ok"}, ver : Versions]]
  /\ waits \in [Writes -> SUBSET Fetching]
  /\ mine \in [Keys -> Versions]
  /\ visits \in 0 .. MaxVisits /\ events \in 0 .. MaxEvents

\* On the screen, and the last fetch has come back and has succeeded.
AtRest == {k \in Mounted : HasData(k) /\ k \notin Fetching \cup failed}

\* Once the fetches have come back, every view on the screen shows the writes
\* this page was told of, whoever made them (hooks.ts:42, query-keys.ts:4).  Out
\* of reach, until the view is asked for again, are answers that were on their
\* way when the write was answered; and what a write changes on a resource it is
\* not on: views open at that moment, and rosters, which five minutes long are
\* not asked for again however often they are opened.
ReadYourWrites == \A k \in AtRest \ passed : data[k].ver >= mine[k]

\* The same of rosters, without the exceptions: a write makes the page resync
\* with the server (features/users/hooks.ts:19).
RostersResync == \A k \in AtRest : k[1] = "roster" => data[k].ver >= mine[k]

\* Once the fetches have come back, the screen shows what the server answered
\* to somebody of the signed-in user's team (query-keys.ts:34, hooks.ts:33), if
\* it was asked for since he signed in: a fetch of the user before him that was
\* still under way then is taken for his own, and its answer stays.
OwnOnceAnswered == \A k \in AtRest \ joined : TeamOf[data[k].for] = TeamOf[user]

\* The same without the exception.
OwnAtRestAlways == \A k \in AtRest : TeamOf[data[k].for] = TeamOf[user]

\* At any time what is shown was answered for the team of who is signed in:
\* an id outside the scope is a 404 that does not reveal existence
\* (TaskDetail.tsx:34), and the scope of a list is the server's (TaskList.tsx:34).
ShownIsOwn ==
  \A k \in Shown : TeamOf[data[k].for] = TeamOf[user]

\* No control stays disabled and no dialog stays busy: every write settles,
\* although it waits for refetches that other writes abandon and that fail.
EveryWriteSettles ==
  (\E w \in Writes : write[w] # NoWrite) ~> (\A w \in Writes : write[w] = NoWrite)
=============================================================================
