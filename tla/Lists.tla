-------------------------------- MODULE Lists --------------------------------
(***************************************************************************)
(* Reading many rows: the task list and the user list of the web client,   *)
(* with their filters, the debounced search box and the pager, over the    *)
(* list endpoints that answer them with two statements, and the dashboard  *)
(* over the four statements of the aggregate.                              *)
(*                                                                         *)
(* No transaction here asks for more than READ COMMITTED: each statement   *)
(* reads the rows of its own moment, and other users write in between.     *)
(* One screen is looked at in a behaviour.                                 *)
(***************************************************************************)
EXTENDS Naturals, FiniteSets

CONSTANTS
  Screens,      \* bound: the screens looked at, of tasks, users and dashboard
  People, Teams,
  Start,        \* the rows each screen starts with, oldest first
  Filters,      \* bound: the values tried for each axis of each screen
  MaxRows,      \* bound: rows ever written
  Limit,        \* page size
  MaxMoves,     \* bound: filters set, searches typed and pages picked
  MaxEvents     \* bound: writes, answers lost, the clock passing a deadline

Progress == {"TODO", "IN_PROGRESS", "DONE"}
Tasks == [progress : Progress, deadline : {"none", "past", "soon"}, assignee : People,
          found : BOOLEAN]      \* found: the search word occurs in it
Users == [role : {"ADMIN", "LEADER", "MEMBER"}, team : Teams \cup {"none"}, active : BOOLEAN]
Absent == [absent |-> TRUE]
Ids == 1 .. MaxRows

ASSUME ListsAssumption ==
  /\ Screens \subseteq {"tasks", "users", "dashboard"}
  /\ \A s \in Screens :
       Start[s] \in [Ids -> (IF s = "users" THEN Users ELSE Tasks) \cup {Absent}]
  /\ "tasks" \in Screens /\ "overdue" \in DOMAIN Filters.tasks =>
       Filters.tasks.overdue \subseteq {"all", "overdue", "ontime"}
  /\ MaxRows \in Nat \ {0} /\ Limit \in Nat \ {0} /\ MaxMoves \in Nat /\ MaxEvents \in Nat

VARIABLES
  screen,
  rows,         \* the table the screen reads
  late,         \* deadline "soon" has passed
  active,       \* People that are not deactivated
  filters, search, page,        \* the controls, and the debounced search
  cache, failed, flights, last, \* queries: data, errors, requests, placeholder
  stats,        \* request of the dashboard
  moves, events,
  hasty         \* history: a page was picked from the pager of other filters

table == <<rows, late, active>>
controls == <<filters, search, page>>
queries == <<cache, failed, flights, last>>
vars == <<screen, table, controls, queries, stats, moves, events, hasty>>

-----------------------------------------------------------------------------
(* The statements *)

Passed(d, now) == d = "past" \/ (d = "soon" /\ now)

\* DueStatus, computed for a row in hand ...
IsOverdue(row, now) ==
  row.deadline # "none" /\ Passed(row.deadline, now) /\ row.progress # "DONE"

\* ... and the same as a condition of the database, where NULL < now is not true.
OverduePredicate(row, now) == Passed(row.deadline, now) /\ row.progress # "DONE"

NotOverdue(row, now) ==
  row.deadline = "none" \/ ~Passed(row.deadline, now) \/ row.progress = "DONE"

BuildListWhere(row, f, now) ==
  /\ f.assignee \in {"all", row.assignee}
  /\ f.progress \in {"all", row.progress}
  /\ f.q # "" => row.found
  /\ f.overdue = "overdue" => OverduePredicate(row, now)
  /\ f.overdue = "ontime" => NotOverdue(row, now)

UsersWhere(row, f) ==
  /\ f.role \in {"all", row.role}
  /\ f.team \in {"all", row.team}
  /\ f.inactive \/ row.active

Where(f, now) ==
  {i \in Ids : rows[i] # Absent /\ IF screen = "users" THEN UsersWhere(rows[i], f)
                                   ELSE BuildListWhere(rows[i], f, now)}

\* Newest first, then skip and take.
Window(ids, p) ==
  {i \in ids : LET rank == Cardinality({j \in ids : j >= i})
               IN rank > (p - 1) * Limit /\ rank <= p * Limit}

\* The projection of a row, with the mark the clock of the request gives it.
Item(i, now) ==
  [id |-> i, row |-> rows[i], overdue |-> screen = "tasks" /\ IsOverdue(rows[i], now)]

\* The same, as the dashboard counts them.
OverdueWhere(row, now) == OverduePredicate(row, now)

GroupByProgress ==
  [u \in People |-> [p \in Progress |->
     Cardinality({i \in Ids : rows[i] # Absent /\ rows[i].assignee = u /\ rows[i].progress = p})]]
GroupOverdue(now) ==
  [u \in People |->
     Cardinality({i \in Ids : rows[i] # Absent /\ rows[i].assignee = u /\ OverdueWhere(rows[i], now)})]

-----------------------------------------------------------------------------
(* Queries of the client *)

Unfiltered ==
  IF screen = "tasks" THEN [progress |-> "all", overdue |-> "all", assignee |-> "all", q |-> ""]
  ELSE [role |-> "all", team |-> "all", inactive |-> FALSE]

\* What is asked for: the search box counts once it has been quiet.
Params(f, q, p) == [f |-> IF screen = "tasks" THEN [f EXCEPT !.q = q] ELSE f, page |-> p]

\* Seeded fault: the key is made before the search is added.
Key_WithoutSearch(params) ==
  [params EXCEPT !.f = IF screen = "tasks" THEN [@ EXCEPT !.q = ""] ELSE @]

Key(params) == params
Current == Key(Params(filters, search, page))

Has(k) == \E a \in cache : a.key = k
Data(k) == CHOOSE a \in cache : a.key = k
NoData == [none |-> TRUE]
InFlight(k) == \E r \in flights : r.key = k
Ask(params) == [key |-> Key(params), params |-> params, st |-> "asked"]

\* placeholderData keeps the last rows on the screen while others load.
Shown ==
  IF Has(Current) THEN Data(Current)
  ELSE IF Current \in failed \/ last = NoData THEN NoData
  ELSE Data(last)

Init ==
  /\ screen \in Screens
  /\ rows = Start[screen] /\ late = FALSE /\ active = People
  /\ filters = Unfiltered /\ search = "" /\ page = 1
  /\ cache = {} /\ failed = {} /\ last = NoData
  /\ flights = IF screen = "dashboard" THEN {} ELSE {Ask(Params(Unfiltered, "", 1))}
  /\ stats = [st |-> IF screen = "dashboard" THEN "asked" ELSE "idle"]
  /\ moves = 0 /\ events = 0 /\ hasty = FALSE

\* The hook follows its parameters: another key is fetched, unless it is
\* under way; what is under way for the old one goes on.
Look(f, q, p) ==
  LET params == Params(f, q, p) IN
  /\ filters' = f /\ search' = q /\ page' = p
  /\ last' = IF Has(Current) THEN Current ELSE last
  /\ IF Key(params) = Current \/ InFlight(Key(params))
     THEN UNCHANGED <<flights, failed>>
     ELSE flights' = flights \cup {Ask(params)} /\ failed' = failed \ {Key(params)}
  /\ UNCHANGED <<screen, table, cache, stats, events>>

Move == screen # "dashboard" /\ moves < MaxMoves /\ moves' = moves + 1

\* Seeded fault: the page stays when the filters change.
PatchFilters_KeepsPage(f) == Look(f, search, page)

PatchFilters(f) == Look(f, search, 1)

SetFilter(axis, v) ==
  /\ Move /\ filters[axis] # v
  /\ PatchFilters([filters EXCEPT ![axis] = v])
  /\ UNCHANGED hasty

\* The filter bars of the two lists.
TaskFilters ==
  screen = "tasks" /\ \E axis \in DOMAIN Filters.tasks : \E v \in Filters.tasks[axis] : SetFilter(axis, v)
UserFilters ==
  screen = "users" /\ \E axis \in DOMAIN Filters.users : \E v \in Filters.users[axis] : SetFilter(axis, v)

\* 350 ms after the last keystroke, whatever was done in between.
Debounce ==
  /\ screen = "tasks" /\ search # filters.q
  /\ Look(filters, filters.q, page)
  /\ UNCHANGED <<moves, hasty>>

\* There is no pager under an empty list.
PickPage(p) ==
  /\ Move
  /\ Shown # NoData /\ Shown.items # {}
  /\ p <= (Shown.total + Limit - 1) \div Limit /\ p # page
  /\ Look(filters, search, p)
  /\ hasty' = (hasty \/ Shown.key.f # Params(filters, filters.q, p).f)

-----------------------------------------------------------------------------
(* The list endpoints *)

To(r, s) == flights' = (flights \ {r}) \cup {s}

\* The clock is read once.
Execute(r) ==
  /\ r.st = "asked"
  /\ To(r, [key |-> r.key, params |-> r.params, st |-> "begun", now |-> late])
  /\ UNCHANGED <<screen, table, controls, cache, failed, last, stats, moves, events, hasty>>

FindMany(r) ==
  /\ r.st = "begun"
  /\ LET ids == Window(Where(r.params.f, r.now), r.params.page) IN
     To(r, [key |-> r.key, params |-> r.params, st |-> "read", now |-> r.now,
            items |-> {Item(i, r.now) : i \in ids}])
  /\ UNCHANGED <<screen, table, controls, cache, failed, last, stats, moves, events, hasty>>

\* The second statement, and the answer.
CountAndDeliver(r) ==
  /\ r.st = "read"
  /\ flights' = flights \ {r}
  /\ cache' = {a \in cache : a.key # r.key} \cup
       {[key |-> r.key, items |-> r.items, now |-> r.now,
         total |-> Cardinality(Where(r.params.f, r.now))]}
  /\ failed' = failed \ {r.key}
  /\ UNCHANGED <<screen, table, controls, last, stats, moves, events, hasty>>

Happen == events < MaxEvents /\ events' = events + 1

Lose(r) ==
  /\ Happen
  /\ flights' = flights \ {r} /\ failed' = failed \cup {r.key}
  /\ UNCHANGED <<screen, table, controls, cache, last, stats, moves, hasty>>

-----------------------------------------------------------------------------
(* The aggregate *)

Unread == [st |-> "unread"]
Result(v) == [st |-> "read", val |-> v]

StatsBegin ==
  /\ stats.st = "asked"
  /\ stats' = [st |-> "begun", now |-> late, since |-> events,
               progress |-> Unread, overdue |-> Unread, members |-> Unread]
  /\ UNCHANGED <<screen, table, controls, queries, moves, events, hasty>>

\* Four statements side by side; the name of the team matters to nobody.
StatsRead(part, v) ==
  /\ stats.st = "begun" /\ stats[part] = Unread
  /\ stats' = [stats EXCEPT ![part] = Result(v)]
  /\ UNCHANGED <<screen, table, controls, queries, moves, events, hasty>>

\* Seeded fault: only active members get a line.
ByAssignee_ActiveOnly == stats.members.val

\* Active members, and whoever else has tasks.
ByAssignee ==
  stats.members.val \cup
    {u \in People : \E p \in Progress : stats.progress.val[u][p] > 0}

StatsCompose ==
  /\ stats.st = "begun"
  /\ \A part \in {"progress", "overdue", "members"} : stats[part] # Unread
  /\ stats' = [st |-> "answered", now |-> stats.now, since |-> stats.since,
               counted |-> stats.progress.val,
               byProgress |-> [u \in ByAssignee |-> stats.progress.val[u]],
               overdue |-> [u \in ByAssignee |-> stats.overdue.val[u]]]
  /\ UNCHANGED <<screen, table, controls, queries, moves, events, hasty>>

-----------------------------------------------------------------------------
(* Other users *)

Tick ==
  /\ Happen /\ ~late /\ late' = TRUE /\ screen # "users"
  /\ UNCHANGED <<screen, rows, active, controls, queries, stats, moves, hasty>>

\* A task or a user is written: created last, changed, or deleted.
Rewrites(row) ==
  IF screen = "users" THEN {[row EXCEPT !.active = ~@]}
  ELSE {[row EXCEPT !.progress = p] : p \in Progress}
         \cup {[row EXCEPT !.assignee = u] : u \in People} \cup {Absent}

Written(i, row) == rows' = [rows EXCEPT ![i] = row]

Elsewhere ==
  /\ Happen
  /\ \/ \E i \in Ids : rows[i] # Absent /\ \E row \in Rewrites(rows[i]) : Written(i, row)
     \/ \E i \in Ids, j \in Ids :
          /\ rows[i] # Absent /\ \A k \in j .. MaxRows : rows[k] = Absent /\ i < j
          /\ Written(j, rows[i])
  /\ UNCHANGED <<screen, late, active, controls, queries, stats, moves, hasty>>

Deactivate(u) ==
  /\ Happen /\ screen = "dashboard" /\ u \in active
  /\ active' = active \ {u}
  /\ UNCHANGED <<screen, rows, late, controls, queries, stats, moves, hasty>>

\* The row's own button; what is on the screen is fetched again.
RunDeactivate(i) ==
  /\ Happen /\ screen = "users"
  /\ Shown # NoData /\ \E it \in Shown.items : it.id = i /\ it.row.active
  /\ Written(i, [rows[i] EXCEPT !.active = FALSE])
  /\ flights' = {r \in flights : r.key # Current \/ ~Has(Current)} \cup
       (IF InFlight(Current) /\ ~Has(Current) THEN {} ELSE {Ask(Params(filters, search, page))})
  /\ UNCHANGED <<screen, late, active, controls, cache, failed, last, stats, moves, hasty>>

-----------------------------------------------------------------------------
Serve(r) == Execute(r) \/ FindMany(r) \/ CountAndDeliver(r)

ServeStats ==
  \/ StatsBegin
  \/ StatsRead("progress", GroupByProgress)
  \/ stats.st = "begun" /\ StatsRead("overdue", GroupOverdue(stats.now))
  \/ StatsRead("members", active)
  \/ StatsCompose

Next ==
  \/ TaskFilters \/ UserFilters
  \/ Debounce
  \/ \E p \in Ids : PickPage(p)
  \/ \E r \in flights : Serve(r) \/ Lose(r)
  \/ ServeStats
  \/ Tick \/ Elsewhere
  \/ \E u \in People : Deactivate(u)
  \/ \E i \in Ids : RunDeactivate(i)

Spec == Init /\ [][Next]_vars

-----------------------------------------------------------------------------
(* Properties *)

Keys == {a.key : a \in cache} \cup failed \cup {r.key : r \in flights}

\* One request and one answer per key, and no more rows in it than a page has.
TypeOK ==
  /\ screen \in Screens /\ late \in BOOLEAN /\ active \subseteq People /\ hasty \in BOOLEAN
  /\ rows \in [Ids -> Tasks \cup Users \cup {Absent}]
  /\ page \in Ids /\ \A k \in Keys : k.page \in Ids
  /\ \A a, b \in cache : a.key = b.key => a = b
  /\ \A r, s \in flights : r.key = s.key => r = s
  /\ last = NoData \/ Has(last)
  /\ \A a \in cache : Cardinality(a.items) <= Limit
  /\ stats.st \in {"idle", "asked", "begun", "answered"}
  /\ moves \in 0 .. MaxMoves /\ events \in 0 .. MaxEvents

\* Nothing is on its way that would change the screen.
AtRest ==
  /\ screen = "tasks" => search = filters.q
  /\ Has(Current) /\ ~InFlight(Current)

\* At rest every row on the screen satisfies every control of the filter bar,
\* however the answers to earlier settings came in; and its overdue mark, which
\* the program computes, agrees with the overdue filter, which the database
\* computes, although time passes (TaskList.tsx:34, hooks.ts:16,
\* list-tasks.usecase.ts:17).
RowsAsFiltered ==
  AtRest => \A it \in Shown.items :
    IF screen = "users" THEN UsersWhere(it.row, filters)
    ELSE /\ BuildListWhere(it.row, filters, Shown.now)
         /\ filters.overdue # "all" => it.overdue = (filters.overdue = "overdue")

Stranded == AtRest /\ Shown.items = {} /\ page > 1

\* "Any filter change resets to page 1 so results aren't stranded on a
\* now-empty page" (TaskList.tsx:57), where there is no pager: so it is as
\* long as nothing happens around the page (no row changes, no deadline passes,
\* no answer is lost) and no page is picked while a search waits or the rows of
\* the filters before are still on the screen.
StrandedOnlyByHaste == Stranded => hasty \/ events > 0

\* The comment itself, while nothing happens around the page.
NeverStranded == Stranded => events > 0

\* The dashboard loses no task: who has a line has on it what was counted for
\* him, who has none has no task, also after a deactivation between the
\* statements, so that the sums over the lines, which are the team's figures,
\* are right; and if nothing was written meanwhile, a line's overdue figure is
\* the number of rows the overdue filter lists (prisma-task.repository.ts:109,
\* 139, 263).
StatsAddUp ==
  stats.st = "answered" => \A u \in People :
    /\ \A p \in Progress :
         stats.counted[u][p] = IF u \in DOMAIN stats.byProgress THEN stats.byProgress[u][p] ELSE 0
    /\ events = stats.since =>
         Cardinality({i \in Ids : rows[i] # Absent /\ rows[i].assignee = u /\ BuildListWhere(rows[i],
           [assignee |-> "all", progress |-> "all", q |-> "", overdue |-> "overdue"], stats.now)})
         = IF u \in DOMAIN stats.overdue THEN stats.overdue[u] ELSE 0

\* The overdue tasks are among those not done (docs/06-api-contract.md:230).
OverdueAmongOpen ==
  stats.st = "answered" =>
    \A u \in DOMAIN stats.overdue :
      stats.overdue[u] <= stats.byProgress[u]["TODO"] + stats.byProgress[u]["IN_PROGRESS"]
=============================================================================
