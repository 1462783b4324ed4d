----------------------------- MODULE Directory ------------------------------
(***************************************************************************)
(* Users and teams: UsersService (create, deactivate, reactivate) and      *)
(* TeamsService (create, rename, setLeader, remove), run by concurrent     *)
(* admin requests against PostgreSQL under READ COMMITTED, with the        *)
(* constraints of the initial migration and the error mapping of           *)
(* HttpExceptionFilter.                                                    *)
(*                                                                         *)
(* Every await on the database is a step of its own.  Only setLeader keeps *)
(* a transaction open across steps: the users it has written are locked,   *)
(* and what it wrote is not yet visible to others.                         *)
(***************************************************************************)
EXTENDS Naturals, FiniteSets

CONSTANTS
  Users, Teams,   \* ids the database may hand out
  Emails, Names,
  NoTeam,         \* a NULL teamId
  Requests,
  SeedUsers,      \* rows prisma/seed.ts creates: a function on some Users
  SeedTeams,      \* and on some Teams
  MaxInFlight     \* bound: requests handled at the same time

Roles == {"ADMIN", "LEADER", "MEMBER"}
UserRow == [email : Emails, role : Roles, team : Teams \cup {NoTeam}, active : BOOLEAN]
IsTable(f, Ids, Row) == DOMAIN f \subseteq Ids /\ f \in [DOMAIN f -> Row]
Put(f, k, v) == [x \in DOMAIN f \cup {k} |-> IF x = k THEN v ELSE f[x]]

ASSUME SeedAssumption ==
  /\ NoTeam \notin Teams
  /\ IsTable(SeedUsers, Users, UserRow)
  /\ IsTable(SeedTeams, Teams, Names)
  /\ \A u \in DOMAIN SeedUsers :
       /\ SeedUsers[u].role = "ADMIN" <=> SeedUsers[u].team = NoTeam
       /\ SeedUsers[u].team \in DOMAIN SeedTeams \cup {NoTeam}
  /\ \A u, v \in DOMAIN SeedUsers : u # v =>
       /\ SeedUsers[u].email # SeedUsers[v].email
       /\ SeedUsers[u].team = SeedUsers[v].team =>
            ~(SeedUsers[u].role = "LEADER" /\ SeedUsers[v].role = "LEADER")
  /\ \A s, t \in DOMAIN SeedTeams : s # t => SeedTeams[s] # SeedTeams[t]
ASSUME MaxInFlightAssumption == MaxInFlight \in Nat

VARIABLES
  user,     \* committed User rows, by id
  team,     \* committed Team rows (their names), by id
  pc,       \* where the handler of each request is
  job,      \* its parameters
  snap,     \* leaders the demoting UPDATE matched when it started
  demoted,  \* leaders an open setLeader transaction has demoted
  reply     \* code the last step answered its request with, if it did

vars == <<user, team, pc, job, snap, demoted, reply>>

NoJob == [op |-> "none"]
Codes == {"none", "OK", "EMAIL_TAKEN", "RESOURCE_NOT_FOUND", "LEADER_ALREADY_EXISTS",
          "TEAM_NOT_EMPTY", "CANNOT_DISABLE_SELF", "LEADER_REPLACEMENT_REQUIRED",
          "LAST_ADMIN", "LEADER_NOT_TEAM_MEMBER", "TEAM_NAME_TAKEN", "INTERNAL_ERROR"}

Init ==
  /\ user = SeedUsers
  /\ team = SeedTeams
  /\ pc = [r \in Requests |-> "idle"]
  /\ job = [r \in Requests |-> NoJob]
  /\ snap = [r \in Requests |-> {}]
  /\ demoted = [r \in Requests |-> {}]
  /\ reply = "none"

-----------------------------------------------------------------------------
(* Helpers *)

LeadersOf(t) == {u \in DOMAIN user : user[u].team = t /\ user[u].role = "LEADER"}
ActiveAdmins == {u \in DOMAIN user : user[u].role = "ADMIN" /\ user[u].active}
EmailTaken(e) == \E u \in DOMAIN user : user[u].email = e
NameTaken(n) == n \in {team[t] : t \in DOMAIN team}

\* The user rows an open setLeader transaction has written: the leaders it has
\* demoted, and the new one while the index entry of that row is awaited.
Written(q) ==
  demoted[q] \cup (IF pc[q] = "leader_enter" THEN {job[q].user} ELSE {})

\* Seeded fault: a statement of the swap runs outside its transaction, on a
\* connection of its own, and waits for the rows the transaction has locked.
RowLocked_ByAnyone(u, r) == \E q \in Requests : u \in Written(q)

\* Another transaction has written the user's row and is still open.
RowLocked(u, r) == \E q \in Requests \ {r} : u \in Written(q)

\* A new LEADER entry of team t in the partial unique index has to wait for
\* an open transaction that has written the row of the present entry.
SeatContested(t, r) ==
  \E q \in Requests \ {r} : Written(q) \cap LeadersOf(t) # {}

\* The users whose open change the present statement of a swap waits for: the
\* rows it demotes, the row it promotes, then the entries of the index.
Awaited(r) ==
  CASE pc[r] = "leader_demote"  -> snap[r]
    [] pc[r] = "leader_promote" -> {job[r].user}
    [] pc[r] = "leader_enter"   -> LeadersOf(job[r].team)
    [] OTHER                    -> {}

WaitsFor(r) == {q \in Requests \ {r} : Awaited(r) \cap Written(q) # {}}

\* r waits for itself, through any number of other transactions.
Deadlocked(r) ==
  \A S \in SUBSET Requests :
    WaitsFor(r) \subseteq S /\ (\A q \in S : WaitsFor(q) \subseteq S) => r \in S

\* The callers RolesGuard lets through: it reads the role in the access token,
\* which outlives a deactivation.
Callers == {u \in DOMAIN user : user[u].role = "ADMIN"}

Starting(r) ==
  /\ pc[r] = "idle"
  /\ Cardinality({q \in Requests : pc[q] # "idle"}) < MaxInFlight

Goto(r, label) ==
  /\ pc' = [pc EXCEPT ![r] = label]
  /\ reply' = "none"

Begin(r, label, j) ==
  /\ Goto(r, label)
  /\ job' = [job EXCEPT ![r] = j]

\* The handler ends with an answer; a transaction it had open is over.
Answer(r, code) ==
  /\ pc' = [pc EXCEPT ![r] = "idle"]
  /\ job' = [job EXCEPT ![r] = NoJob]
  /\ snap' = [snap EXCEPT ![r] = {}]
  /\ demoted' = [demoted EXCEPT ![r] = {}]
  /\ reply' = code

Continue(r, label) == Goto(r, label) /\ UNCHANGED <<job, snap, demoted>>

\* mapPrismaError on P2002 of user_one_leader_per_team: the code depends on
\* whether the driver reports the index or its column as the target.
LeaderIndexError == {"LEADER_ALREADY_EXISTS", "INTERNAL_ERROR"}

-----------------------------------------------------------------------------
(* POST /users *)

\* An id no row and no pending INSERT has.
FreshUser(u) ==
  u \in Users \ (DOMAIN user \cup
                 {job[q].user : q \in {q \in Requests : job[q].op = "createUser"}})

CreateUser(r, u, e, ro, t) ==
  /\ Starting(r)
  /\ FreshUser(u)
  /\ ro = "ADMIN" <=> t = NoTeam
  /\ \/ /\ EmailTaken(e)
        /\ Answer(r, "EMAIL_TAKEN")
     \/ /\ ~EmailTaken(e)
        /\ Begin(r, IF ro = "ADMIN" THEN "create_insert" ELSE "create_team",
                 [op |-> "createUser", user |-> u, email |-> e, role |-> ro, team |-> t])
        /\ UNCHANGED <<snap, demoted>>
  /\ UNCHANGED <<user, team>>

CreateCheckTeam(r) ==
  /\ pc[r] = "create_team"
  /\ \/ /\ job[r].team \notin DOMAIN team
        /\ Answer(r, "RESOURCE_NOT_FOUND")
     \/ /\ job[r].team \in DOMAIN team
        /\ Continue(r, IF job[r].role = "LEADER" THEN "create_count" ELSE "create_insert")
  /\ UNCHANGED <<user, team>>

CreateCountLeaders(r) ==
  /\ pc[r] = "create_count"
  /\ \/ /\ LeadersOf(job[r].team) # {}
        /\ Answer(r, "LEADER_ALREADY_EXISTS")
     \/ /\ LeadersOf(job[r].team) = {}
        /\ Continue(r, "create_insert")
  /\ UNCHANGED <<user, team>>

\* Seeded faults: the partial unique index, or the foreign key, was left out of
\* the migration.
CreateInsert_NoLeaderIndex(r) ==
  /\ pc[r] = "create_insert"
  /\ ~EmailTaken(job[r].email)
  /\ job[r].team \in DOMAIN team \cup {NoTeam}
  /\ user' = Put(user, job[r].user, [email |-> job[r].email, role |-> job[r].role,
                                     team |-> job[r].team, active |-> TRUE])
  /\ Answer(r, "OK")
  /\ UNCHANGED team

CreateInsert_NoForeignKey(r) ==
  /\ pc[r] = "create_insert"
  /\ ~EmailTaken(job[r].email)
  /\ ~(job[r].role = "LEADER" /\ LeadersOf(job[r].team) # {})
  /\ user' = Put(user, job[r].user, [email |-> job[r].email, role |-> job[r].role,
                                     team |-> job[r].team, active |-> TRUE])
  /\ Answer(r, "OK")
  /\ UNCHANGED team

\* user.create, with the unique indexes and the foreign key it can violate.
CreateInsert(r) ==
  /\ pc[r] = "create_insert"
  /\ LET j == job[r] IN
     /\ j.role = "LEADER" => ~SeatContested(j.team, r)
     /\ \/ /\ EmailTaken(j.email)
           /\ Answer(r, "EMAIL_TAKEN")
           /\ UNCHANGED user
        \/ /\ ~EmailTaken(j.email)
           /\ j.role = "LEADER" /\ LeadersOf(j.team) # {}
           /\ \E code \in LeaderIndexError : Answer(r, code)
           /\ UNCHANGED user
        \/ /\ ~EmailTaken(j.email)
           /\ ~(j.role = "LEADER" /\ LeadersOf(j.team) # {})
           /\ j.team \notin DOMAIN team \cup {NoTeam}
           /\ Answer(r, "TEAM_NOT_EMPTY")
           /\ UNCHANGED user
        \/ /\ ~EmailTaken(j.email)
           /\ ~(j.role = "LEADER" /\ LeadersOf(j.team) # {})
           /\ j.team \in DOMAIN team \cup {NoTeam}
           /\ user' = Put(user, j.user, [email |-> j.email, role |-> j.role,
                                         team |-> j.team, active |-> TRUE])
           /\ Answer(r, "OK")
  /\ UNCHANGED team

-----------------------------------------------------------------------------
(* POST /users/:id/deactivate and /reactivate *)

\* findUnique of the target, then the guards in the order of the source.
Deactivate(r, caller, u) ==
  /\ Starting(r)
  /\ \/ u \notin DOMAIN user /\ Answer(r, "RESOURCE_NOT_FOUND")
     \/ /\ u \in DOMAIN user
        /\ \/ u = caller /\ Answer(r, "CANNOT_DISABLE_SELF")
           \/ /\ u # caller /\ user[u].role = "LEADER"
              /\ Answer(r, "LEADER_REPLACEMENT_REQUIRED")
           \/ /\ u # caller /\ user[u].role # "LEADER"
              /\ Begin(r, IF user[u].role = "ADMIN" THEN "deactivate_count"
                                                    ELSE "deactivate_write",
                       [op |-> "deactivate", user |-> u])
              /\ UNCHANGED <<snap, demoted>>
  /\ UNCHANGED <<user, team>>

DeactivateCountAdmins(r) ==
  /\ pc[r] = "deactivate_count"
  /\ \/ /\ ActiveAdmins \ {job[r].user} = {}
        /\ Answer(r, "LAST_ADMIN")
     \/ /\ ActiveAdmins \ {job[r].user} # {}
        /\ Continue(r, "deactivate_write")
  /\ UNCHANGED <<user, team>>

\* Seeded fault: the whole row is replaced by the field that was sent.
DeactivateWrite_Replaces(r) ==
  /\ pc[r] = "deactivate_write"
  /\ ~RowLocked(job[r].user, r)
  /\ user' = [user EXCEPT ![job[r].user] = [active |-> FALSE]]
  /\ Answer(r, "OK")
  /\ UNCHANGED team

DeactivateWrite(r) ==
  /\ pc[r] = "deactivate_write"
  /\ ~RowLocked(job[r].user, r)
  /\ user' = [user EXCEPT ![job[r].user].active = FALSE]
  /\ Answer(r, "OK")
  /\ UNCHANGED team

\* The row found by findUnique is never deleted: load and update are one step.
Reactivate(r, u) ==
  /\ Starting(r)
  /\ \/ u \notin DOMAIN user /\ Answer(r, "RESOURCE_NOT_FOUND") /\ UNCHANGED user
     \/ /\ u \in DOMAIN user
        /\ ~RowLocked(u, r)
        /\ user' = [user EXCEPT ![u].active = TRUE]
        /\ Answer(r, "OK")
  /\ UNCHANGED team

-----------------------------------------------------------------------------
(* PUT /teams/:id/leader *)

SetLeader(r, t, u) ==
  /\ Starting(r)
  /\ \/ t \notin DOMAIN team /\ Answer(r, "RESOURCE_NOT_FOUND")
     \/ /\ t \in DOMAIN team
        /\ Begin(r, "leader_find", [op |-> "setLeader", user |-> u, team |-> t])
        /\ UNCHANGED <<snap, demoted>>
  /\ UNCHANGED <<user, team>>

\* tx.user.findFirst: an active member of this team, or the swap rolls back.
SetLeaderFind(r) ==
  /\ pc[r] = "leader_find"
  /\ LET eligible == /\ job[r].user \in DOMAIN user
                     /\ user[job[r].user].team = job[r].team
                     /\ user[job[r].user].active
     IN \/ ~eligible /\ Answer(r, "LEADER_NOT_TEAM_MEMBER")
        \/ eligible /\ Continue(r, "leader_snapshot")
  /\ UNCHANGED <<user, team>>

\* tx.user.updateMany starts: the rows it can demote.
SetLeaderSnapshot(r) ==
  /\ pc[r] = "leader_snapshot"
  /\ snap' = [snap EXCEPT ![r] = LeadersOf(job[r].team)]
  /\ Goto(r, "leader_demote")
  /\ UNCHANGED <<user, team, job, demoted>>

\* Seeded fault: the demotion is committed on its own.
SetLeaderDemote_Commits(r) ==
  /\ pc[r] = "leader_demote"
  /\ user' = [u \in DOMAIN user |->
                IF u \in snap[r] THEN [user[u] EXCEPT !.role = "MEMBER"] ELSE user[u]]
  /\ snap' = [snap EXCEPT ![r] = {}]
  /\ Goto(r, "leader_promote")
  /\ UNCHANGED <<team, job, demoted>>

\* It has their locks, tests its WHERE clause again and writes.
SetLeaderDemote(r) ==
  /\ pc[r] = "leader_demote"
  /\ \A u \in snap[r] : ~RowLocked(u, r)
  /\ demoted' = [demoted EXCEPT ![r] = snap[r] \cap LeadersOf(job[r].team)]
  /\ snap' = [snap EXCEPT ![r] = {}]
  /\ Goto(r, "leader_promote")
  /\ UNCHANGED <<user, team, job>>

\* tx.user.update of the new leader: it locks the row and writes it, and then
\* comes to the index.
SetLeaderLock(r) ==
  /\ pc[r] = "leader_promote"
  /\ ~RowLocked(job[r].user, r)
  /\ Continue(r, "leader_enter")
  /\ UNCHANGED <<user, team>>

\* Seeded fault: the partial unique index was left out of the migration.
SetLeaderPromote_NoIndex(r) ==
  /\ pc[r] = "leader_enter"
  /\ user' = [u \in DOMAIN user |->
                IF u = job[r].user THEN [user[u] EXCEPT !.role = "LEADER"]
                ELSE IF u \in demoted[r] THEN [user[u] EXCEPT !.role = "MEMBER"]
                ELSE user[u]]
  /\ Answer(r, "OK")
  /\ UNCHANGED team

\* Its entry in the partial unique index, and the commit; a second entry there
\* makes it fail and rolls the demotion back.
SetLeaderPromote(r) ==
  /\ pc[r] = "leader_enter"
  /\ LET j == job[r]
         rivals == LeadersOf(j.team) \ (demoted[r] \cup {j.user})
     IN
     /\ ~SeatContested(j.team, r)
     /\ \/ /\ rivals # {}
           /\ \E code \in LeaderIndexError : Answer(r, code)
           /\ UNCHANGED user
        \/ /\ rivals = {}
           /\ user' = [u \in DOMAIN user |->
                         IF u = j.user THEN [user[u] EXCEPT !.role = "LEADER"]
                         ELSE IF u \in demoted[r] THEN [user[u] EXCEPT !.role = "MEMBER"]
                         ELSE user[u]]
           /\ Answer(r, "OK")
  /\ UNCHANGED team

\* PostgreSQL aborts the transaction that closes a circle of waiting ones:
\* mapPrismaError knows no code for that, and the swap is answered with a 500.
SetLeaderDeadlock(r) ==
  /\ Deadlocked(r)
  /\ Answer(r, "INTERNAL_ERROR")
  /\ UNCHANGED <<user, team>>

-----------------------------------------------------------------------------
(* POST /teams, PATCH /teams/:id, DELETE /teams/:id *)

\* An id neither a row nor a request under way knows.
FreshTeam(t) ==
  t \in Teams \ (DOMAIN team \cup
                 {job[q].team : q \in {q \in Requests : "team" \in DOMAIN job[q]}})

CreateTeam(r, t, n) ==
  /\ Starting(r)
  /\ FreshTeam(t)
  /\ \/ NameTaken(n) /\ Answer(r, "TEAM_NAME_TAKEN")
     \/ /\ ~NameTaken(n)
        /\ Begin(r, "team_insert", [op |-> "createTeam", team |-> t, name |-> n])
        /\ UNCHANGED <<snap, demoted>>
  /\ UNCHANGED <<user, team>>

CreateTeamInsert(r) ==
  /\ pc[r] = "team_insert"
  /\ \/ NameTaken(job[r].name) /\ Answer(r, "TEAM_NAME_TAKEN") /\ UNCHANGED team
     \/ /\ ~NameTaken(job[r].name)
        /\ team' = Put(team, job[r].team, job[r].name)
        /\ Answer(r, "OK")
  /\ UNCHANGED user

RenameTeam(r, t, n) ==
  /\ Starting(r)
  /\ \/ t \notin DOMAIN team /\ Answer(r, "RESOURCE_NOT_FOUND")
     \/ /\ t \in DOMAIN team
        /\ Begin(r, IF n = team[t] THEN "rename_write" ELSE "rename_check",
                 [op |-> "renameTeam", team |-> t, name |-> n])
        /\ UNCHANGED <<snap, demoted>>
  /\ UNCHANGED <<user, team>>

RenameTeamCheck(r) ==
  /\ pc[r] = "rename_check"
  /\ \/ NameTaken(job[r].name) /\ Answer(r, "TEAM_NAME_TAKEN")
     \/ ~NameTaken(job[r].name) /\ Continue(r, "rename_write")
  /\ UNCHANGED <<user, team>>

\* Seeded fault: Team.name is not unique in the database.
RenameTeamWrite_NoIndex(r) ==
  /\ pc[r] = "rename_write"
  /\ job[r].team \in DOMAIN team
  /\ team' = [team EXCEPT ![job[r].team] = job[r].name]
  /\ Answer(r, "OK")
  /\ UNCHANGED user

\* team.update: P2025 if the row is gone, P2002 if another team has the name.
RenameTeamWrite(r) ==
  /\ pc[r] = "rename_write"
  /\ LET t == job[r].team
         clash == \E s \in DOMAIN team \ {t} : team[s] = job[r].name
     IN \/ t \notin DOMAIN team /\ Answer(r, "RESOURCE_NOT_FOUND") /\ UNCHANGED team
        \/ t \in DOMAIN team /\ clash /\ Answer(r, "TEAM_NAME_TAKEN") /\ UNCHANGED team
        \/ /\ t \in DOMAIN team /\ ~clash
           /\ team' = [team EXCEPT ![t] = job[r].name]
           /\ Answer(r, "OK")
  /\ UNCHANGED user

MembersOf(t) == {u \in DOMAIN user : user[u].team = t}

RemoveTeam(r, t) ==
  /\ Starting(r)
  /\ \/ t \notin DOMAIN team /\ Answer(r, "RESOURCE_NOT_FOUND")
     \/ /\ t \in DOMAIN team
        /\ Begin(r, "remove_count", [op |-> "removeTeam", team |-> t])
        /\ UNCHANGED <<snap, demoted>>
  /\ UNCHANGED <<user, team>>

RemoveTeamCount(r) ==
  /\ pc[r] = "remove_count"
  /\ \/ MembersOf(job[r].team) # {} /\ Answer(r, "TEAM_NOT_EMPTY")
     \/ MembersOf(job[r].team) = {} /\ Continue(r, "remove_delete")
  /\ UNCHANGED <<user, team>>

\* team.delete: P2025 if the row is gone, P2003 if a user points to it by now.
RemoveTeamDelete(r) ==
  /\ pc[r] = "remove_delete"
  /\ LET t == job[r].team IN
     \/ t \notin DOMAIN team /\ Answer(r, "RESOURCE_NOT_FOUND") /\ UNCHANGED team
     \/ /\ t \in DOMAIN team /\ MembersOf(t) # {}
        /\ Answer(r, "TEAM_NOT_EMPTY")
        /\ UNCHANGED team
     \/ /\ t \in DOMAIN team /\ MembersOf(t) = {}
        /\ team' = [s \in DOMAIN team \ {t} |-> team[s]]
        /\ Answer(r, "OK")
  /\ UNCHANGED user

-----------------------------------------------------------------------------
\* The awaits of a request under way.
Step(r) ==
  \/ CreateCheckTeam(r) \/ CreateCountLeaders(r) \/ CreateInsert(r)
  \/ DeactivateCountAdmins(r) \/ DeactivateWrite(r)
  \/ SetLeaderFind(r) \/ SetLeaderSnapshot(r) \/ SetLeaderDemote(r)
  \/ SetLeaderLock(r) \/ SetLeaderPromote(r) \/ SetLeaderDeadlock(r)
  \/ CreateTeamInsert(r) \/ RenameTeamCheck(r) \/ RenameTeamWrite(r)
  \/ RemoveTeamCount(r) \/ RemoveTeamDelete(r)

Next ==
  \E r \in Requests :
    \/ \E u \in Users, e \in Emails, ro \in Roles, t \in Teams \cup {NoTeam} :
         CreateUser(r, u, e, ro, t)
    \/ \E u \in Users : Reactivate(r, u) \/ \E c \in Callers : Deactivate(r, c, u)
    \/ \E t \in Teams : RemoveTeam(r, t) \/ \E u \in Users : SetLeader(r, t, u)
    \/ \E t \in Teams, n \in Names : CreateTeam(r, t, n) \/ RenameTeam(r, t, n)
    \/ Step(r)

Spec == Init /\ [][Next]_vars

\* Handlers are resumed, a lock is handed to a waiter when it is released, and
\* of those that wait in a circle one is aborted.
FairSpec == Spec /\ \A r \in Requests : SF_vars(Step(r))

-----------------------------------------------------------------------------
(* Properties *)

Labels == {"idle", "create_team", "create_count", "create_insert",
           "deactivate_count", "deactivate_write",
           "leader_find", "leader_snapshot", "leader_demote", "leader_promote",
           "leader_enter", "team_insert", "rename_check", "rename_write", "remove_count", "remove_delete"}

Jobs ==
  {NoJob}
  \cup [op : {"createUser"}, user : Users, email : Emails, role : Roles,
        team : Teams \cup {NoTeam}]
  \cup [op : {"deactivate"}, user : Users]
  \cup [op : {"setLeader"}, user : Users, team : Teams]
  \cup [op : {"createTeam", "renameTeam"}, team : Teams, name : Names]
  \cup [op : {"removeTeam"}, team : Teams]

\* Types of the state: the tables hold rows of the schema.
TypeOK ==
  /\ IsTable(user, Users, UserRow)
  /\ IsTable(team, Teams, Names)
  /\ pc \in [Requests -> Labels]
  /\ job \in [Requests -> Jobs]
  /\ snap \in [Requests -> SUBSET Users]
  /\ demoted \in [Requests -> SUBSET Users]
  /\ reply \in Codes

\* A team never has two leaders, whatever creates and swaps race for the seat
\* (TeamsService.setLeader, UsersService.create; FR-USER-02).
OneLeaderPerTeam ==
  \A t \in DOMAIN team : Cardinality(LeadersOf(t)) <= 1

\* A team that has a leader never loses it: a swap that fails half way, or
\* overtakes another one, leaves the seat taken (setLeader's transaction).
TeamKeepsLeader ==
  [][\A t \in DOMAIN team : LeadersOf(t) # {} => LeadersOf(t)' # {}]_vars

\* Exactly the administrators are outside the teams, and everybody else's team
\* exists, also when a team is removed while users are created in it.
MembershipSound ==
  \A u \in DOMAIN user :
    /\ user[u].role = "ADMIN" <=> user[u].team = NoTeam
    /\ user[u].team \in DOMAIN team \cup {NoTeam}

\* Emails and team names stay unique when the checks of two requests race.
KeysUnique ==
  /\ \A u, v \in DOMAIN user : user[u].email = user[v].email => u = v
  /\ \A s, t \in DOMAIN team : team[s] = team[t] => s = t

\* A leader is active: a user being disabled is already a MEMBER
\* (docs/06-api-contract.md section 9.5).
NoInactiveLeader ==
  \A u \in DOMAIN user : user[u].role = "LEADER" => user[u].active

\* Somebody can still administer the system (docs/06-api-contract.md section 9.3).
AnActiveAdmin == ActiveAdmins # {}

\* Swaps, creates and deactivations wait for each other's rows and for the
\* undecided entry of the index.  Circles can close (NoDeadlock does not hold),
\* but only of waits the database sees: every request is answered.
EveryRequestAnswered ==
  \A r \in Requests : pc[r] # "idle" ~> pc[r] = "idle"

\* No swap is lost to a deadlock.
NoDeadlock == \A r \in Requests : ~Deadlocked(r)
=============================================================================
