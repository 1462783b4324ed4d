------------------------------- MODULE Seeding -------------------------------
(***************************************************************************)
(* How a replica comes up: the entrypoint migrates, seeds the database if  *)
(* it has no users, and starts the API; the compose file starts it again   *)
(* whenever it ends.  The seed is a reset followed by inserts, each a      *)
(* statement of its own, so a process can stop between any two, and a      *)
(* second replica can run through the same steps.                          *)
(*                                                                         *)
(* A row is its name and the replica that wrote it: what a replica wrote   *)
(* in an earlier attempt is gone when it writes the name again.  Sessions  *)
(* fall with their users and are left out.                                 *)
(***************************************************************************)
EXTENDS Naturals, Sequences

CONSTANTS
  Replicas,
  MaxCrashes,   \* bound: processes killed in a behaviour
  MaxWork       \* bound: tasks users write in a behaviour

ASSUME SeedingAssumption == MaxCrashes \in Nat /\ MaxWork \in Nat

Teams == {"backend", "frontend"}
TeamOf == [beLead |-> "backend", beA |-> "backend", beB |-> "backend",
           feLead |-> "frontend", feA |-> "frontend"]
Users == {"admin"} \cup DOMAIN TeamOf
\* Owner and assignee.
PeopleOf == [designSchema |-> {"beLead", "beA"}, writeAuth |-> {"beLead", "beA"},
             seedData |-> {"beLead", "beB"}, migrationProd |-> {"beLead", "beB"},
             fixBug500 |-> {"beLead", "beA"}, readPrismaDocs |-> {"beA"},
             deletedTask |-> {"beLead", "beB"}, feLayout |-> {"feLead", "feA"}]
Tasks == DOMAIN PeopleOf

Reset == <<"wipeTasks", "wipeUsers", "wipeTeams">>
TaskInserts == <<"designSchema", "writeAuth", "seedData", "migrationProd", "fixBug500",
                 "readPrismaDocs", "deletedTask", "feLayout">>

\* Seeded faults: the admin comes last; the leads come before their teams.
SeedDatabase_AdminLast ==
  Reset \o <<"backend", "frontend", "beLead", "beA", "beB", "feLead", "feA", "admin">>
        \o TaskInserts
SeedDatabase_LeadsFirst ==
  Reset \o <<"admin", "beLead", "feLead", "backend", "frontend", "beA", "beB", "feA">>
        \o TaskInserts

\* The statements in their order.
SeedDatabase ==
  Reset \o <<"admin", "backend", "frontend", "beLead", "beA", "beB", "feLead", "feA">>
        \o TaskInserts

VARIABLES
  pc,       \* where each replica is
  at,       \* the statement of the seed it is at
  schema,   \* the migrations are applied
  teams, users, tasks,      \* seeded rows
  work,     \* tasks users wrote, with the user who did
  crashes, written,
  crowd     \* history: two replicas found the database empty together

tables == <<teams, users, tasks, work>>
seedingVars == <<pc, at, schema, tables, crashes, written, crowd>>

SeedingInit ==
  /\ pc = [r \in Replicas |-> "down"]
  /\ at = [r \in Replicas |-> 0]
  /\ schema = FALSE
  /\ teams = {} /\ users = {} /\ tasks = {} /\ work = {}
  /\ crashes = 0 /\ written = 0
  /\ crowd = FALSE

Goto(r, l) == pc' = [pc EXCEPT ![r] = l]
Taken(n, rows) == \E q \in Replicas : <<n, q>> \in rows

-----------------------------------------------------------------------------
(* One replica *)

\* Seeded fault: a process that failed is left alone.
Restart_OnCrashOnly(r) == pc[r] = "down" /\ Goto(r, "migrate")

\* restart: unless-stopped.
Restart(r) == pc[r] \in {"down", "failed"} /\ Goto(r, "migrate")

MigrateDeploy(r) == pc[r] = "migrate" /\ Goto(r, "count") /\ schema' = TRUE

\* Seeded fault: every start seeds.
SeedIfEmpty_Always(r) ==
  /\ pc[r] = "count"
  /\ Goto(r, "seed") /\ at' = [at EXCEPT ![r] = 1]
  /\ crowd' = (crowd \/ \E q \in Replicas \ {r} : pc[q] = "seed")

\* One user is enough to leave the database as it is.
SeedIfEmpty(r) ==
  /\ pc[r] = "count"
  /\ IF users # {} THEN Goto(r, "serve") /\ UNCHANGED <<at, crowd>>
     ELSE /\ Goto(r, "seed") /\ at' = [at EXCEPT ![r] = 1]
          /\ crowd' = (crowd \/ \E q \in Replicas \ {r} : pc[q] = "seed")

\* Seeded fault: parents before children.
WipeAllowed_AnyOrder(n) == TRUE

\* Foreign keys and unique keys stop a statement.
WipeAllowed(n) ==
  /\ n = "wipeUsers" => tasks = {} /\ work = {}
  /\ n = "wipeTeams" => \A u \in users : u[1] = "admin"

InsertAllowed(r, n) ==
  /\ n \in Teams => ~Taken(n, teams)
  /\ n \in Users => ~Taken(n, users) /\ (n # "admin" => <<TeamOf[n], r>> \in teams)
  /\ n \in Tasks => \A u \in PeopleOf[n] : <<u, r>> \in users

Wipe(n) ==
  \/ n = "wipeTasks" /\ tasks' = {} /\ work' = {} /\ UNCHANGED <<teams, users>>
  \/ n = "wipeUsers" /\ users' = {} /\ UNCHANGED <<teams, tasks, work>>
  \/ n = "wipeTeams" /\ teams' = {} /\ UNCHANGED <<users, tasks, work>>

Insert(r, n) ==
  \/ n \in Teams /\ teams' = teams \cup {<<n, r>>} /\ UNCHANGED <<users, tasks, work>>
  \/ n \in Users /\ users' = users \cup {<<n, r>>} /\ UNCHANGED <<teams, tasks, work>>
  \/ n \in Tasks /\ tasks' = tasks \cup {<<n, r>>} /\ UNCHANGED <<teams, users, work>>

\* The next statement; a refused one ends the process and with it the
\* entrypoint (set -e).
SeedStep(r) ==
  LET n == SeedDatabase[at[r]]
      deletes == at[r] <= Len(Reset)
      allowed == IF deletes THEN WipeAllowed(n) ELSE InsertAllowed(r, n) IN
  /\ pc[r] = "seed"
  /\ IF allowed
     THEN /\ IF deletes THEN Wipe(n) ELSE Insert(r, n)
          /\ at' = [at EXCEPT ![r] = IF @ = Len(SeedDatabase) THEN 0 ELSE @ + 1]
          /\ IF at[r] = Len(SeedDatabase) THEN Goto(r, "serve") ELSE UNCHANGED pc
     ELSE Goto(r, "failed") /\ at' = [at EXCEPT ![r] = 0] /\ UNCHANGED tables

Boot(r) ==
  \/ Restart(r) /\ UNCHANGED <<at, schema, tables, crashes, written, crowd>>
  \/ MigrateDeploy(r) /\ UNCHANGED <<at, tables, crashes, written, crowd>>
  \/ SeedIfEmpty(r) /\ UNCHANGED <<schema, tables, crashes, written>>
  \/ SeedStep(r) /\ UNCHANGED <<schema, crashes, written, crowd>>

-----------------------------------------------------------------------------
(* Around it *)

Crash(r) ==
  /\ crashes < MaxCrashes /\ crashes' = crashes + 1
  /\ pc[r] \notin {"down", "failed"}
  /\ Goto(r, "down") /\ at' = [at EXCEPT ![r] = 0]
  /\ UNCHANGED <<schema, tables, written, crowd>>

\* A user of the team writes a task.
Work(r, u) ==
  /\ pc[r] = "serve" /\ u \in users /\ u[1] # "admin"
  /\ written < MaxWork /\ written' = written + 1
  /\ work' = work \cup {<<written + 1, u>>}
  /\ UNCHANGED <<pc, at, schema, teams, users, tasks, crashes, crowd>>

SeedingNext ==
  \/ \E r \in Replicas : Boot(r) \/ Crash(r)
  \/ \E r \in Replicas, u \in users : Work(r, u)

\* The restart policy and the operating system see to each replica.
SeedingSpec ==
  SeedingInit /\ [][SeedingNext]_seedingVars /\ \A r \in Replicas : WF_seedingVars(Boot(r))

-----------------------------------------------------------------------------
(* Properties *)

Serving == \E r \in Replicas : pc[r] = "serve"

\* Every reference leads to a row and every name is there once, whoever
\* deletes and inserts in between.
SeedingTypeOK ==
  /\ pc \in [Replicas -> {"down", "failed", "migrate", "count", "seed", "serve"}]
  /\ \A r \in Replicas : at[r] \in 1 .. Len(SeedDatabase) <=> pc[r] = "seed"
  /\ teams \subseteq Teams \X Replicas /\ users \subseteq Users \X Replicas
  /\ tasks \subseteq Tasks \X Replicas
  /\ \A x, y \in teams : x[1] = y[1] => x = y
  /\ \A x, y \in users : x[1] = y[1] => x = y
  /\ \A u \in users : u[1] # "admin" => <<TeamOf[u[1]], u[2]>> \in teams
  /\ \A t \in tasks : \A u \in PeopleOf[t[1]] : <<u, t[2]>> \in users
  /\ \A w \in work : w[2] \in users
  /\ Serving => schema

\* Restarts keep what users wrote (seed-if-empty.ts:6, NFR-DEPLOY-02), unless
\* two replicas found the database empty together.
RestartsKeepWork == ~crowd => \A n \in 1 .. written : \E w \in work : w[1] = n

\* When the API runs there is an administrator, wherever the seed was cut off
\* before: nobody else could ever make one.
ServingHasAdmin == ~crowd /\ Serving => \E u \in users : u[1] = "admin"

\* Without a crash the API ends up on the whole fixture, also where a second
\* replica started to serve on half of it.
FixtureIsWhole ==
  ~crowd /\ Serving /\ crashes = 0 /\ (\A r \in Replicas : pc[r] # "seed") =>
    /\ {x[1] : x \in teams} = Teams /\ {x[1] : x \in users} = Users
    /\ {x[1] : x \in tasks} = Tasks

\* No replica stays down: again and again it serves, or it sets about seeding
\* once more - two of them can go on resetting the database under each other.
ReplicasServe ==
  \A r \in Replicas : []<>(pc[r] = "serve" \/ at[r] = 1)
=============================================================================
