--------------------------- MODULE DirectoryProofs ---------------------------
(***************************************************************************)
(* What holds of users and teams for any number of both and of concurrent  *)
(* requests: one leader per team, a seat that stays taken, membership of   *)
(* existing teams, unique emails and names.                                *)
(***************************************************************************)
EXTENDS Directory, FiniteSetTheorems, TLAPS

CreateLabels == {"create_team", "create_count", "create_insert"}
SwapLabels == {"leader_find", "leader_snapshot", "leader_demote", "leader_promote",
               "leader_enter"}

CreateUserJobs ==
  [op : {"createUser"}, user : Users, email : Emails, role : Roles,
   team : Teams \cup {NoTeam}]
DeactivateJobs == [op : {"deactivate"}, user : Users]
SetLeaderJobs == [op : {"setLeader"}, user : Users, team : Teams]
NamingJobs == [op : {"createTeam", "renameTeam"}, team : Teams, name : Names]
RemoveJobs == [op : {"removeTeam"}, team : Teams]

\* What a request remembers when it has awaited label l with parameters j.
Fits(l, j) ==
  /\ l \in CreateLabels =>
       j \in CreateUserJobs /\ (j.role = "ADMIN" <=> j.team = NoTeam)
  /\ l \in {"deactivate_count", "deactivate_write"} => j \in DeactivateJobs
  /\ l \in SwapLabels => j \in SetLeaderJobs
  /\ l \in {"team_insert", "rename_check", "rename_write"} => j \in NamingJobs
  /\ l \in {"remove_count", "remove_delete"} => j \in RemoveJobs

JobsFit == \A r \in Requests : Fits(pc[r], job[r])

\* The id of a user that is not inserted yet is nobody else's.
IdsFresh ==
  \A r \in Requests : pc[r] \in CreateLabels =>
    /\ job[r].user \notin DOMAIN user
    /\ \A q \in Requests :
         pc[q] \in CreateLabels /\ job[q].user = job[r].user => q = r

\* A user once found is never deleted, and never changes team.
TargetsKnown ==
  \A r \in Requests :
    /\ pc[r] \in {"deactivate_count", "deactivate_write"} => job[r].user \in DOMAIN user
    /\ pc[r] \in SwapLabels \ {"leader_find"} =>
         job[r].user \in DOMAIN user /\ user[job[r].user].team = job[r].team

\* A swap only demotes in its own team.
SwapsLocal ==
  \A r \in Requests : \A u \in snap[r] \cup demoted[r] :
    /\ pc[r] \in {"leader_demote", "leader_promote", "leader_enter"}
    /\ u \in DOMAIN user
    /\ user[u].team = job[r].team

\* OneLeaderPerTeam without cardinalities.
LeaderUnique ==
  \A u, v \in DOMAIN user :
    user[u].role = "LEADER" /\ user[v].role = "LEADER" /\ user[u].team = user[v].team
      => u = v

Tables == MembershipSound /\ KeysUnique /\ LeaderUnique
Handlers == JobsFit /\ IdsFresh /\ TargetsKnown /\ SwapsLocal
IInv == TypeOK /\ Handlers /\ Tables

LEMMA InitIInv == Init => IInv
  <1> SUFFICES ASSUME Init
               PROVE  IInv
    OBVIOUS
  <1> USE SeedAssumption DEF Init
  <1>1. TypeOK
    BY DEF TypeOK, Labels, Jobs, Codes
  <1>2. Handlers
    BY DEF Handlers, JobsFit, Fits, IdsFresh, TargetsKnown, SwapsLocal,
           CreateLabels, SwapLabels
  <1>3. Tables
    BY DEF Tables, MembershipSound, KeysUnique, LeaderUnique, IsTable, UserRow
  <1>4. QED
    BY <1>1, <1>2, <1>3 DEF IInv

\* A step of r that ends with an answer; whatever it did to the tables, it kept
\* the users it knew, and where they belong.
LEMMA Answering ==
  ASSUME IInv, NEW r \in Requests, NEW code \in Codes, Answer(r, code),
         DOMAIN user \subseteq DOMAIN user',
         \A u \in DOMAIN user : user'[u].team = user[u].team,
         \A u \in DOMAIN user' \ DOMAIN user :
           pc[r] \in CreateLabels /\ u = job[r].user,
         IsTable(user, Users, UserRow)', IsTable(team, Teams, Names)', Tables'
  PROVE  IInv'
  <1> USE DEF IInv, Answer
  <1>1. TypeOK'
    BY DEF TypeOK, Labels, Jobs
  <1>2. JobsFit'
    BY DEF TypeOK, Handlers, JobsFit, Fits, CreateLabels, SwapLabels
  <1>3. IdsFresh'
    BY DEF TypeOK, Handlers, IdsFresh, CreateLabels
  <1>4. TargetsKnown'
    BY DEF TypeOK, Handlers, TargetsKnown, SwapLabels
  <1>5. SwapsLocal'
    BY DEF TypeOK, Handlers, SwapsLocal
  <1>6. QED
    BY <1>1, <1>2, <1>3, <1>4, <1>5 DEF Handlers

\* A request that is answered without a write.
LEMMA Refusing ==
  ASSUME IInv, NEW r \in Requests, NEW code \in Codes, Answer(r, code),
         UNCHANGED <<user, team>>
  PROVE  IInv'
  <1>1. Tables' /\ IsTable(user, Users, UserRow)' /\ IsTable(team, Teams, Names)'
    BY DEF IInv, TypeOK, Tables, MembershipSound, KeysUnique, LeaderUnique, IsTable
  <1>2. QED
    BY <1>1, Answering

\* A request that goes on to its next await, or starts.
LEMMA Moving ==
  ASSUME IInv, NEW r \in Requests, NEW l \in Labels \ {"idle"}, NEW j \in Jobs,
         UNCHANGED <<user, team, snap, demoted>>,
         Goto(r, l), job' = [job EXCEPT ![r] = j],
         snap[r] = {}, demoted[r] = {},
         Fits(l, j),
         l \in CreateLabels =>
           /\ j.user \notin DOMAIN user
           /\ \A q \in Requests \ {r} : pc[q] \in CreateLabels => job[q].user # j.user,
         l \in {"deactivate_count", "deactivate_write"} => j.user \in DOMAIN user,
         l \in SwapLabels \ {"leader_find"} =>
           j.user \in DOMAIN user /\ user[j.user].team = j.team
  PROVE  IInv'
  <1> USE DEF IInv, Goto
  <1>1. TypeOK'
    BY DEF TypeOK, IsTable, Codes
  <1>2. JobsFit'
    BY DEF TypeOK, Handlers, JobsFit
  <1>3. IdsFresh'
    BY DEF TypeOK, Handlers, IdsFresh
  <1>4. TargetsKnown'
    BY DEF TypeOK, Handlers, TargetsKnown
  <1>5. SwapsLocal'
    BY DEF TypeOK, Handlers, SwapsLocal
  <1>6. Tables'
    BY DEF Tables, MembershipSound, KeysUnique, LeaderUnique
  <1>7. QED
    BY <1>1, <1>2, <1>3, <1>4, <1>5, <1>6 DEF Handlers

\* Continue keeps the parameters.
LEMMA Continuing ==
  ASSUME IInv, NEW r \in Requests, NEW l \in Labels \ {"idle"}, Continue(r, l),
         UNCHANGED <<user, team>>,
         snap[r] = {}, demoted[r] = {},
         Fits(l, job[r]),
         l \in CreateLabels => pc[r] \in CreateLabels,
         l \in {"deactivate_count", "deactivate_write"} => job[r].user \in DOMAIN user,
         l \in SwapLabels \ {"leader_find"} =>
           job[r].user \in DOMAIN user /\ user[job[r].user].team = job[r].team
  PROVE  IInv'
  <1>1. job' = [job EXCEPT ![r] = job[r]] /\ job[r] \in Jobs
    BY DEF Continue, IInv, TypeOK
  <1>2. l \in CreateLabels =>
          /\ job[r].user \notin DOMAIN user
          /\ \A q \in Requests \ {r} :
               pc[q] \in CreateLabels => job[q].user # job[r].user
    BY DEF IInv, Handlers, IdsFresh
  <1>3. QED
    BY <1>1, <1>2, Moving DEF Continue

\* Outside a swap nothing is matched or demoted.
LEMMA NoSwap ==
  ASSUME IInv, NEW r \in Requests,
         pc[r] \notin {"leader_demote", "leader_promote", "leader_enter"}
  PROVE  snap[r] = {} /\ demoted[r] = {}
  BY DEF IInv, Handlers, SwapsLocal

\* The first step of each operation: it is refused, or begins.
LEMMA StartingSteps ==
  ASSUME IInv, NEW r \in Requests,
         \/ \E u \in Users, e \in Emails, ro \in Roles, t \in Teams \cup {NoTeam} :
              CreateUser(r, u, e, ro, t)
         \/ \E u \in Users, c \in Callers : Deactivate(r, c, u)
         \/ \E t \in Teams, u \in Users : SetLeader(r, t, u)
         \/ \E t \in Teams, n \in Names : CreateTeam(r, t, n) \/ RenameTeam(r, t, n)
         \/ \E t \in Teams : RemoveTeam(r, t)
  PROVE  IInv'
  <1> USE DEF Starting, Begin
  <1>0. pc[r] = "idle" /\ snap[r] = {} /\ demoted[r] = {}
    BY NoSwap DEF CreateUser, Deactivate, SetLeader, CreateTeam, RenameTeam, RemoveTeam
  <1>1. ASSUME NEW u \in Users, NEW e \in Emails, NEW ro \in Roles,
               NEW t \in Teams \cup {NoTeam}, CreateUser(r, u, e, ro, t)
        PROVE  IInv'
    <2> DEFINE j == [op |-> "createUser", user |-> u, email |-> e, role |-> ro, team |-> t]
               l == IF ro = "ADMIN" THEN "create_insert" ELSE "create_team"
    <2>1. CASE Answer(r, "EMAIL_TAKEN")
      BY <1>1, <2>1, Refusing DEF CreateUser, Codes
    <2>2. CASE Begin(r, l, j) /\ UNCHANGED <<snap, demoted>>
      <3>1. j \in CreateUserJobs /\ (j.role = "ADMIN" <=> j.team = NoTeam)
        BY <1>1 DEF CreateUser, CreateUserJobs
      <3>2. l \in CreateLabels /\ l \in Labels \ {"idle"} /\ j \in Jobs
        BY <3>1 DEF CreateLabels, Labels, Jobs, CreateUserJobs
      <3>3. Fits(l, j)
        BY <3>1 DEF Fits, SwapLabels
      <3>4. j.user \notin DOMAIN user
        BY <1>1 DEF CreateUser, FreshUser
      <3>5. ASSUME NEW q \in Requests \ {r}, pc[q] \in CreateLabels
            PROVE  job[q].user # j.user
        <4>1. job[q].op = "createUser"
          BY <3>5 DEF IInv, Handlers, JobsFit, Fits, CreateUserJobs
        <4>2. QED
          BY <1>1, <4>1 DEF CreateUser, FreshUser
      <3>6. l \notin {"deactivate_count", "deactivate_write"} /\ l \notin SwapLabels
        BY DEF SwapLabels
      <3>7. QED
        BY <1>0, <1>1, <2>2, <3>2, <3>3, <3>4, <3>5, <3>6, Moving DEF CreateUser
    <2>3. QED
      BY <1>1, <2>1, <2>2 DEF CreateUser
  <1>2. ASSUME NEW u \in Users, NEW c \in Callers, Deactivate(r, c, u)
        PROVE  IInv'
    <2> DEFINE j == [op |-> "deactivate", user |-> u]
               l == IF user[u].role = "ADMIN" THEN "deactivate_count"
                                              ELSE "deactivate_write"
    <2>1. CASE \E code \in Codes : Answer(r, code)
      BY <1>2, <2>1, Refusing DEF Deactivate
    <2>2. CASE u \in DOMAIN user /\ Begin(r, l, j) /\ UNCHANGED <<snap, demoted>>
      <3>1. /\ l \in Labels \ {"idle"} /\ l \notin CreateLabels /\ l \notin SwapLabels
            /\ j \in Jobs /\ Fits(l, j)
        BY DEF CreateLabels, SwapLabels, Labels, Jobs, Fits, DeactivateJobs
      <3>2. QED
        BY <1>0, <1>2, <2>2, <3>1, Moving DEF Deactivate
    <2>3. QED
      BY <1>2, <2>1, <2>2 DEF Deactivate, Codes
  <1>3. ASSUME NEW t \in Teams, NEW u \in Users, SetLeader(r, t, u)
        PROVE  IInv'
    <2> DEFINE j == [op |-> "setLeader", user |-> u, team |-> t]
    <2>1. CASE Answer(r, "RESOURCE_NOT_FOUND")
      BY <1>3, <2>1, Refusing DEF SetLeader, Codes
    <2>2. CASE Begin(r, "leader_find", j) /\ UNCHANGED <<snap, demoted>>
      <3>1. j \in Jobs /\ Fits("leader_find", j) /\ "leader_find" \in Labels
        BY DEF CreateLabels, SwapLabels, Labels, Jobs, Fits, SetLeaderJobs
      <3>2. "leader_find" \notin CreateLabels
        BY DEF CreateLabels
      <3>3. QED
        BY <1>0, <1>3, <2>2, <3>1, <3>2, Moving DEF SetLeader
    <2>3. QED
      BY <1>3, <2>1, <2>2 DEF SetLeader
  <1>4. ASSUME NEW t \in Teams, NEW n \in Names, CreateTeam(r, t, n)
        PROVE  IInv'
    <2> DEFINE j == [op |-> "createTeam", team |-> t, name |-> n]
    <2>1. CASE Answer(r, "TEAM_NAME_TAKEN")
      BY <1>4, <2>1, Refusing DEF CreateTeam, Codes
    <2>2. CASE Begin(r, "team_insert", j) /\ UNCHANGED <<snap, demoted>>
      <3>1. j \in Jobs /\ Fits("team_insert", j) /\ "team_insert" \in Labels
        BY DEF CreateLabels, SwapLabels, Labels, Jobs, Fits, NamingJobs
      <3>2. "team_insert" \notin CreateLabels \cup SwapLabels
        BY DEF CreateLabels, SwapLabels
      <3>3. QED
        BY <1>0, <1>4, <2>2, <3>1, <3>2, Moving DEF CreateTeam
    <2>3. QED
      BY <1>4, <2>1, <2>2 DEF CreateTeam
  <1>5. ASSUME NEW t \in Teams, NEW n \in Names, RenameTeam(r, t, n)
        PROVE  IInv'
    <2> DEFINE j == [op |-> "renameTeam", team |-> t, name |-> n]
               l == IF n = team[t] THEN "rename_write" ELSE "rename_check"
    <2>1. CASE Answer(r, "RESOURCE_NOT_FOUND")
      BY <1>5, <2>1, Refusing DEF RenameTeam, Codes
    <2>2. CASE Begin(r, l, j) /\ UNCHANGED <<snap, demoted>>
      <3>1. /\ l \in Labels \ {"idle"} /\ l \notin CreateLabels /\ l \notin SwapLabels
            /\ l \notin {"deactivate_count", "deactivate_write"}
            /\ j \in Jobs /\ Fits(l, j)
        BY DEF CreateLabels, SwapLabels, Labels, Jobs, Fits, NamingJobs
      <3>2. QED
        BY <1>0, <1>5, <2>2, <3>1, Moving DEF RenameTeam
    <2>3. QED
      BY <1>5, <2>1, <2>2 DEF RenameTeam
  <1>6. ASSUME NEW t \in Teams, RemoveTeam(r, t)
        PROVE  IInv'
    <2> DEFINE j == [op |-> "removeTeam", team |-> t]
    <2>1. CASE Answer(r, "RESOURCE_NOT_FOUND")
      BY <1>6, <2>1, Refusing DEF RemoveTeam, Codes
    <2>2. CASE Begin(r, "remove_count", j) /\ UNCHANGED <<snap, demoted>>
      <3>1. j \in Jobs /\ Fits("remove_count", j) /\ "remove_count" \in Labels
        BY DEF CreateLabels, SwapLabels, Labels, Jobs, Fits, RemoveJobs
      <3>2. "remove_count" \notin CreateLabels \cup SwapLabels
        BY DEF CreateLabels, SwapLabels
      <3>3. QED
        BY <1>0, <1>6, <2>2, <3>1, <3>2, Moving DEF RemoveTeam
    <2>3. QED
      BY <1>6, <2>1, <2>2 DEF RemoveTeam
  <1>7. QED
    BY <1>1, <1>2, <1>3, <1>4, <1>5, <1>6

\* The checks between the first step and the write.
LEMMA ReadingSteps ==
  ASSUME IInv, NEW r \in Requests,
         \/ CreateCheckTeam(r) \/ CreateCountLeaders(r) \/ DeactivateCountAdmins(r)
         \/ SetLeaderFind(r) \/ RenameTeamCheck(r) \/ RemoveTeamCount(r)
  PROVE  IInv'
  <1>0. /\ pc[r] \in {"create_team", "create_count", "deactivate_count", "leader_find",
                      "rename_check", "remove_count"}
        /\ UNCHANGED <<user, team>>
    BY DEF CreateCheckTeam, CreateCountLeaders, DeactivateCountAdmins, SetLeaderFind,
           RenameTeamCheck, RemoveTeamCount
  <1>1. snap[r] = {} /\ demoted[r] = {}
    BY <1>0, NoSwap
  <1>2. Fits(pc[r], job[r])
    BY DEF IInv, Handlers, JobsFit
  <1> DEFINE Next2 == {"create_count", "create_insert", "deactivate_write",
                       "leader_snapshot", "rename_write", "remove_delete"}
  <1>3. \/ \E code \in Codes : Answer(r, code)
        \/ \E l \in Next2 : Continue(r, l)
    BY DEF CreateCheckTeam, CreateCountLeaders, DeactivateCountAdmins, SetLeaderFind,
           RenameTeamCheck, RemoveTeamCount, Codes
  <1>4. CASE \E code \in Codes : Answer(r, code)
    BY <1>0, <1>4, Refusing
  <1>5. ASSUME NEW l \in Next2, Continue(r, l)
        PROVE  IInv'
    <2>1. l \in Labels \ {"idle"}
      BY DEF Labels
    <2>2. pc'[r] = l
      BY <1>5 DEF Continue, Goto, IInv, TypeOK
    <2>3. /\ l \in {"create_count", "create_insert"} => pc[r] \in CreateLabels
          /\ l = "deactivate_write" => pc[r] = "deactivate_count"
          /\ l = "leader_snapshot" =>
               /\ pc[r] = "leader_find" /\ job[r].user \in DOMAIN user
               /\ user[job[r].user].team = job[r].team
          /\ l = "rename_write" => pc[r] = "rename_check"
          /\ l = "remove_delete" => pc[r] = "remove_count"
      BY <1>5, <2>2
         DEF CreateCheckTeam, CreateCountLeaders, DeactivateCountAdmins, SetLeaderFind,
             RenameTeamCheck, RemoveTeamCount, Continue, Goto, Answer, CreateLabels, IInv,
             TypeOK
    <2>4. Fits(l, job[r])
      BY <1>2, <2>3 DEF Fits, CreateLabels, SwapLabels
    <2>5. l = "deactivate_write" => job[r].user \in DOMAIN user
      BY <2>3 DEF IInv, Handlers, TargetsKnown
    <2>6. QED
      BY <1>0, <1>1, <1>5, <2>1, <2>3, <2>4, <2>5, Continuing DEF CreateLabels, SwapLabels
  <1>6. QED
    BY <1>3, <1>4, <1>5

\* user.create meets the unique indexes and the foreign key.
LEMMA InsertStep ==
  ASSUME IInv, NEW r \in Requests, CreateInsert(r)
  PROVE  IInv'
  <1> DEFINE j == job[r]
             row == [email |-> j.email, role |-> j.role, team |-> j.team, active |-> TRUE]
  <1>1. /\ pc[r] = "create_insert" /\ pc[r] \in CreateLabels
        /\ j \in CreateUserJobs /\ (j.role = "ADMIN" <=> j.team = NoTeam)
        /\ j.user \notin DOMAIN user
    BY DEF CreateInsert, CreateLabels, IInv, Handlers, JobsFit, Fits, IdsFresh
  <1>2. j.user \in Users /\ j.email \in Emails /\ j.role \in Roles
        /\ j.team \in Teams \cup {NoTeam}
    BY <1>1 DEF CreateUserJobs
  <1>3. CASE UNCHANGED user /\ \E code \in Codes : Answer(r, code)
    BY <1>3, Refusing DEF CreateInsert
  <1>4. CASE /\ ~EmailTaken(j.email)
             /\ ~(j.role = "LEADER" /\ LeadersOf(j.team) # {})
             /\ j.team \in DOMAIN team \cup {NoTeam}
             /\ user' = Put(user, j.user, row)
             /\ Answer(r, "OK")
    <2>1. row \in UserRow
      <3>1. \A b \in BOOLEAN :
              [email |-> j.email, role |-> j.role, team |-> j.team, active |-> b] \in UserRow
        BY <1>2 DEF UserRow
      <3>2. QED
        BY <3>1, TRUE \in BOOLEAN
    <2>2. /\ DOMAIN user' = DOMAIN user \cup {j.user}
          /\ user'[j.user] = row
          /\ \A u \in DOMAIN user : user'[u] = user[u]
          /\ user' \in [DOMAIN user' -> UserRow]
      BY <1>1, <1>4, <2>1 DEF Put, IInv, TypeOK, IsTable
    <2>3. UNCHANGED team
      BY DEF CreateInsert
    <2> HIDE DEF row
    <2>4. /\ user'[j.user].email = j.email /\ user'[j.user].role = j.role
          /\ user'[j.user].team = j.team
      BY <2>2 DEF row
    <2>5. IsTable(user, Users, UserRow)' /\ IsTable(team, Teams, Names)'
      BY <1>2, <2>2, <2>3 DEF IsTable, IInv, TypeOK
    <2>6. MembershipSound'
      BY <1>1, <1>4, <2>2, <2>3, <2>4 DEF MembershipSound, IInv, Tables
    <2>7. KeysUnique'
      BY <1>4, <2>2, <2>3, <2>4 DEF KeysUnique, EmailTaken, IInv, Tables
    <2>8. LeaderUnique'
      BY <1>4, <2>2, <2>4 DEF LeaderUnique, LeadersOf, IInv, Tables
    <2>9. "OK" \in Codes
      BY DEF Codes
    <2>10. QED
      BY <1>1, <1>4, <2>2, <2>5, <2>6, <2>7, <2>8, <2>9, Answering DEF Tables
  <1>5. QED
    BY <1>3, <1>4 DEF CreateInsert, Codes, LeaderIndexError

\* isActive is written by id: nothing the tables promise depends on it.
LEMMA ActiveSteps ==
  ASSUME IInv, NEW r \in Requests,
         DeactivateWrite(r) \/ \E u \in Users : Reactivate(r, u)
  PROVE  IInv'
  <1>1. UNCHANGED team
    BY DEF DeactivateWrite, Reactivate
  <1>2. CASE UNCHANGED user /\ \E code \in Codes : Answer(r, code)
    BY <1>1, <1>2, Refusing
  <1>3. ASSUME NEW u \in DOMAIN user, NEW b \in BOOLEAN,
               user' = [user EXCEPT ![u].active = b], Answer(r, "OK")
        PROVE  IInv'
    <2>1. /\ DOMAIN user' = DOMAIN user
          /\ user' \in [DOMAIN user' -> UserRow]
          /\ \A v \in DOMAIN user :
               /\ user'[v].email = user[v].email /\ user'[v].role = user[v].role
               /\ user'[v].team = user[v].team
      BY <1>3 DEF IInv, TypeOK, IsTable, UserRow
    <2>2. IsTable(user, Users, UserRow)' /\ IsTable(team, Teams, Names)'
      BY <1>1, <2>1 DEF IInv, TypeOK, IsTable
    <2>3. Tables'
      BY <1>1, <2>1 DEF IInv, Tables, MembershipSound, KeysUnique, LeaderUnique
    <2>4. "OK" \in Codes
      BY DEF Codes
    <2>5. QED
      BY <1>3, <2>1, <2>2, <2>3, <2>4, Answering
  <1>4. CASE DeactivateWrite(r)
    <2>1. job[r].user \in DOMAIN user
      BY <1>4 DEF DeactivateWrite, IInv, Handlers, TargetsKnown
    <2>2. QED
      BY <1>3, <1>4, <2>1, FALSE \in BOOLEAN DEF DeactivateWrite
  <1>5. ASSUME NEW u \in Users, Reactivate(r, u)
        PROVE  IInv'
    BY <1>2, <1>3, <1>5, TRUE \in BOOLEAN DEF Reactivate, Codes
  <1>6. QED
    BY <1>4, <1>5

\* The demotion is held back in snap and demoted; what it may touch is in the
\* team.
LEMMA DemotingSteps ==
  ASSUME IInv, NEW r \in Requests,
         SetLeaderSnapshot(r) \/ SetLeaderDemote(r) \/ SetLeaderLock(r)
  PROVE  IInv'
  <1> DEFINE l == IF pc[r] = "leader_snapshot" THEN "leader_demote"
                  ELSE IF pc[r] = "leader_demote" THEN "leader_promote"
                  ELSE "leader_enter"
  <1>1. /\ UNCHANGED <<user, team, job>>
        /\ pc' = [pc EXCEPT ![r] = l] /\ reply' = "none"
        /\ pc[r] \in {"leader_snapshot", "leader_demote", "leader_promote"}
    BY DEF SetLeaderSnapshot, SetLeaderDemote, SetLeaderLock, Continue, Goto
  <1>2. /\ snap' \in [Requests -> SUBSET Users] /\ demoted' \in [Requests -> SUBSET Users]
        /\ \A q \in Requests \ {r} : snap'[q] = snap[q] /\ demoted'[q] = demoted[q]
        /\ \A u \in snap'[r] \cup demoted'[r] :
             u \in DOMAIN user /\ user[u].team = job[r].team
    <2>1. CASE SetLeaderSnapshot(r)
      <3>1. demoted[r] = {}
        BY <2>1, NoSwap DEF SetLeaderSnapshot
      <3>2. QED
        BY <2>1, <3>1 DEF SetLeaderSnapshot, LeadersOf, IInv, TypeOK, IsTable
    <2>2. CASE SetLeaderDemote(r)
      BY <2>2 DEF SetLeaderDemote, LeadersOf, IInv, TypeOK, IsTable
    <2>3. CASE SetLeaderLock(r)
      BY <2>3 DEF SetLeaderLock, Continue, IInv, TypeOK, Handlers, SwapsLocal
    <2>4. QED
      BY <2>1, <2>2, <2>3
  <1>3. TypeOK'
    BY <1>1, <1>2 DEF IInv, TypeOK, Labels, Codes, IsTable
  <1>4. JobsFit'
    BY <1>1 DEF IInv, TypeOK, Handlers, JobsFit, Fits, CreateLabels, SwapLabels
  <1>5. IdsFresh'
    BY <1>1 DEF IInv, TypeOK, Handlers, IdsFresh, CreateLabels
  <1>6. TargetsKnown'
    BY <1>1 DEF IInv, TypeOK, Handlers, TargetsKnown, SwapLabels
  <1>7. SwapsLocal'
    BY <1>1, <1>2 DEF IInv, TypeOK, Handlers, SwapsLocal
  <1>8. Tables'
    BY <1>1 DEF IInv, Tables, MembershipSound, KeysUnique, LeaderUnique
  <1>9. QED
    BY <1>3, <1>4, <1>5, <1>6, <1>7, <1>8 DEF IInv, Handlers

\* What the commit of a swap leaves of the users: one promoted, the former
\* leader demoted, both in the team of the swap.
LEMMA SwapCommit ==
  ASSUME IInv, NEW r \in Requests, SetLeaderPromote(r), user' # user
  PROVE  LET j == job[r] IN
         /\ j.user \in DOMAIN user /\ user[j.user].team = j.team /\ j.team \in Teams
         /\ LeadersOf(j.team) \subseteq demoted[r] \cup {j.user}
         /\ \A u \in demoted[r] : u \in DOMAIN user /\ user[u].team = j.team
         /\ Answer(r, "OK")
         /\ DOMAIN user' = DOMAIN user
         /\ user' \in [DOMAIN user -> UserRow]
         /\ \A u \in DOMAIN user :
              /\ user'[u].email = user[u].email /\ user'[u].team = user[u].team
              /\ user'[u].role = IF u = j.user THEN "LEADER"
                                 ELSE IF u \in demoted[r] THEN "MEMBER"
                                 ELSE user[u].role
  <1> DEFINE j == job[r]
  <1>1. /\ j.user \in DOMAIN user /\ user[j.user].team = j.team /\ j \in SetLeaderJobs
    BY DEF SetLeaderPromote, IInv, Handlers, TargetsKnown, JobsFit, Fits, SwapLabels
  <1>2. j.team \in Teams
    BY <1>1 DEF SetLeaderJobs
  <1>3. \A u \in demoted[r] : u \in DOMAIN user /\ user[u].team = j.team
    BY DEF IInv, Handlers, SwapsLocal
  <1>4. /\ LeadersOf(j.team) \ (demoted[r] \cup {j.user}) = {}
        /\ Answer(r, "OK")
        /\ user' = [u \in DOMAIN user |->
                      IF u = j.user THEN [user[u] EXCEPT !.role = "LEADER"]
                      ELSE IF u \in demoted[r] THEN [user[u] EXCEPT !.role = "MEMBER"]
                      ELSE user[u]]
    BY DEF SetLeaderPromote
  <1>5. \A u \in DOMAIN user :
          /\ user'[u] \in UserRow
          /\ user'[u].email = user[u].email /\ user'[u].team = user[u].team
          /\ user'[u].role = IF u = j.user THEN "LEADER"
                             ELSE IF u \in demoted[r] THEN "MEMBER"
                             ELSE user[u].role
    <2> TAKE u \in DOMAIN user
    <2>1. user[u] \in UserRow
      BY DEF IInv, TypeOK, IsTable
    <2>2. "LEADER" \in Roles /\ "MEMBER" \in Roles
      BY DEF Roles
    <2>3. QED
      BY <1>4, <2>1, <2>2 DEF UserRow
  <1>6. QED
    BY <1>1, <1>2, <1>3, <1>4, <1>5

LEMMA PromotingStep ==
  ASSUME IInv, NEW r \in Requests, SetLeaderPromote(r)
  PROVE  IInv'
  <1>1. UNCHANGED team /\ "OK" \in Codes
    BY DEF SetLeaderPromote, Codes
  <1>2. CASE UNCHANGED user
    <2>1. \E code \in Codes : Answer(r, code)
      BY DEF SetLeaderPromote, LeaderIndexError, Codes
    <2>2. QED
      BY <1>1, <1>2, <2>1, Refusing
  <1>3. CASE user' # user
    <2>1. IsTable(user, Users, UserRow)' /\ IsTable(team, Teams, Names)'
      BY <1>1, <1>3, SwapCommit DEF IInv, TypeOK, IsTable
    <2>2. MembershipSound'
      <3>1. \A u \in DOMAIN user : user[u].role = "ADMIN" <=> user[u].team = NoTeam
        BY DEF IInv, Tables, MembershipSound
      <3>2. QED
        BY <1>1, <1>3, <3>1, SwapCommit, SeedAssumption
           DEF IInv, Tables, MembershipSound
    <2>3. KeysUnique'
      BY <1>1, <1>3, SwapCommit DEF IInv, Tables, KeysUnique
    <2>4. LeaderUnique'
      BY <1>3, SwapCommit DEF IInv, Tables, LeaderUnique, LeadersOf
    <2>5. QED
      BY <1>1, <1>3, <2>1, <2>2, <2>3, <2>4, SwapCommit, Answering DEF Tables
  <1>4. QED
    BY <1>2, <1>3

\* Writes to the teams.
LEMMA TeamWrites ==
  ASSUME IInv, NEW r \in Requests,
         CreateTeamInsert(r) \/ RenameTeamWrite(r) \/ RemoveTeamDelete(r)
  PROVE  IInv'
  <1>1. UNCHANGED user /\ \E code \in Codes : Answer(r, code)
    BY DEF CreateTeamInsert, RenameTeamWrite, RemoveTeamDelete, Codes
  <1>2. IsTable(user, Users, UserRow)' /\ LeaderUnique'
    BY <1>1 DEF IInv, TypeOK, IsTable, Tables, LeaderUnique
  <1>3. CASE UNCHANGED team
    BY <1>1, <1>3, Refusing
  <1>4. ASSUME IsTable(team', Teams, Names),
               \A u \in DOMAIN user : user[u].team \in DOMAIN team \cup {NoTeam} =>
                                      user[u].team \in DOMAIN team' \cup {NoTeam},
               \A s, t \in DOMAIN team' : team'[s] = team'[t] => s = t
        PROVE  IInv'
    <2>1. MembershipSound' /\ KeysUnique'
      BY <1>1, <1>4 DEF IInv, Tables, MembershipSound, KeysUnique
    <2>2. QED
      BY <1>1, <1>2, <1>4, <2>1, Answering DEF Tables, IsTable
  <1>5. CASE CreateTeamInsert(r) /\ ~NameTaken(job[r].name)
    <2>1. job[r].team \in Teams /\ job[r].name \in Names
      BY <1>5 DEF CreateTeamInsert, IInv, Handlers, JobsFit, Fits, NamingJobs
    <2>2. team' = Put(team, job[r].team, job[r].name)
      BY <1>5 DEF CreateTeamInsert
    <2>3. QED
      BY <1>4, <1>5, <2>1, <2>2
         DEF Put, NameTaken, IInv, TypeOK, IsTable, Tables, KeysUnique
  <1>6. CASE /\ RenameTeamWrite(r) /\ job[r].team \in DOMAIN team
             /\ \A s \in DOMAIN team \ {job[r].team} : team[s] # job[r].name
    <2>1. job[r].name \in Names
      BY <1>6 DEF RenameTeamWrite, IInv, Handlers, JobsFit, Fits, NamingJobs
    <2>2. team' = [team EXCEPT ![job[r].team] = job[r].name]
      BY <1>6 DEF RenameTeamWrite
    <2>3. QED
      BY <1>4, <1>6, <2>1, <2>2 DEF IInv, TypeOK, IsTable, Tables, KeysUnique
  <1>7. CASE RemoveTeamDelete(r) /\ MembersOf(job[r].team) = {} /\ job[r].team \in DOMAIN team
    <2>1. team' = [s \in DOMAIN team \ {job[r].team} |-> team[s]]
      BY <1>7 DEF RemoveTeamDelete
    <2>2. QED
      BY <1>4, <1>7, <2>1 DEF MembersOf, IInv, TypeOK, IsTable, Tables, KeysUnique
  <1>8. QED
    BY <1>3, <1>5, <1>6, <1>7 DEF CreateTeamInsert, RenameTeamWrite, RemoveTeamDelete

LEMMA NextIInv == IInv /\ [Next]_vars => IInv'
  <1> SUFFICES ASSUME IInv, [Next]_vars
               PROVE  IInv'
    OBVIOUS
  <1>1. CASE UNCHANGED vars
    BY <1>1 DEF vars, IInv, TypeOK, IsTable, Handlers, JobsFit, IdsFresh, TargetsKnown,
                SwapsLocal, Tables, MembershipSound, KeysUnique, LeaderUnique
  <1>2. ASSUME NEW r \in Requests, Step(r)
        PROVE  IInv'
    <2>1. CASE SetLeaderDeadlock(r)
      BY <2>1, Refusing DEF SetLeaderDeadlock, Codes
    <2>2. QED
      BY <1>2, <2>1, ReadingSteps, InsertStep, ActiveSteps, DemotingSteps, PromotingStep,
         TeamWrites DEF Step
  <1>3. QED
    BY <1>1, <1>2, StartingSteps, ActiveSteps DEF Next

-----------------------------------------------------------------------------
LEMMA Invariance == Spec => []IInv
  BY InitIInv, NextIInv, PTL DEF Spec

\* Every state of every behaviour has the declared types: the tables hold rows
\* of the schema.
THEOREM TypeCorrect == Spec => []TypeOK
  <1>1. IInv => TypeOK
    BY DEF IInv
  <1>2. QED
    BY Invariance, <1>1, PTL

\* No team has two leaders, however many swaps and creates race for the seat:
\* what the checks miss the partial unique index refuses.
THEOREM OneLeader == Spec => []OneLeaderPerTeam
  <1>1. ASSUME IInv
        PROVE  OneLeaderPerTeam
    <2> SUFFICES ASSUME NEW t \in DOMAIN team
                 PROVE  Cardinality(LeadersOf(t)) <= 1
      BY DEF OneLeaderPerTeam
    <2>1. CASE LeadersOf(t) = {}
      BY <2>1, FS_EmptySet
    <2>2. CASE LeadersOf(t) # {}
      <3>1. PICK u : u \in LeadersOf(t)
        BY <2>2
      <3>2. LeadersOf(t) = {u}
        BY <1>1, <3>1 DEF LeadersOf, IInv, Tables, LeaderUnique
      <3>3. Cardinality({u}) = 1
        BY FS_Singleton
      <3>4. QED
        BY <3>2, <3>3
    <2>3. QED
      BY <2>1, <2>2
  <1>2. QED
    BY Invariance, <1>1, PTL

\* Everybody but the administrators belongs to a team that exists, also while
\* teams are removed and users created in them.
THEOREM Membership == Spec => []MembershipSound
  <1>1. IInv => MembershipSound
    BY DEF IInv, Tables
  <1>2. QED
    BY Invariance, <1>1, PTL

\* Emails and team names are unique although two requests may both find one
\* free.
THEOREM Uniqueness == Spec => []KeysUnique
  <1>1. IInv => KeysUnique
    BY DEF IInv, Tables
  <1>2. QED
    BY Invariance, <1>1, PTL

\* Users come from creation and change role in swaps only.
LEMMA RolesKept ==
  ASSUME [Next]_vars,
         \A r \in Requests : ~SetLeaderPromote(r) /\ ~CreateInsert(r),
         TypeOK
  PROVE  /\ DOMAIN user' = DOMAIN user
         /\ \A u \in DOMAIN user :
              user'[u].role = user[u].role /\ user'[u].team = user[u].team
  <1>1. ASSUME NEW r \in Requests,
               DeactivateWrite(r) \/ \E u \in Users : Reactivate(r, u)
        PROVE  /\ DOMAIN user' = DOMAIN user
               /\ \A u \in DOMAIN user :
                    user'[u].role = user[u].role /\ user'[u].team = user[u].team
    BY <1>1 DEF DeactivateWrite, Reactivate, TypeOK, IsTable, UserRow
  <1>2. CASE UNCHANGED user
    BY <1>2
  <1>3. ASSUME NEW r \in Requests, Step(r), ~DeactivateWrite(r)
        PROVE  UNCHANGED user
    BY <1>3 DEF Step, CreateCheckTeam, CreateCountLeaders, DeactivateCountAdmins,
                SetLeaderFind, SetLeaderSnapshot, SetLeaderDemote, SetLeaderLock,
                SetLeaderDeadlock, CreateTeamInsert,
                RenameTeamCheck, RenameTeamWrite, RemoveTeamCount, RemoveTeamDelete
  <1>4. QED
    BY <1>1, <1>2, <1>3
       DEF Next, vars, CreateUser, Deactivate, SetLeader, CreateTeam, RenameTeam, RemoveTeam

\* A seat once taken stays taken: a swap demotes and promotes in one commit, in
\* one team, and a swap that is refused demotes nobody.
THEOREM SeatStaysTaken == Spec => TeamKeepsLeader
  <1> DEFINE Kept == \A t \in DOMAIN team : LeadersOf(t) # {} => LeadersOf(t)' # {}
  <1>1. ASSUME IInv, [Next]_vars
        PROVE  Kept
    <2> SUFFICES ASSUME NEW t \in DOMAIN team, NEW u \in LeadersOf(t)
                 PROVE  LeadersOf(t)' # {}
      OBVIOUS
    <2>1. u \in DOMAIN user /\ user[u].role = "LEADER" /\ user[u].team = t
      BY DEF LeadersOf
    <2>2. ASSUME NEW r \in Requests, CreateInsert(r)
          PROVE  u \in LeadersOf(t)'
      <3>1. job[r].user \notin DOMAIN user
        BY <1>1, <2>2 DEF CreateInsert, IInv, Handlers, IdsFresh, CreateLabels
      <3>2. u \in DOMAIN user' /\ user'[u] = user[u]
        BY <2>1, <2>2, <3>1 DEF CreateInsert, Put
      <3>3. QED
        BY <2>1, <3>2 DEF LeadersOf
    <2>3. ASSUME NEW r \in Requests, SetLeaderPromote(r), user' # user
          PROVE  LeadersOf(t)' # {}
      <3>1. CASE t = job[r].team
        <4>1. job[r].user \in LeadersOf(t)'
          BY <1>1, <2>3, <3>1, SwapCommit DEF LeadersOf
        <4>2. QED
          BY <4>1
      <3>2. CASE t # job[r].team
        <4>1. u \notin demoted[r] /\ u # job[r].user
          BY <1>1, <2>1, <2>3, <3>2, SwapCommit
        <4>2. u \in LeadersOf(t)'
          BY <1>1, <2>1, <2>3, <4>1, SwapCommit DEF LeadersOf
        <4>3. QED
          BY <4>2
      <3>3. QED
        BY <3>1, <3>2
    <2>4. CASE UNCHANGED user
      BY <2>4, <2>1 DEF LeadersOf
    <2>5. CASE \A r \in Requests : ~SetLeaderPromote(r) /\ ~CreateInsert(r)
      <3>1. u \in LeadersOf(t)'
        BY <1>1, <2>1, <2>5, RolesKept DEF LeadersOf, IInv
      <3>2. QED
        BY <3>1
    <2>6. QED
      BY <2>2, <2>3, <2>4, <2>5
  <1>2. QED
    BY Invariance, <1>1, PTL DEF Spec, TeamKeepsLeader
=============================================================================
