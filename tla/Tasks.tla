------------------------------- MODULE Tasks --------------------------------
(***************************************************************************)
(* The task use-cases (CreateTask, EditDefinition, UpdateProgress,         *)
(* ReassignTask, DeleteTask), UsersService.deactivate as far as it counts  *)
(* and reports open tasks, and the direct EmailNotifier.                   *)
(*                                                                         *)
(* A use-case loads the task, tests its one rule and writes in separate    *)
(* statements without a transaction: other requests run in between.  Who   *)
(* the caller is comes from the claims of an access token, which stay what *)
(* they were when it was signed.                                           *)
(***************************************************************************)
EXTENDS Naturals, FiniteSets

CONSTANTS
  Users, Teams,
  NoTeam,       \* the teamId of administrators
  TeamOf,       \* a user's team: no operation changes it
  Tasks,        \* ids the database may hand out
  Progress,     \* TODO, IN_PROGRESS and DONE: any of them to any other
  Texts,        \* titles, descriptions and deadlines, as one datum
  Requests,
  SeedTasks,    \* rows prisma/seed.ts creates: a function on some Tasks
  SeedLeaders,  \* and the users it makes leaders
  MaxInFlight   \* bound: requests handled at the same time

TaskRow == [owner : Users, assignee : Users, progress : Progress, text : Texts,
            deleted : BOOLEAN]

Members == {u \in Users : TeamOf[u] # NoTeam}

ASSUME TasksAssumption == IsFiniteSet(Tasks)
ASSUME ProgressAssumption == {"TODO", "DONE"} \subseteq Progress
ASSUME TeamAssumption ==
  /\ NoTeam \notin Teams
  /\ TeamOf \in [Users -> Teams \cup {NoTeam}]
ASSUME SeedAssumption ==
  /\ DOMAIN SeedTasks \subseteq Tasks
  /\ SeedTasks \in [DOMAIN SeedTasks -> TaskRow]
  /\ \A t \in DOMAIN SeedTasks :
       /\ SeedTasks[t].owner \in Members
       /\ TeamOf[SeedTasks[t].owner] = TeamOf[SeedTasks[t].assignee]
  /\ SeedLeaders \subseteq Members
  /\ \A u, v \in SeedLeaders : TeamOf[u] = TeamOf[v] => u = v
ASSUME MaxInFlightAssumption == MaxInFlight \in Nat

VARIABLES
  task,    \* committed Task rows, by id
  active,  \* User.isActive
  role,    \* User.role
  claim,   \* role in the access token a user holds
  pc,      \* where the handler of each request is
  job,     \* its parameters and what it has read
  told,    \* history, <<user, task>>: he gave the task to himself, or a message
           \* reached the SMTP server, since the task was last given to him
  missed   \* history, <<user, task>>: since then a message about it was not sent

vars == <<task, active, role, claim, pc, job, told, missed>>

NoJob == [op |-> "none"]

Init ==
  /\ task = SeedTasks
  /\ active = [u \in Users |-> TRUE]
  /\ role = [u \in Users |-> IF u \notin Members THEN "ADMIN"
                             ELSE IF u \in SeedLeaders THEN "LEADER" ELSE "MEMBER"]
  /\ claim = role
  /\ pc = [r \in Requests |-> "idle"]
  /\ job = [r \in Requests |-> NoJob]
  /\ told = {<<SeedTasks[t].assignee, t>> : t \in DOMAIN SeedTasks}
  /\ missed = {}

-----------------------------------------------------------------------------
(* Helpers *)

Put(f, k, v) == [x \in DOMAIN f \cup {k} |-> IF x = k THEN v ELSE f[x]]

\* Seeded fault: the load is not limited to the caller's team.
Visible_EveryTeam(c, t) == t \in DOMAIN task /\ ~task[t].deleted

\* findByIdScoped: what the caller's team can see.
Visible(c, t) ==
  /\ t \in DOMAIN task
  /\ ~task[t].deleted
  /\ TeamOf[c] # NoTeam /\ TeamOf[task[t].assignee] = TeamOf[c]

IsOwner(c, t) == task[t].owner = c
IsAssignee(c, t) == task[t].assignee = c

\* countByAssignee counts these.
Pending(u) ==
  {t \in DOMAIN task : /\ task[t].assignee = u
                       /\ ~task[t].deleted
                       /\ task[t].progress # "DONE"}

Starting(r) ==
  /\ pc[r] = "idle"
  /\ Cardinality({q \in Requests : pc[q] # "idle"}) < MaxInFlight

Begin(r, label, j) ==
  /\ pc' = [pc EXCEPT ![r] = label]
  /\ job' = [job EXCEPT ![r] = j]

\* The handler ends.
Done(r) == Begin(r, "idle", NoJob)

Accounts == <<active, role, claim>>
Messages == <<told, missed>>

\* The message notifyAssigned or notifyReassigned is about to send.
Notice(r) == <<job[r].assignee, job[r].task>>

-----------------------------------------------------------------------------
(* POST /tasks *)

FreshTask(t) ==
  t \in Tasks \ (DOMAIN task \cup
                 {job[q].task : q \in {q \in Requests : "task" \in DOMAIN job[q]}})

\* Refused, leaving everything as it is: a MEMBER who names somebody else
\* (TASK_MEMBER_SELF_ASSIGN_ONLY), anybody who leaves the team
\* (TASK_ASSIGNEE_NOT_IN_TEAM), an unconfirmed past deadline.  isTeamMember is
\* not asked for isActive here, and teams do not change: one step.
CreateTask(r, c, t, a, x) ==
  /\ Starting(r)
  /\ FreshTask(t)
  /\ IF claim[c] = "MEMBER" THEN a = c ELSE TeamOf[c] # NoTeam /\ TeamOf[a] = TeamOf[c]
  /\ Begin(r, "create_write",
           [op |-> "create", by |-> c, task |-> t, assignee |-> a, text |-> x])
  /\ UNCHANGED <<task, Messages, Accounts>>

\* The INSERT; only somebody else is notified.
CreateWrite(r) ==
  /\ pc[r] = "create_write"
  /\ task' = Put(task, job[r].task,
                 [owner |-> job[r].by, assignee |-> job[r].assignee, progress |-> "TODO",
                  text |-> job[r].text, deleted |-> FALSE])
  /\ \/ job[r].assignee # job[r].by /\ Begin(r, "notify", job[r]) /\ UNCHANGED told
     \/ job[r].assignee = job[r].by /\ Done(r) /\ told' = told \cup {Notice(r)}
  /\ UNCHANGED <<missed, Accounts>>

-----------------------------------------------------------------------------
(* PATCH /tasks/:id, PATCH /tasks/:id/progress, DELETE /tasks/:id *)

\* The scoped load, the use-case's one rule, and what is left to do.  Refused
\* with 404 or 403, a request leaves everything as it is.
Load(r, c, t, allowed, label, j) ==
  /\ Starting(r)
  /\ Visible(c, t)
  /\ allowed
  /\ Begin(r, label, j)
  /\ UNCHANGED <<task, Messages, Accounts>>

EditDefinition(r, c, t, x) ==
  Load(r, c, t, IsOwner(c, t), "edit_write",
       [op |-> "edit", task |-> t, text |-> x])

\* The row is updated by its id alone: the load's conditions may be gone.
EditWrite(r) ==
  /\ pc[r] = "edit_write"
  /\ task' = [task EXCEPT ![job[r].task].text = job[r].text]
  /\ Done(r)
  /\ UNCHANGED <<Messages, Accounts>>

UpdateProgress(r, c, t, p) ==
  Load(r, c, t, IsAssignee(c, t), "progress_write",
       [op |-> "progress", task |-> t, progress |-> p])

\* Seeded fault: the domain entity is saved, which has no deletedAt.
ProgressWrite_SavesEntity(r) ==
  /\ pc[r] = "progress_write"
  /\ task' = [task EXCEPT ![job[r].task].progress = job[r].progress,
                          ![job[r].task].deleted = FALSE]
  /\ Done(r)
  /\ UNCHANGED <<Messages, Accounts>>

ProgressWrite(r) ==
  /\ pc[r] = "progress_write"
  /\ task' = [task EXCEPT ![job[r].task].progress = job[r].progress]
  /\ Done(r)
  /\ UNCHANGED <<Messages, Accounts>>

DeleteTask(r, c, t) ==
  Load(r, c, t, IsOwner(c, t), "delete_write",
       [op |-> "delete", task |-> t])

\* Seeded fault: the row is removed instead of marked.
DeleteWrite_Hard(r) ==
  /\ pc[r] = "delete_write"
  /\ task' = [t \in DOMAIN task \ {job[r].task} |-> task[t]]
  /\ Done(r)
  /\ UNCHANGED <<Messages, Accounts>>

DeleteWrite(r) ==
  /\ pc[r] = "delete_write"
  /\ task' = [task EXCEPT ![job[r].task].deleted = TRUE]
  /\ Done(r)
  /\ UNCHANGED <<Messages, Accounts>>

-----------------------------------------------------------------------------
(* PATCH /tasks/:id/assignee *)

ReassignTask(r, c, t, a) ==
  Load(r, c, t, claim[c] = "LEADER", "reassign_check",
       [op |-> "reassign", by |-> c, task |-> t, assignee |-> a])

\* isTeamMember, here with activeOnly.
ReassignCheckTarget(r) ==
  /\ pc[r] = "reassign_check"
  /\ LET a == job[r].assignee
         valid == TeamOf[a] = TeamOf[job[r].by] /\ active[a]
     IN \/ ~valid /\ Done(r)
        \/ valid /\ Begin(r, "reassign_write", job[r])
  /\ UNCHANGED <<task, Messages, Accounts>>

\* Seeded fault: who created the task is not notified, as in CreateTask.
ReassignWrite_NotToOwner(r) ==
  /\ pc[r] = "reassign_write"
  /\ task' = [task EXCEPT ![job[r].task].assignee = job[r].assignee]
  /\ told' = told \ {Notice(r)} /\ missed' = missed \ {Notice(r)}
  /\ IF job[r].assignee # task[job[r].task].owner THEN Begin(r, "notify", job[r]) ELSE Done(r)
  /\ UNCHANGED Accounts

\* What the new assignee heard of earlier times he had the task counts no more.
ReassignWrite(r) ==
  /\ pc[r] = "reassign_write"
  /\ task' = [task EXCEPT ![job[r].task].assignee = job[r].assignee]
  /\ told' = told \ {Notice(r)} /\ missed' = missed \ {Notice(r)}
  /\ Begin(r, "notify", job[r])
  /\ UNCHANGED Accounts

\* EmailNotifier.notifyAssigned and notifyReassigned: the lookup or the sending
\* may fail, which is logged and swallowed.
Notify(r) ==
  /\ pc[r] = "notify"
  /\ \/ told' = told \cup {Notice(r)} /\ UNCHANGED missed
     \/ missed' = missed \cup {Notice(r)} /\ UNCHANGED told
  /\ Done(r)
  /\ UNCHANGED <<task, Accounts>>

-----------------------------------------------------------------------------
\* The replica that handles the request stops, at any of its awaits.
Crash(r) ==
  /\ pc[r] # "idle"
  /\ missed' = IF pc[r] = "notify" THEN missed \cup {Notice(r)} ELSE missed
  /\ Done(r)
  /\ UNCHANGED <<task, told, Accounts>>

-----------------------------------------------------------------------------
(* The accounts: POST /users/:id/deactivate, /reactivate, the leader's seat, *)
(* and the access tokens. *)

\* The target is loaded; leaders and administrators take other paths.
Deactivate(r, u) ==
  /\ Starting(r)
  /\ role[u] = "MEMBER"
  /\ Begin(r, "deactivate_count", [op |-> "deactivate", user |-> u, count |-> 0])
  /\ UNCHANGED <<task, Messages, Accounts>>

DeactivateCount(r) ==
  /\ pc[r] = "deactivate_count"
  /\ Begin(r, "deactivate_write",
           [job[r] EXCEPT !.count = Cardinality(Pending(job[r].user))])
  /\ UNCHANGED <<task, Messages, Accounts>>

\* The transaction commits; the report follows if there is something in it.
DeactivateWrite(r) ==
  /\ pc[r] = "deactivate_write"
  /\ active' = [active EXCEPT ![job[r].user] = FALSE]
  /\ IF job[r].count > 0 THEN Begin(r, "report", job[r]) ELSE Done(r)
  /\ UNCHANGED <<task, role, claim, Messages>>

\* notifyTasksOrphaned, which ends the request whether it finds an active leader
\* and whether its message can be sent or not: what became of it is not kept.
Report(r) ==
  /\ pc[r] = "report"
  /\ Done(r)
  /\ UNCHANGED <<task, Messages, Accounts>>

Reactivate(u) ==
  /\ active' = [active EXCEPT ![u] = TRUE]
  /\ UNCHANGED <<task, role, claim, pc, job, Messages>>

\* setLeader commits.
SetLeader(u) ==
  /\ u \in Members /\ active[u]
  /\ role' = [v \in Users |-> IF v = u THEN "LEADER"
                              ELSE IF TeamOf[v] = TeamOf[u] THEN "MEMBER" ELSE role[v]]
  /\ UNCHANGED <<task, active, claim, pc, job, Messages>>

\* login or refresh signs the present role into an access token.  That a token
\* lapses is a caller who does not call any more.
SignAccess(u) ==
  /\ active[u]
  /\ claim' = [claim EXCEPT ![u] = role[u]]
  /\ UNCHANGED <<task, active, role, pc, job, Messages>>

-----------------------------------------------------------------------------
Request(r) ==
  \E c \in Users, t \in Tasks :
    \/ \E a \in Users, x \in Texts : CreateTask(r, c, t, a, x)
    \/ \E x \in Texts : EditDefinition(r, c, t, x)
    \/ \E p \in Progress : UpdateProgress(r, c, t, p)
    \/ \E a \in Users : ReassignTask(r, c, t, a)
    \/ DeleteTask(r, c, t)

Step(r) ==
  \/ CreateWrite(r) \/ EditWrite(r) \/ ProgressWrite(r) \/ DeleteWrite(r)
  \/ ReassignCheckTarget(r) \/ ReassignWrite(r) \/ Notify(r)
  \/ DeactivateCount(r) \/ DeactivateWrite(r) \/ Report(r)
  \/ Crash(r)

Next ==
  \/ \E r \in Requests : Request(r) \/ Step(r) \/ \E u \in Users : Deactivate(r, u)
  \/ \E u \in Users : Reactivate(u) \/ SetLeader(u) \/ SignAccess(u)

Spec == Init /\ [][Next]_vars

-----------------------------------------------------------------------------
(* Properties *)

TaskLabels == {"create_write", "edit_write", "progress_write", "delete_write",
               "reassign_check", "reassign_write", "notify"}
UserLabels == {"deactivate_count", "deactivate_write", "report"}

Jobs ==
  {NoJob}
  \cup [op : {"create"}, by : Users, task : Tasks, assignee : Users, text : Texts]
  \cup [op : {"edit"}, task : Tasks, text : Texts]
  \cup [op : {"progress"}, task : Tasks, progress : Progress]
  \cup [op : {"delete"}, task : Tasks]
  \cup [op : {"reassign"}, by : Users, task : Tasks, assignee : Users]
  \cup [op : {"deactivate"}, user : Users, count : 0..Cardinality(Tasks)]

\* Types of the state; and a request that has loaded a task still finds its row
\* when it writes, because rows are only ever marked as deleted.
TypeOK ==
  /\ DOMAIN task \subseteq Tasks
  /\ task \in [DOMAIN task -> TaskRow]
  /\ active \in [Users -> BOOLEAN]
  /\ role \in [Users -> {"ADMIN", "LEADER", "MEMBER"}]
  /\ claim \in [Users -> {"ADMIN", "LEADER", "MEMBER"}]
  /\ pc \in [Requests -> {"idle"} \cup TaskLabels \cup UserLabels]
  /\ job \in [Requests -> Jobs]
  /\ told \subseteq Users \X Tasks
  /\ missed \subseteq Users \X Tasks
  /\ \A r \in Requests : pc[r] \in TaskLabels \ {"create_write"} => job[r].task \in DOMAIN task

\* A task never leaves the team of the user who created it, so everybody who
\* may see it keeps seeing it: no column holds the team, it is the assignee's
\* (findByIdScoped, isTeamMember; docs/05 on the derived scope).
TasksStayInTeam ==
  \A t \in DOMAIN task : TeamOf[task[t].assignee] = TeamOf[task[t].owner]

\* Deletion is final: no write that was under way brings the task back
\* (softDelete; docs/06 section 10 has no un-delete).
DeletionIsFinal ==
  [][\A t \in DOMAIN task : task[t].deleted => t \in DOMAIN task' /\ task'[t].deleted]_vars

\* Whoever has to do a task, in whatever order reassignments were written and
\* notified, gave it to himself or has a message about it that is younger than
\* the write that gave it to him; or one is about to be sent; or exactly that
\* one failed, which EmailNotifier logs, or fell to a replica that stopped.
\* What was sent to him for an earlier time he had the task does not count
\* (CreateTask and ReassignTask notify after the write).
AssigneeIsTold ==
  \A t \in DOMAIN task :
    \/ <<task[t].assignee, t>> \in told \cup missed
    \/ \E r \in Requests : pc[r] = "notify" /\ Notice(r) = <<task[t].assignee, t>>

\* A member is not deactivated with open tasks and nobody hearing of it: if any
\* are left when it commits, the leader gets a report (FR-USER-01).
OrphansAreReported ==
  [][\A r \in Requests : DeactivateWrite(r) /\ Pending(job[r].user) # {} =>
       pc'[r] = "report"]_vars
=============================================================================
