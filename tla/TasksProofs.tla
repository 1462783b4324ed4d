---------------------------- MODULE TasksProofs -----------------------------
(***************************************************************************)
(* What holds of tasks for any number of users, teams, tasks and requests: *)
(* a task stays in its team, a deletion is final, and no notice of an      *)
(* assignment is forgotten.                                                *)
(***************************************************************************)
EXTENDS Tasks, FiniteSetTheorems, TLAPS

CreateJobs ==
  [op : {"create"}, by : Users, task : Tasks, assignee : Users, text : Texts]
EditJobs == [op : {"edit"}, task : Tasks, text : Texts]
ProgressJobs == [op : {"progress"}, task : Tasks, progress : Progress]
DeleteJobs == [op : {"delete"}, task : Tasks]
ReassignJobs == [op : {"reassign"}, by : Users, task : Tasks, assignee : Users]
DeactivateJobs ==
  [op : {"deactivate"}, user : Users, count : 0..Cardinality(Tasks)]

\* What a handler holds in memory at each of its awaits.
JobsFit ==
  \A r \in Requests :
    /\ pc[r] = "idle" => job[r] = NoJob
    /\ pc[r] = "create_write" => job[r] \in CreateJobs
    /\ pc[r] = "edit_write" => job[r] \in EditJobs
    /\ pc[r] = "progress_write" => job[r] \in ProgressJobs
    /\ pc[r] = "delete_write" => job[r] \in DeleteJobs
    /\ pc[r] \in {"reassign_check", "reassign_write"} => job[r] \in ReassignJobs
    /\ pc[r] = "notify" => job[r] \in CreateJobs \cup ReassignJobs
    /\ pc[r] \in UserLabels => job[r] \in DeactivateJobs

\* The id of a task that is not inserted yet is nobody else's.
IdsFresh ==
  \A r \in Requests : pc[r] = "create_write" =>
    /\ job[r].task \notin DOMAIN task
    /\ \A q \in Requests : pc[q] = "create_write" /\ job[q].task = job[r].task => q = r

\* What a use-case has tested and may rely on when it writes.
ChecksHold ==
  \A r \in Requests :
    /\ pc[r] = "create_write" => TeamOf[job[r].assignee] = TeamOf[job[r].by]
    /\ pc[r] = "reassign_check" => TeamOf[job[r].by] = TeamOf[task[job[r].task].owner]
    /\ pc[r] = "reassign_write" =>
         TeamOf[job[r].assignee] = TeamOf[task[job[r].task].owner]

IInv ==
  TypeOK /\ JobsFit /\ IdsFresh /\ ChecksHold /\ TasksStayInTeam /\ AssigneeIsTold

LEMMA InitIInv == Init => IInv
  <1> SUFFICES ASSUME Init
               PROVE  IInv
    OBVIOUS
  <1> USE ProgressAssumption, TeamAssumption, SeedAssumption
      DEF Init, Members, NoJob
  <1>1. TypeOK
    <2>1. \A t \in DOMAIN SeedTasks : SeedTasks[t].assignee \in Users /\ t \in Tasks
      BY DEF TaskRow
    <2>2. told \subseteq Users \X Tasks
      BY <2>1
    <2>3. QED
      BY <2>2 DEF TypeOK, Jobs, TaskLabels, UserLabels
  <1>2. JobsFit /\ IdsFresh /\ ChecksHold
    BY DEF JobsFit, IdsFresh, ChecksHold, UserLabels
  <1>3. TasksStayInTeam
    BY DEF TasksStayInTeam, TaskRow
  <1>4. AssigneeIsTold
    <2>1. \A t \in DOMAIN task : <<task[t].assignee, t>> \in told
      OBVIOUS
    <2>2. QED
      BY <2>1 DEF AssigneeIsTold
  <1>5. QED
    BY <1>1, <1>2, <1>3, <1>4 DEF IInv

\* A step that starts or resumes a handler without touching the tasks or mail.
LEMMA HandlerMoves ==
  ASSUME IInv, NEW r \in Requests, NEW l, NEW j,
         Begin(r, l, j), UNCHANGED <<task, told, missed, active, role, claim>>,
         pc[r] # "notify",
         \/ l = "idle" /\ j = NoJob
         \/ l = "edit_write" /\ j \in EditJobs /\ j.task \in DOMAIN task
         \/ l = "progress_write" /\ j \in ProgressJobs /\ j.task \in DOMAIN task
         \/ l = "delete_write" /\ j \in DeleteJobs /\ j.task \in DOMAIN task
         \/ /\ l = "reassign_check" /\ j \in ReassignJobs /\ j.task \in DOMAIN task
            /\ TeamOf[j.by] = TeamOf[task[j.task].owner]
         \/ /\ l = "reassign_write" /\ j \in ReassignJobs /\ j.task \in DOMAIN task
            /\ TeamOf[j.assignee] = TeamOf[task[j.task].owner]
         \/ l \in UserLabels /\ j \in DeactivateJobs
         \/ /\ l = "create_write" /\ j \in CreateJobs
            /\ TeamOf[j.assignee] = TeamOf[j.by]
            /\ j.task \notin DOMAIN task
            /\ \A q \in Requests : pc[q] = "create_write" => job[q].task # j.task
  PROVE  IInv'
  <1> USE DEF IInv, Begin
  <1>1. l \in {"idle"} \cup TaskLabels \cup UserLabels /\ j \in Jobs /\ l # "notify"
    BY DEF Jobs, TaskLabels, UserLabels, CreateJobs, EditJobs, ProgressJobs, DeleteJobs,
           ReassignJobs, DeactivateJobs
  <1>2. TypeOK'
    BY <1>1 DEF TypeOK, TaskLabels, UserLabels
  <1>3. JobsFit'
    BY DEF TypeOK, JobsFit, UserLabels
  <1>4. IdsFresh'
    BY DEF TypeOK, IdsFresh, UserLabels
  <1>5. ChecksHold'
    BY DEF TypeOK, ChecksHold, UserLabels
  <1>6. TasksStayInTeam'
    BY DEF TasksStayInTeam
  <1>7. AssigneeIsTold'
    BY <1>1 DEF TypeOK, AssigneeIsTold, Notice
  <1>8. QED
    BY <1>2, <1>3, <1>4, <1>5, <1>6, <1>7

\* Requests of the controller: the load and the rule give what the write needs.
LEMMA RequestStep ==
  ASSUME IInv, NEW r \in Requests, Request(r)
  PROVE  IInv'
  <1>1. PICK c \in Users, t \in Tasks :
          \/ \E a \in Users, x \in Texts : CreateTask(r, c, t, a, x)
          \/ \E x \in Texts : EditDefinition(r, c, t, x)
          \/ \E p \in Progress : UpdateProgress(r, c, t, p)
          \/ \E a \in Users : ReassignTask(r, c, t, a)
          \/ DeleteTask(r, c, t)
    BY DEF Request
  <1> USE DEF Load, Visible, Starting, Accounts, Messages
  <1>2. ASSUME NEW a \in Users, NEW x \in Texts, CreateTask(r, c, t, a, x)
        PROVE  IInv'
    <2> DEFINE j == [op |-> "create", by |-> c, task |-> t, assignee |-> a, text |-> x]
    <2>1. /\ Begin(r, "create_write", j) /\ pc[r] # "notify"
          /\ UNCHANGED <<task, told, missed, active, role, claim>>
      BY <1>2 DEF CreateTask
    <2>2. j \in CreateJobs /\ TeamOf[j.assignee] = TeamOf[j.by]
      BY <1>2 DEF CreateTask, CreateJobs
    <2>3. j.task \notin DOMAIN task
      BY <1>2 DEF CreateTask, FreshTask
    <2>4. ASSUME NEW q \in Requests, pc[q] = "create_write"
          PROVE  job[q].task # j.task
      <3>1. job[q] \in CreateJobs
        BY <2>4 DEF IInv, JobsFit
      <3>2. "task" \in DOMAIN job[q]
        BY <3>1 DEF CreateJobs
      <3>3. QED
        BY <1>2, <3>2 DEF CreateTask, FreshTask
    <2>5. QED
      BY <2>1, <2>2, <2>3, <2>4, HandlerMoves
  <1>3. ASSUME NEW x \in Texts, EditDefinition(r, c, t, x)
        PROVE  IInv'
    <2>1. [op |-> "edit", task |-> t, text |-> x] \in EditJobs
      BY DEF EditJobs
    <2>2. QED
      BY <1>3, <2>1, HandlerMoves DEF EditDefinition
  <1>4. ASSUME NEW p \in Progress, UpdateProgress(r, c, t, p)
        PROVE  IInv'
    <2>1. [op |-> "progress", task |-> t, progress |-> p] \in ProgressJobs
      BY DEF ProgressJobs
    <2>2. QED
      BY <1>4, <2>1, HandlerMoves DEF UpdateProgress
  <1>5. ASSUME NEW a \in Users, ReassignTask(r, c, t, a)
        PROVE  IInv'
    <2>1. [op |-> "reassign", by |-> c, task |-> t, assignee |-> a] \in ReassignJobs
      BY DEF ReassignJobs
    <2>2. TeamOf[c] = TeamOf[task[t].owner]
      BY <1>5 DEF ReassignTask, IInv, TasksStayInTeam
    <2>3. QED
      BY <1>5, <2>1, <2>2, HandlerMoves DEF ReassignTask
  <1>6. CASE DeleteTask(r, c, t)
    <2>1. [op |-> "delete", task |-> t] \in DeleteJobs
      BY DEF DeleteJobs
    <2>2. QED
      BY <1>6, <2>1, HandlerMoves DEF DeleteTask
  <1>7. QED
    BY <1>1, <1>2, <1>3, <1>4, <1>5, <1>6

\* The first statement of deactivate, its count, and the check of an assignee.
LEMMA ReadingSteps ==
  ASSUME IInv, NEW r \in Requests,
         \/ \E u \in Users : Deactivate(r, u)
         \/ DeactivateCount(r)
         \/ ReassignCheckTarget(r)
  PROVE  IInv'
  <1> USE DEF Accounts, Messages
  <1>1. ASSUME NEW u \in Users, Deactivate(r, u)
        PROVE  IInv'
    <2>1. [op |-> "deactivate", user |-> u, count |-> 0] \in DeactivateJobs
      BY TasksAssumption, FS_CardinalityType DEF DeactivateJobs
    <2>2. QED
      BY <1>1, <2>1, HandlerMoves DEF Deactivate, Starting, UserLabels
  <1>2. CASE DeactivateCount(r)
    <2> DEFINE n == Cardinality(Pending(job[r].user))
    <2>1. n \in 0..Cardinality(Tasks)
      <3>1. Pending(job[r].user) \subseteq Tasks
        BY DEF Pending, IInv, TypeOK
      <3>2. QED
        BY <3>1, TasksAssumption, FS_Subset, FS_CardinalityType
    <2>2. job[r] \in DeactivateJobs
      BY <1>2 DEF DeactivateCount, IInv, JobsFit, UserLabels
    <2>3. [job[r] EXCEPT !.count = n] \in DeactivateJobs
      BY <2>1, <2>2 DEF DeactivateJobs
    <2>4. QED
      BY <1>2, <2>3, HandlerMoves DEF DeactivateCount, UserLabels
  <1>3. CASE ReassignCheckTarget(r)
    <2>1. /\ job[r] \in ReassignJobs /\ job[r].task \in DOMAIN task
          /\ TeamOf[job[r].by] = TeamOf[task[job[r].task].owner]
      BY <1>3 DEF ReassignCheckTarget, IInv, JobsFit, ChecksHold, TypeOK, TaskLabels
    <2>2. CASE Done(r)
      BY <1>3, <2>2, HandlerMoves DEF ReassignCheckTarget, Done
    <2>3. CASE Begin(r, "reassign_write", job[r]) /\ TeamOf[job[r].assignee] = TeamOf[job[r].by]
      BY <1>3, <2>1, <2>3, HandlerMoves DEF ReassignCheckTarget
    <2>4. QED
      BY <1>3, <2>2, <2>3 DEF ReassignCheckTarget
  <1>4. QED
    BY <1>1, <1>2, <1>3

\* A write that changes neither the assignee nor the owner of any task.
LEMMA PlainWrite ==
  ASSUME IInv, NEW r \in Requests, Done(r), pc[r] # "notify",
         UNCHANGED <<told, missed, active, role, claim>>,
         DOMAIN task' = DOMAIN task,
         task' \in [DOMAIN task' -> TaskRow],
         \A t \in DOMAIN task :
           task'[t].owner = task[t].owner /\ task'[t].assignee = task[t].assignee
  PROVE  IInv'
  <1> USE DEF IInv, Done, Begin
  <1>1. TypeOK'
    BY DEF TypeOK, Jobs, TaskLabels
  <1>2. JobsFit'
    BY DEF TypeOK, JobsFit, UserLabels
  <1>3. IdsFresh'
    BY DEF TypeOK, IdsFresh
  <1>4. ChecksHold'
    BY DEF TypeOK, ChecksHold, TaskLabels
  <1>5. TasksStayInTeam'
    BY DEF TasksStayInTeam
  <1>6. AssigneeIsTold'
    BY DEF TypeOK, AssigneeIsTold, Notice
  <1>7. QED
    BY <1>1, <1>2, <1>3, <1>4, <1>5, <1>6

LEMMA MarkedRow ==
  ASSUME NEW row \in TaskRow, NEW b \in BOOLEAN
  PROVE  [row EXCEPT !.deleted = b] \in TaskRow
  BY DEF TaskRow

LEMMA PlainWrites ==
  ASSUME IInv, NEW r \in Requests, EditWrite(r) \/ ProgressWrite(r) \/ DeleteWrite(r)
  PROVE  IInv'
  <1> USE DEF IInv, TypeOK, JobsFit, TaskLabels, Accounts, Messages
  <1>1. CASE EditWrite(r)
    <2>1. job[r].task \in DOMAIN task /\ job[r].text \in Texts
      BY <1>1 DEF EditWrite, EditJobs
    <2>2. task' \in [DOMAIN task -> TaskRow]
      BY <1>1, <2>1 DEF EditWrite, TaskRow
    <2>3. \A t \in DOMAIN task :
            task'[t].owner = task[t].owner /\ task'[t].assignee = task[t].assignee
      BY <1>1, <2>1 DEF EditWrite, TaskRow
    <2>4. QED
      BY <1>1, <2>2, <2>3, PlainWrite DEF EditWrite
  <1>2. CASE ProgressWrite(r)
    <2>1. job[r].task \in DOMAIN task /\ job[r].progress \in Progress
      BY <1>2 DEF ProgressWrite, ProgressJobs
    <2>2. task' \in [DOMAIN task -> TaskRow]
      BY <1>2, <2>1 DEF ProgressWrite, TaskRow
    <2>3. \A t \in DOMAIN task :
            task'[t].owner = task[t].owner /\ task'[t].assignee = task[t].assignee
      BY <1>2, <2>1 DEF ProgressWrite, TaskRow
    <2>4. QED
      BY <1>2, <2>2, <2>3, PlainWrite DEF ProgressWrite
  <1>3. CASE DeleteWrite(r)
    <2>1. job[r].task \in DOMAIN task
      BY <1>3 DEF DeleteWrite
    <2>2. task' \in [DOMAIN task -> TaskRow]
      <3>1. [task[job[r].task] EXCEPT !.deleted = TRUE] \in TaskRow
        BY <2>1, MarkedRow, TRUE \in BOOLEAN
      <3>2. task' = [task EXCEPT ![job[r].task] = [@ EXCEPT !.deleted = TRUE]]
        BY <1>3 DEF DeleteWrite
      <3>3. QED
        BY <2>1, <3>1, <3>2
    <2>3. \A t \in DOMAIN task :
            task'[t].owner = task[t].owner /\ task'[t].assignee = task[t].assignee
      BY <1>3, <2>1 DEF DeleteWrite, TaskRow
    <2>4. QED
      BY <1>3, <2>2, <2>3, PlainWrite DEF DeleteWrite
  <1>4. QED
    BY <1>1, <1>2, <1>3

LEMMA CreateStep ==
  ASSUME IInv, NEW r \in Requests, CreateWrite(r)
  PROVE  IInv'
  <1> DEFINE x == job[r].task
             row == [owner |-> job[r].by, assignee |-> job[r].assignee,
                     progress |-> "TODO", text |-> job[r].text, deleted |-> FALSE]
  <1>1. /\ pc[r] = "create_write" /\ job[r] \in CreateJobs /\ x \notin DOMAIN task
        /\ TeamOf[job[r].assignee] = TeamOf[job[r].by]
    BY DEF CreateWrite, IInv, JobsFit, IdsFresh, ChecksHold
  <1>2. row \in TaskRow
    <2>1. job[r].by \in Users /\ job[r].assignee \in Users /\ job[r].text \in Texts
      BY <1>1 DEF CreateJobs
    <2>2. \A b \in BOOLEAN :
            [owner |-> job[r].by, assignee |-> job[r].assignee,
             progress |-> "TODO", text |-> job[r].text, deleted |-> b] \in TaskRow
      BY <2>1, ProgressAssumption DEF TaskRow
    <2>3. QED
      BY <2>2, FALSE \in BOOLEAN
  <1>3. x \in Tasks
    BY <1>1 DEF CreateJobs
  <1>4. /\ DOMAIN task' = DOMAIN task \cup {x}
        /\ task'[x] = row
        /\ \A t \in DOMAIN task : task'[t] = task[t]
        /\ task' \in [DOMAIN task' -> TaskRow]
    BY <1>1, <1>2 DEF CreateWrite, Put, IInv, TypeOK
  <1>5. /\ pc' \in [Requests -> {"idle"} \cup TaskLabels \cup UserLabels]
        /\ job' \in [Requests -> Jobs]
        /\ \A q \in Requests \ {r} : pc'[q] = pc[q] /\ job'[q] = job[q]
        /\ \/ /\ pc'[r] = "idle" /\ job'[r] = NoJob /\ job[r].assignee = job[r].by
              /\ told' = told \cup {<<job[r].assignee, x>>}
           \/ pc'[r] = "notify" /\ job'[r] = job[r] /\ told' = told
    BY DEF CreateWrite, Done, Begin, Notice, IInv, TypeOK, TaskLabels, Jobs
  <1>6. UNCHANGED <<missed, active, role, claim>>
    BY DEF CreateWrite, Accounts
  <1>7. TypeOK'
    <2>1. told' \subseteq Users \X Tasks
      BY <1>1, <1>3, <1>5 DEF CreateJobs, IInv, TypeOK
    <2>2. QED
      BY <1>3, <1>4, <1>5, <1>6, <2>1 DEF IInv, TypeOK, TaskLabels
  <1>8. JobsFit'
    BY <1>1, <1>5 DEF IInv, JobsFit, UserLabels
  <1>9. IdsFresh'
    BY <1>1, <1>4, <1>5 DEF IInv, IdsFresh
  <1>10. ChecksHold'
    BY <1>4, <1>5 DEF IInv, TypeOK, ChecksHold, TaskLabels
  <1>11. TasksStayInTeam'
    BY <1>1, <1>4 DEF IInv, TasksStayInTeam
  <1>12. AssigneeIsTold'
    <2> SUFFICES ASSUME NEW t \in DOMAIN task',
                        <<task'[t].assignee, t>> \notin told' \cup missed'
                 PROVE  \E q \in Requests :
                          /\ pc'[q] = "notify"
                          /\ <<job'[q].assignee, job'[q].task>> = <<task'[t].assignee, t>>
      BY DEF AssigneeIsTold, Notice
    <2>1. CASE t = x
      BY <2>1, <1>4, <1>5
    <2>2. CASE t \in DOMAIN task
      <3>1. PICK q \in Requests :
              /\ pc[q] = "notify"
              /\ <<job[q].assignee, job[q].task>> = <<task[t].assignee, t>>
        BY <2>2, <1>4, <1>5, <1>6 DEF IInv, AssigneeIsTold, Notice
      <3>2. QED
        BY <3>1, <2>2, <1>1, <1>4, <1>5
    <2>3. QED
      BY <2>1, <2>2, <1>4
  <1>13. QED
    BY <1>7, <1>8, <1>9, <1>10, <1>11, <1>12 DEF IInv

LEMMA ReassignStep ==
  ASSUME IInv, NEW r \in Requests, ReassignWrite(r)
  PROVE  IInv'
  <1> DEFINE x == job[r].task
             a == job[r].assignee
  <1>1. /\ pc[r] = "reassign_write" /\ job[r] \in ReassignJobs /\ x \in DOMAIN task
        /\ TeamOf[a] = TeamOf[task[x].owner]
    BY DEF ReassignWrite, IInv, JobsFit, ChecksHold, TypeOK, TaskLabels
  <1>2. a \in Users
    BY <1>1 DEF ReassignJobs
  <1>3. /\ DOMAIN task' = DOMAIN task
        /\ task' \in [DOMAIN task' -> TaskRow]
        /\ task'[x].assignee = a /\ task'[x].owner = task[x].owner
        /\ \A t \in DOMAIN task : t # x => task'[t] = task[t]
    BY <1>1, <1>2 DEF ReassignWrite, IInv, TypeOK, TaskRow
  <1>4. /\ pc' = [pc EXCEPT ![r] = "notify"] /\ job' = [job EXCEPT ![r] = job[r]]
        /\ told' = told \ {<<a, x>>} /\ missed' = missed \ {<<a, x>>}
        /\ UNCHANGED <<active, role, claim>>
    BY DEF ReassignWrite, Begin, Notice, Accounts
  <1>5. TypeOK'
    BY <1>1, <1>3, <1>4 DEF IInv, TypeOK, TaskLabels
  <1>6. JobsFit'
    BY <1>1, <1>4 DEF IInv, TypeOK, JobsFit, UserLabels
  <1>7. IdsFresh'
    BY <1>3, <1>4 DEF IInv, TypeOK, IdsFresh
  <1>8. ChecksHold'
    BY <1>3, <1>4 DEF IInv, TypeOK, ChecksHold, TaskLabels
  <1>9. TasksStayInTeam'
    BY <1>1, <1>3 DEF IInv, TasksStayInTeam
  <1>10. AssigneeIsTold'
    <2> SUFFICES ASSUME NEW t \in DOMAIN task,
                        <<task'[t].assignee, t>> \notin told' \cup missed'
                 PROVE  \E q \in Requests :
                          /\ pc'[q] = "notify"
                          /\ <<job'[q].assignee, job'[q].task>> = <<task'[t].assignee, t>>
      BY <1>3 DEF AssigneeIsTold, Notice
    <2>1. CASE t = x
      BY <2>1, <1>3, <1>4 DEF IInv, TypeOK
    <2>2. CASE t # x
      <3>1. PICK q \in Requests :
              /\ pc[q] = "notify"
              /\ <<job[q].assignee, job[q].task>> = <<task[t].assignee, t>>
        BY <2>2, <1>3, <1>4 DEF IInv, AssigneeIsTold, Notice
      <3>2. QED
        BY <3>1, <2>2, <1>1, <1>3, <1>4
    <2>3. QED
      BY <2>1, <2>2
  <1>11. QED
    BY <1>5, <1>6, <1>7, <1>8, <1>9, <1>10 DEF IInv

\* A handler ends, with its message sent or not; the tasks stay as they are.
LEMMA HandlerEnds ==
  ASSUME IInv, NEW r \in Requests, Notify(r) \/ Report(r) \/ Crash(r)
  PROVE  IInv'
  <1>1. /\ pc' = [pc EXCEPT ![r] = "idle"] /\ job' = [job EXCEPT ![r] = NoJob]
        /\ UNCHANGED <<task, active, role, claim>>
    BY DEF Notify, Report, Crash, Done, Begin, Accounts
  <1>2. \/ pc[r] # "notify" /\ told' = told /\ missed' = missed
        \/ /\ pc[r] = "notify"
           /\ \/ told' = told \cup {Notice(r)} /\ missed' = missed
              \/ missed' = missed \cup {Notice(r)} /\ told' = told
    BY DEF Notify, Report, Crash, Messages
  <1>3. pc[r] = "notify" => Notice(r) \in Users \X Tasks
    BY DEF Notice, IInv, JobsFit, CreateJobs, ReassignJobs
  <1>4. TypeOK'
    BY <1>1, <1>2, <1>3 DEF IInv, TypeOK, Jobs, TaskLabels
  <1>5. JobsFit' /\ IdsFresh' /\ ChecksHold'
    BY <1>1 DEF IInv, TypeOK, JobsFit, IdsFresh, ChecksHold, UserLabels
  <1>6. TasksStayInTeam'
    BY <1>1 DEF IInv, TasksStayInTeam
  <1>7. AssigneeIsTold'
    <2> SUFFICES ASSUME NEW t \in DOMAIN task,
                        <<task[t].assignee, t>> \notin told' \cup missed'
                 PROVE  \E q \in Requests : pc'[q] = "notify"
                          /\ <<job'[q].assignee, job'[q].task>> = <<task[t].assignee, t>>
      BY <1>1 DEF AssigneeIsTold, Notice
    <2>1. PICK q \in Requests : pc[q] = "notify" /\ Notice(q) = <<task[t].assignee, t>>
      BY <1>2 DEF IInv, AssigneeIsTold
    <2>2. q # r
      BY <1>2, <2>1
    <2>3. QED
      BY <1>1, <2>1, <2>2 DEF Notice, IInv, TypeOK
  <1>8. QED
    BY <1>4, <1>5, <1>6, <1>7 DEF IInv

LEMMA DeactivateStep ==
  ASSUME IInv, NEW r \in Requests, DeactivateWrite(r)
  PROVE  IInv'
  <1>1. /\ pc[r] = "deactivate_write" /\ job[r] \in DeactivateJobs
        /\ UNCHANGED <<task, told, missed, role, claim>>
        /\ active' = [active EXCEPT ![job[r].user] = FALSE]
        /\ \/ pc' = [pc EXCEPT ![r] = "report"] /\ job' = [job EXCEPT ![r] = job[r]]
           \/ pc' = [pc EXCEPT ![r] = "idle"] /\ job' = [job EXCEPT ![r] = NoJob]
    BY DEF DeactivateWrite, Done, Begin, Messages, IInv, JobsFit, UserLabels
  <1>2. active' \in [Users -> BOOLEAN]
    BY <1>1 DEF IInv, TypeOK
  <1>3. TypeOK'
    BY <1>1, <1>2 DEF IInv, TypeOK, Jobs, TaskLabels, UserLabels
  <1>4. JobsFit' /\ IdsFresh' /\ ChecksHold'
    BY <1>1 DEF IInv, TypeOK, JobsFit, IdsFresh, ChecksHold, UserLabels
  <1>5. TasksStayInTeam' /\ AssigneeIsTold'
    BY <1>1 DEF IInv, TypeOK, TasksStayInTeam, AssigneeIsTold, Notice
  <1>6. QED
    BY <1>3, <1>4, <1>5 DEF IInv

LEMMA AccountSteps ==
  ASSUME IInv, NEW u \in Users, Reactivate(u) \/ SetLeader(u) \/ SignAccess(u)
  PROVE  IInv'
  <1>1. UNCHANGED <<task, pc, job, told, missed>>
    BY DEF Reactivate, SetLeader, SignAccess, Messages
  <1>2. active' \in [Users -> BOOLEAN]
    BY DEF Reactivate, SetLeader, SignAccess, IInv, TypeOK
  <1>3. role' \in [Users -> {"ADMIN", "LEADER", "MEMBER"}]
    BY DEF Reactivate, SetLeader, SignAccess, IInv, TypeOK
  <1>4. claim' \in [Users -> {"ADMIN", "LEADER", "MEMBER"}]
    BY DEF Reactivate, SetLeader, SignAccess, IInv, TypeOK
  <1>5. TypeOK'
    BY <1>1, <1>2, <1>3, <1>4 DEF IInv, TypeOK
  <1>6. QED
    BY <1>1, <1>5
       DEF IInv, JobsFit, IdsFresh, ChecksHold, TasksStayInTeam, AssigneeIsTold, Notice

LEMMA NextIInv == IInv /\ [Next]_vars => IInv'
  <1> SUFFICES ASSUME IInv, [Next]_vars
               PROVE  IInv'
    OBVIOUS
  <1>1. CASE UNCHANGED vars
    BY <1>1 DEF vars, IInv, TypeOK, JobsFit, IdsFresh, ChecksHold, TasksStayInTeam,
                AssigneeIsTold, Notice
  <1>2. ASSUME NEW r \in Requests, Step(r)
        PROVE  IInv'
    BY <1>2, PlainWrites, CreateStep, ReassignStep, HandlerEnds, DeactivateStep,
       ReadingSteps DEF Step
  <1>3. QED
    BY <1>1, <1>2, RequestStep, ReadingSteps, AccountSteps DEF Next

-----------------------------------------------------------------------------
LEMMA Invariance == Spec => []IInv
  BY InitIInv, NextIInv, PTL DEF Spec

\* Every state of every behaviour has the declared types, and a use-case that
\* has loaded a task finds its row when it writes.
THEOREM TypeCorrect == Spec => []TypeOK
  <1>1. IInv => TypeOK
    BY DEF IInv
  <1>2. QED
    BY Invariance, <1>1, PTL

\* The team of a task, which no column holds, is for ever that of its owner,
\* whatever creates and reassignments with outdated claims interleave.
THEOREM ScopeIsStable == Spec => []TasksStayInTeam
  <1>1. IInv => TasksStayInTeam
    BY DEF IInv
  <1>2. QED
    BY Invariance, <1>1, PTL

\* Nobody is left with a task he did not give himself without a message sent,
\* or about to be sent, after the write that gave it to him, in whatever order
\* reassignments are written and notified; unless the sending of that very
\* message failed or its replica stopped.
THEOREM NoNoticeForgotten == Spec => []AssigneeIsTold
  <1>1. IInv => AssigneeIsTold
    BY DEF IInv
  <1>2. QED
    BY Invariance, <1>1, PTL

\* No write by id alone, decided on before the deletion, brings a task back.
THEOREM DeletedForGood == Spec => DeletionIsFinal
  <1> DEFINE Final == \A t \in DOMAIN task :
                        task[t].deleted => t \in DOMAIN task' /\ task'[t].deleted
  <1>1. ASSUME IInv, [Next]_vars
        PROVE  Final
    <2> SUFFICES ASSUME NEW t \in DOMAIN task, task[t].deleted
                 PROVE  t \in DOMAIN task' /\ task'[t].deleted
      OBVIOUS
    <2>1. task[t] \in TaskRow
      BY <1>1 DEF IInv, TypeOK
    <2>2. CASE UNCHANGED task
      BY <2>2
    <2>3. ASSUME NEW r \in Requests, CreateWrite(r)
          PROVE  t \in DOMAIN task' /\ task'[t].deleted
      BY <1>1, <2>3 DEF CreateWrite, Put, IInv, IdsFresh
    <2>4. ASSUME NEW r \in Requests,
                 EditWrite(r) \/ ProgressWrite(r) \/ ReassignWrite(r) \/ DeleteWrite(r)
          PROVE  t \in DOMAIN task' /\ task'[t].deleted
      BY <2>1, <2>4 DEF EditWrite, ProgressWrite, ReassignWrite, DeleteWrite, TaskRow
    <2>5. ASSUME NEW r \in Requests, Step(r)
          PROVE  t \in DOMAIN task' /\ task'[t].deleted
      BY <2>2, <2>3, <2>4, <2>5
         DEF Step, ReassignCheckTarget, Notify, DeactivateCount, DeactivateWrite, Report,
             Crash
    <2>6. ASSUME NEW r \in Requests,
                 Request(r) \/ \E u \in Users : Deactivate(r, u)
          PROVE  UNCHANGED task
      BY <2>6 DEF Request, CreateTask, EditDefinition, UpdateProgress, ReassignTask,
                  DeleteTask, Load, Deactivate
    <2>7. ASSUME NEW u \in Users, Reactivate(u) \/ SetLeader(u) \/ SignAccess(u)
          PROVE  UNCHANGED task
      BY <2>7 DEF Reactivate, SetLeader, SignAccess
    <2>8. QED
      BY <1>1, <2>2, <2>5, <2>6, <2>7 DEF Next, vars
  <1>2. QED
    BY Invariance, <1>1, PTL DEF Spec, DeletionIsFinal
=============================================================================
