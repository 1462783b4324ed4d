---------------------------- MODULE Notifications ----------------------------
(***************************************************************************)
(* Notifications when REDIS_URL is set: use-cases hand an event to         *)
(* QueuedNotifier, which adds a job to a BullMQ queue in Redis; the worker *)
(* in every replica of the back end takes jobs and sends the mail through  *)
(* EmailNotifier with rethrow, so that a failed attempt is repeated.  A    *)
(* scheduler in Redis adds one sweep job at each due time; the sweep adds  *)
(* one digest job per team that has an active leader.                      *)
(*                                                                         *)
(* The queue itself, and Redis, are external: a job is locked by the       *)
(* worker that took it, a lock that is not renewed lapses, a job whose     *)
(* lock has lapsed is stalled, and commands issued while Redis is away     *)
(* wait for it.  docker-compose.yml runs Redis without persistence.        *)
(***************************************************************************)
EXTENDS Naturals, FiniteSets

CONSTANTS
  Events,      \* assigned, reassigned and orphaned events of use-cases
  Teams,
  Quiet,       \* events and teams about which there is nothing to send
  Replicas,    \* processes of the back end: request handlers and one worker
  NoReplica,
  Attempts,    \* attempts in NOTIFICATION_JOB_OPTS: 3
  MaxStalled,  \* BullMQ's default maxStalledCount: 1
  MaxDue,      \* bound: times the cron pattern comes due
  MaxFaults    \* bound: times Redis goes away or a replica dies

ASSUME EventAssumption ==
  Quiet \subseteq Events \cup Teams
ASSUME ReplicaAssumption == IsFiniteSet(Replicas) /\ NoReplica \notin Replicas
ASSUME AttemptsAssumption == Attempts \in Nat \ {0} /\ MaxStalled \in Nat
ASSUME BoundAssumption == MaxDue \in Nat /\ MaxFaults \in Nat

VARIABLES
  redis,     \* Redis answers
  faults,    \* how often Redis went away or a replica died
  schedule,  \* ids of the job schedulers it holds
  due,       \* how often the cron pattern came due
  job,       \* the jobs it holds, by id
  proc,      \* the worker of each replica, and whether the replica is up
  caller,    \* the use-case that emits each event
  mail       \* messages the SMTP server accepted for each job

vars == <<redis, faults, schedule, due, job, proc, caller, mail>>

\* Seeded fault: a schedule for each replica, as a cron in the process has.
DigestSchedulerId_PerReplica(w) == w

\* The id under which a replica registers the schedule.
DigestSchedulerId(w) == "overdue-digest"

SchedulerIds == {DigestSchedulerId(w) : w \in Replicas}

\* Jobs, named by what they are about: the sweep by the time it came due and
\* the scheduler that added it, the digest also by the run of that sweep.
EventJobs == [kind : {"event"}, about : Events]
SweepJobs == [kind : {"sweep"}, by : SchedulerIds, due : 1..MaxDue]
DigestJobs == [kind : {"digest"}, about : Teams, by : SchedulerIds,
               due : 1..MaxDue, run : 0..MaxStalled]
Jobs == EventJobs \cup SweepJobs \cup DigestJobs
NoJob == [kind |-> "none"]

EventJob(e) == [kind |-> "event", about |-> e]
SweepJob(s, d) == [kind |-> "sweep", by |-> s, due |-> d]
DigestJob(t, s, r) ==
  [kind |-> "digest", about |-> t, by |-> s.by, due |-> s.due, run |-> r]

JobRow == [state : {"waiting", "active", "completed", "failed"},
           lock : Replicas \cup {NoReplica},
           tries : 0..Attempts, stalls : 0..MaxStalled]
Fresh == [state |-> "waiting", lock |-> NoReplica, tries |-> 0, stalls |-> 0]

Worker == [phase : {"down", "idle", "taken", "fanout", "done", "error"},
           job : Jobs \cup {NoJob}, run : 0..MaxStalled, todo : SUBSET Teams]
Down == [phase |-> "down", job |-> NoJob, run |-> 0, todo |-> {}]
Idle == [phase |-> "idle", job |-> NoJob, run |-> 0, todo |-> {}]

\* The sweep's options name no attempts, and BullMQ makes one.
AttemptsOf(j) == IF j.kind = "sweep" THEN 1 ELSE Attempts

Put(f, k, v) == [x \in DOMAIN f \cup {k} |-> IF x = k THEN v ELSE f[x]]
Goes(w, phase) == proc' = [proc EXCEPT ![w].phase = phase]
Holds(w) == proc[w].job \in DOMAIN job /\ job[proc[w].job].lock = w
Settled(j) == job[j].state \in {"completed", "failed"}

Init ==
  /\ redis = TRUE
  /\ faults = 0
  /\ schedule = {}
  /\ due = 0
  /\ job = [j \in {} |-> Fresh]
  /\ proc = [w \in Replicas |-> Down]
  /\ caller = [e \in Events |-> [phase |-> "idle", at |-> NoReplica]]
  /\ mail = [j \in Jobs |-> 0]

-----------------------------------------------------------------------------
(* Replicas start, serve requests that emit events, and stop *)

\* onApplicationBootstrap: nothing is served before the schedule is upserted.
Boot(w) ==
  /\ redis /\ proc[w].phase = "down"
  /\ schedule' = schedule \cup {DigestSchedulerId(w)}
  /\ proc' = [proc EXCEPT ![w] = Idle]
  /\ UNCHANGED <<redis, faults, due, job, caller, mail>>

\* The process dies with its requests and its job.
Dies(w) ==
  /\ proc[w].phase # "down" /\ faults < MaxFaults
  /\ faults' = faults + 1
  /\ proc' = [proc EXCEPT ![w] = Down]
  /\ job' = [j \in DOMAIN job |->
               IF job[j].lock = w THEN [job[j] EXCEPT !.lock = NoReplica] ELSE job[j]]
  /\ caller' = [e \in Events |->
                  IF caller[e] = [phase |-> "adding", at |-> w]
                  THEN [phase |-> "lost", at |-> NoReplica] ELSE caller[e]]
  /\ UNCHANGED <<redis, schedule, due, mail>>

\* A use-case has committed its write and calls the notifier.
Emit(e, w) ==
  /\ caller[e].phase = "idle" /\ proc[w].phase # "down"
  /\ caller' = [caller EXCEPT ![e] = [phase |-> "adding", at |-> w]]
  /\ UNCHANGED <<redis, faults, schedule, due, job, proc, mail>>

Answer(e, phase) == caller' = [caller EXCEPT ![e] = [phase |-> phase, at |-> NoReplica]]

Add(e) ==
  /\ redis /\ caller[e].phase = "adding"
  /\ job' = Put(job, EventJob(e), Fresh)
  /\ Answer(e, "answered")
  /\ UNCHANGED <<redis, faults, schedule, due, proc, mail>>

\* Seeded fault: enqueue without try and catch fails the use-case.
AddRejects_Throws(e) ==
  /\ caller[e].phase = "adding"
  /\ Answer(e, "failed")
  /\ UNCHANGED <<redis, faults, schedule, due, job, proc, mail>>

\* queue.add rejects: logged, and the notice is lost.
AddRejects(e) ==
  /\ caller[e].phase = "adding"
  /\ Answer(e, "answered")
  /\ UNCHANGED <<redis, faults, schedule, due, job, proc, mail>>

-----------------------------------------------------------------------------
(* The queue in Redis *)

\* The cron pattern comes due: one sweep for each scheduler.
Due ==
  /\ redis /\ schedule # {} /\ due < MaxDue
  /\ due' = due + 1
  /\ LET sweeps == {SweepJob(s, due + 1) : s \in schedule}
     IN job' = [j \in DOMAIN job \cup sweeps |-> IF j \in sweeps THEN Fresh ELSE job[j]]
  /\ UNCHANGED <<redis, faults, schedule, proc, caller, mail>>

Take(w, j) ==
  /\ redis /\ proc[w].phase = "idle"
  /\ job[j].state = "waiting"
  /\ job' = [job EXCEPT ![j].state = "active", ![j].lock = w]
  /\ proc' = [proc EXCEPT ![w] = [phase |-> "taken", job |-> j, todo |-> {},
                 run |-> IF j.kind = "sweep" THEN job[j].stalls ELSE 0]]
  /\ UNCHANGED <<redis, faults, schedule, due, caller, mail>>

\* A job nobody holds any more: back to the queue, or given up.
Stall(j) ==
  /\ redis /\ \E w \in Replicas : proc[w].phase # "down"
  /\ job[j].state = "active" /\ job[j].lock = NoReplica
  /\ job' = [job EXCEPT ![j] =
               IF job[j].stalls < MaxStalled
               THEN [job[j] EXCEPT !.state = "waiting", !.stalls = job[j].stalls + 1]
               ELSE [job[j] EXCEPT !.state = "failed"]]
  /\ UNCHANGED <<redis, faults, schedule, due, proc, caller, mail>>

RedisLeaves ==
  /\ redis /\ faults < MaxFaults
  /\ redis' = FALSE /\ faults' = faults + 1
  /\ UNCHANGED <<schedule, due, job, proc, caller, mail>>

\* The connection is back; some locks were not renewed in time.
RedisReturns ==
  /\ ~redis /\ redis' = TRUE
  /\ \E lapsed \in SUBSET {j \in DOMAIN job : job[j].lock # NoReplica} :
       job' = [j \in DOMAIN job |->
                IF j \in lapsed THEN [job[j] EXCEPT !.lock = NoReplica] ELSE job[j]]
  /\ UNCHANGED <<faults, schedule, due, proc, caller, mail>>

\* It was restarted, and kept nothing: --save "" --appendonly no, no volume.
RedisRestarts ==
  /\ ~redis /\ redis' = TRUE
  /\ schedule' = {}
  /\ job' = [j \in {} |-> Fresh]
  /\ UNCHANGED <<faults, due, proc, caller, mail>>

-----------------------------------------------------------------------------
(* A worker processes the job it took *)

\* Seeded fault: a case of process() falls through, and the mail goes twice.
Accepted_FallsThrough(w) == mail' = [mail EXCEPT ![proc[w].job] = @ + 2]

Accepted(w) == mail' = [mail EXCEPT ![proc[w].job] = @ + 1]

\* Seeded fault: EmailNotifier without rethrow.
Refused_Swallowed(w) == Goes(w, "done") /\ UNCHANGED mail

\* sendMail, or a query before it, throws; logFailure throws on.
Refused(w) == Goes(w, "error") /\ UNCHANGED mail

\* Seeded fault: the worker calls NOTIFIER, which adds the same job again.
Send_ThroughNotifier(w) ==
  /\ proc[w].phase = "taken" /\ proc[w].job.kind # "sweep"
  /\ redis /\ Holds(w)
  /\ job' = [job EXCEPT ![proc[w].job] = Fresh]
  /\ proc' = [proc EXCEPT ![w] = Idle]
  /\ UNCHANGED <<redis, faults, schedule, due, caller, mail>>

Send(w) ==
  /\ proc[w].phase = "taken" /\ proc[w].job.kind # "sweep"
  /\ \/ proc[w].job.about \in Quiet /\ Goes(w, "done") /\ UNCHANGED mail
     \/ proc[w].job.about \notin Quiet /\ Accepted(w) /\ Goes(w, "done")
     \/ proc[w].job.about \notin Quiet /\ Accepted(w) /\ Goes(w, "error") \* answer lost
     \/ Refused(w)
  /\ UNCHANGED <<redis, faults, schedule, due, job, caller>>

\* The sweep reads the teams with an active leader, or that query fails.
SweepRead(w) ==
  /\ proc[w].phase = "taken" /\ proc[w].job.kind = "sweep"
  /\ \/ Goes(w, "error")
     \/ \E led \in SUBSET Teams :
          proc' = [proc EXCEPT ![w].phase = IF led = {} THEN "done" ELSE "fanout",
                               ![w].todo = led]
  /\ UNCHANGED <<redis, faults, schedule, due, job, caller, mail>>

\* The loop of the sweep awaits one queue.add after the other.
NextTeam(w, t) ==
  proc' = [proc EXCEPT ![w].todo = @ \ {t},
                       ![w].phase = IF proc[w].todo = {t} THEN "done" ELSE "fanout"]

FanOut(w, t) ==
  /\ redis /\ proc[w].phase = "fanout" /\ t \in proc[w].todo
  /\ job' = Put(job, DigestJob(t, proc[w].job, proc[w].run), Fresh)
  /\ NextTeam(w, t)
  /\ UNCHANGED <<redis, faults, schedule, due, caller, mail>>

FanOutRejects(w, t) ==
  /\ proc[w].phase = "fanout" /\ t \in proc[w].todo
  /\ NextTeam(w, t)
  /\ UNCHANGED <<redis, faults, schedule, due, job, caller, mail>>

\* A worker that no longer holds the lock cannot finish the job.
Complete(w) ==
  /\ redis /\ proc[w].phase = "done"
  /\ job' = IF Holds(w)
            THEN [job EXCEPT ![proc[w].job].state = "completed",
                             ![proc[w].job].lock = NoReplica]
            ELSE job
  /\ proc' = [proc EXCEPT ![w] = Idle]
  /\ UNCHANGED <<redis, faults, schedule, due, caller, mail>>

\* Seeded fault: one attempt too many.
Failed_OffByOne(j) ==
  [job[j] EXCEPT !.lock = NoReplica, !.tries = @ + 1,
     !.state = IF job[j].tries < AttemptsOf(j) THEN "waiting" ELSE "failed"]

Failed(j) ==
  [job[j] EXCEPT !.lock = NoReplica, !.tries = @ + 1,
     !.state = IF job[j].tries + 1 < AttemptsOf(j) THEN "waiting" ELSE "failed"]

\* The error reached BullMQ: an attempt is counted, the next one follows after
\* the backoff.
Record(w) ==
  /\ redis /\ proc[w].phase = "error"
  /\ job' = IF Holds(w) THEN [job EXCEPT ![proc[w].job] = Failed(proc[w].job)] ELSE job
  /\ proc' = [proc EXCEPT ![w] = Idle]
  /\ UNCHANGED <<redis, faults, schedule, due, caller, mail>>

Work(w) ==
  \/ Send(w) \/ SweepRead(w) \/ Complete(w) \/ Record(w)
  \/ \E t \in Teams : FanOut(w, t) \/ FanOutRejects(w, t)

Next ==
  \/ \E w \in Replicas : Boot(w) \/ Dies(w) \/ Work(w)
  \/ \E e \in Events : Add(e) \/ AddRejects(e) \/ \E w \in Replicas : Emit(e, w)
  \/ \E j \in DOMAIN job : Stall(j) \/ \E w \in Replicas : Take(w, j)
  \/ Due \/ RedisLeaves \/ RedisReturns \/ RedisRestarts

Spec == Init /\ [][Next]_vars

\* Docker restarts a replica that died; a worker polls for jobs, looks for
\* stalled ones and goes on with the job it has; an add returns once Redis is
\* there.  Nothing makes Redis come back.
Fairness ==
  /\ WF_vars(\E w \in Replicas : Boot(w))
  /\ WF_vars(\E w \in Replicas : Work(w))
  /\ WF_vars(\E j \in DOMAIN job, w \in Replicas : Take(w, j))
  /\ WF_vars(\E j \in DOMAIN job : Stall(j))
  /\ WF_vars(\E e \in Events : Add(e))

FairSpec == Spec /\ Fairness

-----------------------------------------------------------------------------
(* Properties *)

\* Types of Redis's data, of the workers and of the callers.
TypeOK ==
  /\ redis \in BOOLEAN /\ faults \in 0..MaxFaults /\ due \in 0..MaxDue
  /\ schedule \subseteq SchedulerIds
  /\ DOMAIN job \subseteq Jobs /\ \A j \in DOMAIN job : job[j] \in JobRow
  /\ proc \in [Replicas -> Worker]
  /\ caller \in [Events -> [phase : {"idle", "adding", "answered", "lost"},
                            at : Replicas \cup {NoReplica}]]
  /\ mail \in [Jobs -> Nat]

\* A job completes only when its mail was accepted, or there was nothing to
\* send: EmailNotifier's failures reach BullMQ.
CompletedWasSent ==
  \A j \in DOMAIN job :
    job[j].state = "completed" /\ j.kind # "sweep" /\ j.about \notin Quiet
      => mail[j] > 0

\* A job's mail is sent twice only after an attempt whose answer was lost or
\* whose worker lost its lock, and both are counted on the job.
DuplicatesAreCounted ==
  \A j \in DOMAIN job : mail[j] <= 1 + job[j].tries + job[j].stalls

DigestsOf(t, d) == {j \in DOMAIN job : j.kind = "digest" /\ j.about = t /\ j.due = d}

\* However many replicas run, a due time gives a team one digest, and one more
\* only for each time its sweep stalled.
OneDigestPerTeam ==
  \A s \in DOMAIN job : s.kind = "sweep" =>
    \A t \in Teams : Cardinality(DigestsOf(t, s.due)) <= 1 + job[s].stalls

\* Once Redis stays up, a job comes to an end: sent, or given up where
\* an operator can look at it, unless Redis lost it.
EveryJobSettles ==
  <>[]redis => \A j \in Jobs :
    j \in DOMAIN job ~> (j \notin DOMAIN job \/ Settled(j))

\* Notifying never fails the request that has written the task: once Redis
\* stays up it is answered, unless its process dies.
WritesAreAnswered ==
  <>[]redis => \A e \in Events :
    caller[e].phase = "adding" ~> caller[e].phase \in {"answered", "lost"}

\* A schedule that is lost comes back: overdue-digest.scheduler.ts leaves short
\* outages of Redis to compose's restarts, and means a back end that is up never
\* to have a mute schedule, which nobody would notice.
ScheduleComesBack == <>[]redis => []<>(schedule # {})
=============================================================================
