------------------------- MODULE NotificationsProofs -------------------------
(***************************************************************************)
(* What holds of queued notifications for any number of events, teams,     *)
(* replicas, attempts and faults: a job that completed was sent, mail sent *)
(* twice was counted, a due time gives a team one digest.                  *)
(***************************************************************************)
EXTENDS Notifications, FiniteSetTheorems, TLAPS

\* Nothing has happened about a job: it is not in Redis, no worker has it, no
\* mail was sent for it.
Absent(j) ==
  /\ j \notin DOMAIN job /\ mail[j] = 0
  /\ \A w \in Replicas : proc[w].job # j

\* What a worker is at, and what the lock on a job says.
WorkersFit ==
  \A w \in Replicas :
    /\ proc[w].phase \in {"down", "idle"} <=> proc[w].job = NoJob
    /\ proc[w].phase = "fanout" => proc[w].job \in SweepJobs
    /\ proc[w].phase = "done" /\ proc[w].job \notin SweepJobs
         => proc[w].job.about \in Quiet \/ mail[proc[w].job] > 0

LocksFit ==
  \A j \in DOMAIN job :
    /\ job[j].lock # NoReplica
         => job[j].state = "active" /\ proc[job[j].lock].job = j
    /\ job[j].state \in {"waiting", "active"} => job[j].tries < AttemptsOf(j)

\* A job is named once: what a request, the schedule or a sweep is about to add
\* is absent.  Two workers at one sweep are at different runs of it, because a
\* sweep is run again only after it stalled.
EventsFresh ==
  \A e \in Events : caller[e].phase \in {"idle", "adding"} => Absent(EventJob(e))

DuesFresh == \A j \in SweepJobs \cup DigestJobs : j.due > due => Absent(j)

RunsFresh ==
  \A s \in SweepJobs \cap DOMAIN job, t \in Teams, r \in 0..MaxStalled :
    r > job[s].stalls \/ (r = job[s].stalls /\ job[s].state = "waiting")
      => Absent(DigestJob(t, s, r))

RunsBegun ==
  \A w \in Replicas : proc[w].job \in SweepJobs \cap DOMAIN job =>
    \/ proc[w].run < job[proc[w].job].stalls
    \/ proc[w].run = job[proc[w].job].stalls /\ job[proc[w].job].state # "waiting"

RunsDiffer ==
  \A v, w \in Replicas :
    proc[v].job \in SweepJobs /\ proc[v].job = proc[w].job /\ proc[v].run = proc[w].run
      => v = w

TodoFresh ==
  \A w \in Replicas : proc[w].job \in SweepJobs => \A t \in Teams :
    proc[w].phase = "taken" \/ (proc[w].phase = "fanout" /\ t \in proc[w].todo)
      => Absent(DigestJob(t, proc[w].job, proc[w].run))

\* Each time a job was taken accounts for one mail, sent or about to be.
Pending(j) == {w \in Replicas : proc[w].phase = "taken" /\ proc[w].job = j}
Started(j) == IF job[j].state = "waiting" THEN 0 ELSE 1
Counted ==
  /\ \A j \in SweepJobs : mail[j] = 0
  /\ \A j \in DOMAIN job \ SweepJobs :
       mail[j] + Cardinality(Pending(j))
         <= job[j].tries + job[j].stalls + Started(j)

NamesFresh ==
  EventsFresh /\ DuesFresh /\ RunsFresh /\ RunsBegun /\ RunsDiffer /\ TodoFresh
IInv == TypeOK /\ WorkersFit /\ LocksFit /\ CompletedWasSent /\ NamesFresh /\ Counted

-----------------------------------------------------------------------------
(* Names of jobs *)

\* The kind of a job tells the three sets of names apart.
LEMMA Kinds ==
  /\ NoJob \notin Jobs
  /\ \A j \in Jobs : j.kind = "sweep" <=> j \in SweepJobs
  /\ \A j \in Jobs : AttemptsOf(j) = IF j \in SweepJobs THEN 1 ELSE Attempts
  /\ \A j \in DigestJobs : j \notin SweepJobs /\ j \notin EventJobs
  /\ \A j \in EventJobs : j \notin SweepJobs
  /\ SweepJobs \subseteq Jobs /\ DigestJobs \subseteq Jobs /\ EventJobs \subseteq Jobs
  BY DEF NoJob, Jobs, SweepJobs, DigestJobs, EventJobs, AttemptsOf

\* An event names one job.
LEMMA EventNames ==
  /\ \A e \in Events : EventJob(e) \in EventJobs
  /\ \A e, f \in Events : EventJob(e) = EventJob(f) => e = f
  BY DEF EventJob, EventJobs

\* A team, a sweep and a run of it name one digest, due when the sweep is.
LEMMA DigestNames ==
  /\ \A t \in Teams, s \in SweepJobs, r \in 0..MaxStalled :
       DigestJob(t, s, r) \in DigestJobs /\ DigestJob(t, s, r).due = s.due
  /\ \A t, u \in Teams, s, q \in SweepJobs, r, p \in 0..MaxStalled :
       DigestJob(t, s, r) = DigestJob(u, q, p) => t = u /\ s = q /\ r = p
  BY DEF DigestJob, DigestJobs, SweepJobs

\* A scheduler and a due time name a sweep.
LEMMA SweepNames ==
  \A s \in SchedulerIds, d \in 1..MaxDue :
    SweepJob(s, d) \in SweepJobs /\ SweepJob(s, d).due = d
  BY DEF SweepJob, SweepJobs

\* Sweeps and digests come due at a counted time.
LEMMA DueNumbers == \A j \in SweepJobs \cup DigestJobs : j.due \in 1..MaxDue
  BY DEF SweepJobs, DigestJobs

\* How many workers are about to send for a job.
LEMMA PendingCounts ==
  ASSUME NEW j, NEW w \in Replicas, NEW S, S \subseteq Replicas
  PROVE  /\ IsFiniteSet(S) /\ Cardinality(S) \in Nat
         /\ w \notin S => Cardinality(S \cup {w}) = Cardinality(S) + 1
         /\ w \in S => Cardinality(S \ {w}) = Cardinality(S) - 1
  BY ReplicaAssumption, FS_Subset, FS_CardinalityType, FS_AddElement, FS_RemoveElement

\* Before anything starts every name is unused.
LEMMA InitIInv == Init => IInv
  <1> SUFFICES ASSUME Init
               PROVE  IInv
    OBVIOUS
  <1> USE BoundAssumption, AttemptsAssumption, ReplicaAssumption DEF Init
  <1>1. TypeOK
    BY DEF TypeOK, Worker, Down
  <1>2. WorkersFit /\ LocksFit /\ CompletedWasSent
    BY Kinds DEF WorkersFit, LocksFit, CompletedWasSent, Down, NoJob, SweepJobs
  <1>3. NamesFresh
    <2>1. \A j \in Jobs : Absent(j)
      BY Kinds DEF Absent, Down
    <2>2. QED
      BY <2>1, Kinds, EventNames, DigestNames
      DEF NamesFresh, EventsFresh, DuesFresh, RunsFresh, RunsBegun, RunsDiffer,
          TodoFresh, Down
  <1>4. Counted
    BY Kinds DEF Counted
  <1>5. QED
    BY <1>1, <1>2, <1>3, <1>4 DEF IInv

-----------------------------------------------------------------------------
(* One lemma per group of actions that disturb the same variables *)

\* Requests and Redis leaving: no job, worker or mail changes.
LEMMA QuietSteps ==
  ASSUME IInv,
         \/ RedisLeaves
         \/ \E e \in Events : AddRejects(e) \/ \E w \in Replicas : Emit(e, w)
  PROVE  IInv'
  <1> USE DEF IInv
  <1>1. UNCHANGED <<job, proc, mail, due, schedule>> /\ faults' \in 0..MaxFaults
    BY BoundAssumption DEF RedisLeaves, AddRejects, Emit, TypeOK
  <1>0. redis' \in BOOLEAN
    BY Zenon DEF RedisLeaves, AddRejects, Emit, TypeOK
  <1>2. /\ caller' \in [Events -> [phase : {"idle", "adding", "answered", "lost"},
                                  at : Replicas \cup {NoReplica}]]
        /\ \A e \in Events : caller'[e].phase \in {"idle", "adding"}
                             => caller[e].phase \in {"idle", "adding"}
    BY DEF RedisLeaves, AddRejects, Emit, Answer, TypeOK
  <1>3. TypeOK'
    BY <1>0, <1>1, <1>2 DEF TypeOK
  <1>4. WorkersFit' /\ LocksFit' /\ CompletedWasSent' /\ Counted'
    BY <1>1 DEF WorkersFit, LocksFit, CompletedWasSent, Counted, Pending, Started
  <1>5. NamesFresh'
    BY <1>1, <1>2 DEF NamesFresh, EventsFresh, DuesFresh, RunsFresh, RunsBegun,
                      RunsDiffer, TodoFresh, Absent
  <1>6. QED
    BY <1>3, <1>4, <1>5

\* A worker that starts has no job.
LEMMA BootStep ==
  ASSUME IInv, NEW w \in Replicas, Boot(w)
  PROVE  IInv'
  <1> USE DEF IInv, Boot
  <1>1. /\ proc' \in [Replicas -> Worker]
        /\ \A v \in Replicas \ {w} : proc'[v] = proc[v]
        /\ proc'[w] = Idle /\ Idle.phase = "idle" /\ Idle.job = NoJob
        /\ proc[w].job = NoJob /\ proc[w].phase = "down"
    BY AttemptsAssumption DEF TypeOK, WorkersFit, Idle, Down, Worker
  <1>2. \A j \in Jobs : Absent(j) => Absent(j)'
    BY <1>1, Kinds DEF Absent
  <1>3. TypeOK'
    BY <1>1 DEF TypeOK, SchedulerIds
  <1>4. WorkersFit' /\ LocksFit' /\ CompletedWasSent'
    BY <1>1, Kinds DEF WorkersFit, LocksFit, CompletedWasSent, TypeOK
  <1>5. NamesFresh'
    BY <1>1, <1>2, Kinds, EventNames, DigestNames, AttemptsAssumption
    DEF NamesFresh, EventsFresh, DuesFresh, RunsFresh, RunsBegun, RunsDiffer,
        TodoFresh, TypeOK, Worker
  <1>6. Counted'
    <2>1. \A j : Pending(j)' = Pending(j)
      BY <1>1 DEF Pending
    <2>2. QED
      BY <2>1 DEF Counted, Started
  <1>7. QED
    BY <1>3, <1>4, <1>5, <1>6

\* Locks lapse and nothing else of a job changes.
LEMMA Lapsing ==
  ASSUME TypeOK, NEW L,
         job' = [j \in DOMAIN job |->
                  IF j \in L THEN [job[j] EXCEPT !.lock = NoReplica] ELSE job[j]]
  PROVE  /\ DOMAIN job' = DOMAIN job
         /\ \A j \in DOMAIN job :
              /\ job'[j] \in JobRow
              /\ job'[j].state = job[j].state /\ job'[j].tries = job[j].tries
              /\ job'[j].stalls = job[j].stalls
              /\ job'[j].lock = IF j \in L THEN NoReplica ELSE job[j].lock
  BY DEF TypeOK, JobRow

\* A replica that dies drops its job and the lock on it, and adds nothing.
LEMMA DiesStep ==
  ASSUME IInv, NEW w \in Replicas, Dies(w)
  PROVE  IInv'
  <1> USE DEF IInv
  <1>1. /\ proc' \in [Replicas -> Worker]
        /\ \A v \in Replicas \ {w} : proc'[v] = proc[v]
        /\ proc'[w] = Down /\ Down.phase = "down" /\ Down.job = NoJob
    BY AttemptsAssumption DEF Dies, TypeOK, Down, Worker
  <1>2. UNCHANGED <<mail, due>>
    BY DEF Dies
  <1>3. /\ DOMAIN job' = DOMAIN job
        /\ \A j \in DOMAIN job :
             /\ job'[j] \in JobRow
             /\ job'[j].state = job[j].state /\ job'[j].tries = job[j].tries
             /\ job'[j].stalls = job[j].stalls
             /\ job'[j].lock = IF job[j].lock = w THEN NoReplica ELSE job[j].lock
    <2>1. PICK L : L = {j \in DOMAIN job : job[j].lock = w}
      OBVIOUS
    <2>2. job' = [j \in DOMAIN job |->
                   IF j \in L THEN [job[j] EXCEPT !.lock = NoReplica] ELSE job[j]]
      BY <2>1 DEF Dies
    <2>3. /\ DOMAIN job' = DOMAIN job
          /\ \A j \in DOMAIN job :
               /\ job'[j] \in JobRow
               /\ job'[j].state = job[j].state /\ job'[j].tries = job[j].tries
               /\ job'[j].stalls = job[j].stalls
               /\ job'[j].lock = IF j \in L THEN NoReplica ELSE job[j].lock
      BY <2>2, Lapsing
    <2>4. QED
      BY <2>1, <2>3
  <1>4. /\ caller' \in [Events -> [phase : {"idle", "adding", "answered", "lost"},
                                  at : Replicas \cup {NoReplica}]]
        /\ \A e \in Events : caller'[e].phase \in {"idle", "adding"}
                             => caller[e].phase \in {"idle", "adding"}
    BY DEF Dies, TypeOK
  <1>5. \A j \in Jobs : Absent(j) => Absent(j)'
    BY <1>1, <1>2, <1>3, Kinds DEF Absent
  <1>6. TypeOK'
    BY <1>1, <1>3, <1>4, BoundAssumption DEF TypeOK, Dies
  <1>7. WorkersFit' /\ LocksFit' /\ CompletedWasSent'
    BY <1>1, <1>2, <1>3, ReplicaAssumption, Kinds
    DEF WorkersFit, LocksFit, CompletedWasSent, TypeOK, JobRow
  <1>8. NamesFresh'
    <2> USE Kinds DEF NamesFresh
    <2>1. EventsFresh'
      BY <1>4, <1>5, EventNames DEF EventsFresh
    <2>2. DuesFresh'
      BY <1>2, <1>5 DEF DuesFresh
    <2>3. RunsFresh'
      BY <1>3, <1>5, DigestNames DEF RunsFresh
    <2>4. RunsBegun' /\ RunsDiffer'
      BY <1>1, <1>3 DEF RunsBegun, RunsDiffer
    <2>5. TodoFresh'
      BY <1>1, <1>5, DigestNames DEF TodoFresh, TypeOK, Worker
    <2>6. QED
      BY <2>1, <2>2, <2>3, <2>4, <2>5
  <1>9. Counted'
    <2>1. ASSUME NEW j \in Jobs
          PROVE  /\ Cardinality(Pending(j)') \in Nat /\ Cardinality(Pending(j)) \in Nat
                 /\ Cardinality(Pending(j)') <= Cardinality(Pending(j))
      <3>1. Pending(j)' \subseteq Pending(j) /\ Pending(j) \subseteq Replicas
        BY <1>1 DEF Pending
      <3>2. QED
        BY <3>1, ReplicaAssumption, FS_Subset, FS_CardinalityType
    <2>2. QED
      BY <1>2, <1>3, <2>1, Kinds DEF Counted, Started, TypeOK, JobRow
  <1>10. QED
    BY <1>6, <1>7, <1>8, <1>9

\* Redis is back with its jobs, some without their locks.
LEMMA ReturnStep ==
  ASSUME IInv, RedisReturns
  PROVE  IInv'
  <1> USE DEF IInv
  <1>1. UNCHANGED <<faults, schedule, due, proc, caller, mail>> /\ redis' = TRUE
    BY DEF RedisReturns
  <1>2. PICK L \in SUBSET {j \in DOMAIN job : job[j].lock # NoReplica} :
          job' = [j \in DOMAIN job |->
                   IF j \in L THEN [job[j] EXCEPT !.lock = NoReplica] ELSE job[j]]
    BY DEF RedisReturns
  <1>3. /\ DOMAIN job' = DOMAIN job
        /\ \A j \in DOMAIN job :
             /\ job'[j] \in JobRow
             /\ job'[j].state = job[j].state /\ job'[j].tries = job[j].tries
             /\ job'[j].stalls = job[j].stalls
             /\ job'[j].lock = IF j \in L THEN NoReplica ELSE job[j].lock
    BY <1>2, Lapsing
  <1>4. TypeOK'
    BY <1>1, <1>3 DEF TypeOK
  <1>5. WorkersFit' /\ LocksFit' /\ CompletedWasSent'
    BY <1>1, <1>3 DEF WorkersFit, LocksFit, CompletedWasSent, TypeOK
  <1>6. NamesFresh'
    BY <1>1, <1>3
    DEF NamesFresh, EventsFresh, DuesFresh, RunsFresh, RunsBegun, RunsDiffer,
        TodoFresh, Absent
  <1>7. Counted'
    BY <1>1, <1>3 DEF Counted, Started, Pending
  <1>8. QED
    BY <1>4, <1>5, <1>6, <1>7

\* Redis is back without jobs: what was absent still is.
LEMMA RestartStep ==
  ASSUME IInv, RedisRestarts
  PROVE  IInv'
  <1> USE DEF IInv, RedisRestarts
  <1>1. TypeOK'
    BY DEF TypeOK
  <1>2. WorkersFit' /\ LocksFit' /\ CompletedWasSent' /\ Counted'
    BY DEF WorkersFit, LocksFit, CompletedWasSent, Counted
  <1>3. NamesFresh'
    BY DEF NamesFresh, EventsFresh, DuesFresh, RunsFresh, RunsBegun, RunsDiffer,
           TodoFresh, Absent
  <1>4. QED
    BY <1>1, <1>2, <1>3

\* A new job waits, unlocked, with nothing counted.
LEMMA FreshRow ==
  /\ Fresh \in JobRow
  /\ Fresh.state = "waiting" /\ Fresh.lock = NoReplica
  /\ Fresh.tries = 0 /\ Fresh.stalls = 0
  BY AttemptsAssumption DEF Fresh, JobRow

\* A new job takes nothing from the others.
LEMMA Adding ==
  ASSUME TypeOK, NEW k \in Jobs, k \notin DOMAIN job, job' = Put(job, k, Fresh)
  PROVE  /\ DOMAIN job' = DOMAIN job \cup {k} /\ DOMAIN job' \subseteq Jobs
         /\ job'[k] = Fresh
         /\ \A j \in DOMAIN job : j # k /\ job'[j] = job[j]
         /\ \A j \in DOMAIN job' : job'[j] \in JobRow
  BY FreshRow DEF Put, TypeOK

\* A request adds its job: no one else adds under that name.
LEMMA AddStep ==
  ASSUME IInv, NEW e \in Events, Add(e)
  PROVE  IInv'
  <1> DEFINE k == EventJob(e)
  <1> USE DEF IInv
  <1>1. UNCHANGED <<redis, faults, schedule, due, proc, mail>>
    BY DEF Add
  <1>2. k \in EventJobs /\ k \in Jobs /\ k \notin SweepJobs /\ k \notin DigestJobs /\ Absent(k)
    BY Kinds, EventNames DEF NamesFresh, EventsFresh, Add
  <1>3. /\ DOMAIN job' = DOMAIN job \cup {k} /\ DOMAIN job' \subseteq Jobs
        /\ job'[k] = Fresh
        /\ \A j \in DOMAIN job : j # k /\ job'[j] = job[j]
        /\ \A j \in DOMAIN job' : job'[j] \in JobRow
    BY <1>2, Adding DEF Add, Absent
  <1>4. /\ caller' \in [Events -> [phase : {"idle", "adding", "answered", "lost"},
                                  at : Replicas \cup {NoReplica}]]
        /\ caller'[e].phase = "answered"
        /\ \A f \in Events \ {e} : caller'[f] = caller[f]
    BY DEF Add, Answer, TypeOK
  <1> HIDE DEF k
  <1>5. \A j \in Jobs \ {k} : Absent(j) => Absent(j)'
    BY <1>1, <1>3 DEF Absent
  <1>6. TypeOK'
    BY <1>1, <1>3, <1>4 DEF TypeOK
  <1>7. WorkersFit' /\ LocksFit' /\ CompletedWasSent'
    BY <1>1, <1>2, <1>3, FreshRow, Kinds, AttemptsAssumption
    DEF WorkersFit, LocksFit, CompletedWasSent
  <1>8. NamesFresh'
    <2> USE Kinds DEF NamesFresh
    <2>1. EventsFresh'
      BY <1>4, <1>5, EventNames DEF EventsFresh, k
    <2>2. DuesFresh'
      BY <1>1, <1>2, <1>5 DEF DuesFresh
    <2>3. RunsFresh' /\ TodoFresh'
      BY <1>1, <1>2, <1>3, <1>5, DigestNames DEF RunsFresh, TodoFresh, TypeOK, Worker
    <2>4. RunsBegun' /\ RunsDiffer'
      BY <1>1, <1>2, <1>3 DEF RunsBegun, RunsDiffer
    <2>5. QED
      BY <2>1, <2>2, <2>3, <2>4
  <1>9. Counted'
    <2>1. Cardinality(Pending(k)) = 0 /\ mail[k] = 0
      BY <1>2, FS_EmptySet DEF Absent, Pending
    <2>2. \A j : Pending(j)' = Pending(j)
      BY <1>1 DEF Pending
    <2>3. QED
      BY <1>1, <1>2, <1>3, <2>1, <2>2, FreshRow DEF Counted, Started
  <1>10. QED
    BY <1>6, <1>7, <1>8, <1>9

\* A sweep adds one team's digest: its run tells it from every other digest.
LEMMA FanOutStep ==
  ASSUME IInv, NEW w \in Replicas, NEW t \in Teams, FanOut(w, t)
  PROVE  IInv'
  <1> DEFINE s == proc[w].job
  <1> DEFINE k == DigestJob(t, proc[w].job, proc[w].run)
  <1> USE DEF IInv
  <1>1. UNCHANGED <<redis, faults, schedule, due, caller, mail>>
    BY DEF FanOut
  <1>2. /\ proc[w].phase = "fanout" /\ s \in SweepJobs /\ s \in Jobs
        /\ proc[w].run \in 0..MaxStalled /\ t \in proc[w].todo
    BY Kinds DEF FanOut, WorkersFit, TypeOK, Worker
  <1>3. k \in DigestJobs /\ k \in Jobs /\ k \notin SweepJobs /\ k \notin EventJobs /\ Absent(k)
    BY <1>2, Kinds, DigestNames DEF NamesFresh, TodoFresh
  <1>4. /\ DOMAIN job' = DOMAIN job \cup {k} /\ DOMAIN job' \subseteq Jobs
        /\ job'[k] = Fresh
        /\ \A j \in DOMAIN job : j # k /\ job'[j] = job[j]
        /\ \A j \in DOMAIN job' : job'[j] \in JobRow
    BY <1>3, Adding DEF FanOut, Absent
  <1>5. /\ proc' \in [Replicas -> Worker]
        /\ \A v \in Replicas \ {w} : proc'[v] = proc[v]
        /\ proc'[w].job = s /\ proc'[w].run = proc[w].run
        /\ proc'[w].phase \in {"fanout", "done"} /\ proc'[w].todo = proc[w].todo \ {t}
    BY <1>2 DEF FanOut, NextTeam, TypeOK, Worker
  <1>6. s \in DOMAIN job => proc[w].run <= job[s].stalls
                           /\ (proc[w].run = job[s].stalls => job[s].state # "waiting")
    BY <1>2 DEF NamesFresh, RunsBegun, TypeOK, JobRow
  <1>7. \A u \in Teams, q \in SweepJobs, r \in 0..MaxStalled :
          DigestJob(u, q, r) = k => u = t /\ q = s /\ r = proc[w].run
    BY <1>2, DigestNames
  <1>8. s.due <= due /\ k.due = s.due /\ s.due \in 1..MaxDue
    <2>1. ~ Absent(s)
      BY DEF Absent
    <2>2. QED
      BY <1>2, <2>1, DigestNames DEF NamesFresh, DuesFresh, SweepJobs, TypeOK
  <1> HIDE DEF k, s
  <1>9. \A j \in Jobs \ {k} : Absent(j) => Absent(j)'
    BY <1>1, <1>4, <1>5 DEF Absent, s
  <1>10. TypeOK'
    BY <1>1, <1>4, <1>5 DEF TypeOK
  <1>11. WorkersFit' /\ LocksFit' /\ CompletedWasSent'
    BY <1>1, <1>2, <1>3, <1>4, <1>5, FreshRow, Kinds, AttemptsAssumption
    DEF WorkersFit, LocksFit, CompletedWasSent, TypeOK, JobRow, s
  <1>12. NamesFresh'
    <2> USE Kinds DEF NamesFresh
    <2>1. EventsFresh'
      BY <1>1, <1>3, <1>9, EventNames DEF EventsFresh
    <2>2. DuesFresh'
      BY <1>1, <1>3, <1>8, <1>9 DEF DuesFresh, TypeOK
    <2>3. RunsFresh'
      BY <1>3, <1>4, <1>6, <1>7, <1>9, DigestNames DEF RunsFresh, TypeOK, JobRow
    <2>4. RunsBegun' /\ RunsDiffer'
      BY <1>2, <1>3, <1>4, <1>5 DEF RunsBegun, RunsDiffer, s
    <2>5. TodoFresh'
      <3>1. ASSUME NEW v \in Replicas, NEW u \in Teams, proc'[v].job \in SweepJobs,
                   \/ proc'[v].phase = "taken"
                   \/ proc'[v].phase = "fanout" /\ u \in proc'[v].todo
            PROVE  Absent(DigestJob(u, proc[v].job, proc[v].run))'
        <4>1. /\ proc'[v].job = proc[v].job /\ proc'[v].run = proc[v].run
              /\ proc[v].run \in 0..MaxStalled
              /\ Absent(DigestJob(u, proc[v].job, proc[v].run))
              /\ v = w => u # t
              /\ proc[v].job \in SweepJobs
          BY <1>2, <1>5, <3>1 DEF TodoFresh, TypeOK, Worker, s
        <4>2. proc[v].job = s /\ proc[v].run = proc[w].run => v = w
          BY <1>2, <4>1 DEF RunsDiffer, s
        <4>3. PICK d \in Jobs : d = DigestJob(u, proc[v].job, proc[v].run)
          BY <4>1, DigestNames, Kinds
        <4>4. Absent(d)'
          BY <1>7, <1>9, <4>1, <4>2, <4>3
        <4>5. QED
          BY <4>1, <4>3, <4>4
      <3>2. QED
        BY <3>1 DEF TodoFresh
    <2>6. QED
      BY <2>1, <2>2, <2>3, <2>4, <2>5
  <1>13. Counted'
    <2>1. Cardinality(Pending(k)) = 0 /\ mail[k] = 0
      BY <1>3, FS_EmptySet DEF Absent, Pending
    <2>2. \A j \in Jobs \ SweepJobs : Pending(j)' = Pending(j)
      BY <1>2, <1>5 DEF Pending, s
    <2>3. QED
      BY <1>1, <1>3, <1>4, <2>1, <2>2, FreshRow DEF Counted, Started, TypeOK
  <1>14. QED
    BY <1>10, <1>11, <1>12, <1>13

\* The sweep reads its teams, or gives one up: only its own worker moves.
LEMMA SweepSteps ==
  ASSUME IInv, NEW w \in Replicas,
         SweepRead(w) \/ \E t \in Teams : FanOutRejects(w, t)
  PROVE  IInv'
  <1> USE DEF IInv
  <1>1. UNCHANGED <<redis, faults, schedule, due, job, caller, mail>>
    BY DEF SweepRead, FanOutRejects
  <1> DEFINE Moved ==
        /\ proc[w].job \in SweepJobs /\ proc[w].phase \in {"taken", "fanout"}
        /\ proc' \in [Replicas -> Worker]
        /\ \A v \in Replicas \ {w} : proc'[v] = proc[v]
        /\ proc'[w].job = proc[w].job /\ proc'[w].run = proc[w].run
        /\ proc'[w].phase \in {"fanout", "done", "error"}
        /\ proc[w].phase = "fanout" => proc'[w].todo \subseteq proc[w].todo
  <1>2. Moved
    <2>1. CASE SweepRead(w)
      <3>1. proc[w].job \in SweepJobs /\ proc[w].phase = "taken"
        BY <2>1, Kinds DEF SweepRead, WorkersFit, TypeOK, Worker
      <3>2. CASE Goes(w, "error")
        BY <3>1, <3>2 DEF Goes, TypeOK, Worker
      <3>3. CASE \E led \in SUBSET Teams :
                   proc' = [proc EXCEPT ![w].phase = IF led = {} THEN "done" ELSE "fanout",
                                        ![w].todo = led]
        <4>1. PICK led \in SUBSET Teams :
                proc' = [proc EXCEPT ![w].phase = IF led = {} THEN "done" ELSE "fanout",
                                     ![w].todo = led]
          BY <3>3
        <4>2. PICK phase \in {"done", "fanout"} :
                proc' = [proc EXCEPT ![w].phase = phase, ![w].todo = led]
          BY <4>1
        <4>3. QED
          BY <3>1, <4>2 DEF TypeOK, Worker
      <3>4. QED
        BY <2>1, <3>2, <3>3 DEF SweepRead
    <2>2. ASSUME NEW t \in Teams, FanOutRejects(w, t)
          PROVE  Moved
      <3>1. proc[w].job \in SweepJobs /\ proc[w].phase = "fanout"
        BY <2>2 DEF FanOutRejects, WorkersFit
      <3>2. PICK phase \in {"done", "fanout"} :
              proc' = [proc EXCEPT ![w].todo = @ \ {t}, ![w].phase = phase]
        BY <2>2 DEF FanOutRejects, NextTeam
      <3>3. QED
        BY <3>1, <3>2 DEF TypeOK, Worker
    <2>3. QED
      BY <2>1, <2>2
  <1>3. \A j \in Jobs : Absent(j) => Absent(j)'
    BY <1>1, <1>2 DEF Absent
  <1>4. TypeOK'
    BY <1>1, <1>2 DEF TypeOK
  <1>5. WorkersFit' /\ LocksFit' /\ CompletedWasSent'
    BY <1>1, <1>2, Kinds, ReplicaAssumption
    DEF WorkersFit, LocksFit, CompletedWasSent, TypeOK, JobRow
  <1>6. NamesFresh'
    <2> USE Kinds DEF NamesFresh
    <2>1. EventsFresh' /\ DuesFresh' /\ RunsFresh'
      BY <1>1, <1>3, EventNames, DigestNames DEF EventsFresh, DuesFresh, RunsFresh
    <2>2. RunsBegun' /\ RunsDiffer'
      BY <1>1, <1>2 DEF RunsBegun, RunsDiffer
    <2>3. TodoFresh'
      BY <1>2, <1>3, DigestNames DEF TodoFresh, TypeOK, Worker
    <2>4. QED
      BY <2>1, <2>2, <2>3
  <1>7. Counted'
    <2>1. \A j \in Jobs \ SweepJobs : Pending(j)' = Pending(j)
      BY <1>2 DEF Pending
    <2>2. QED
      BY <1>1, <2>1 DEF Counted, Started, TypeOK
  <1>8. QED
    BY <1>4, <1>5, <1>6, <1>7

\* The sweeps of a new due time: no job of that time was ever added.
LEMMA DueStep ==
  ASSUME IInv, Due
  PROVE  IInv'
  <1> DEFINE N == {SweepJob(s, due + 1) : s \in schedule}
  <1> USE DEF IInv
  <1>1. UNCHANGED <<redis, faults, schedule, proc, caller, mail>> /\ due' = due + 1
        /\ due \in Nat /\ due' \in 1..MaxDue
    BY BoundAssumption DEF Due, TypeOK
  <1>2. \A j \in N : j \in SweepJobs /\ j \in Jobs /\ j.due = due + 1 /\ Absent(j)
    BY <1>1, SweepNames, Kinds DEF NamesFresh, DuesFresh, TypeOK
  <1>3. job' = [j \in DOMAIN job \cup N |-> IF j \in N THEN Fresh ELSE job[j]]
    BY DEF Due
  <1> HIDE DEF N
  <1>4. /\ DOMAIN job' = DOMAIN job \cup N /\ DOMAIN job' \subseteq Jobs
        /\ \A j \in N : job'[j] = Fresh
        /\ \A j \in DOMAIN job : j \notin N /\ job'[j] = job[j]
        /\ \A j \in DOMAIN job' : job'[j] \in JobRow
    BY <1>2, <1>3, FreshRow DEF TypeOK, Absent
  <1>5. \A j \in Jobs \ N : Absent(j) => Absent(j)'
    BY <1>1, <1>4 DEF Absent
  <1>6. TypeOK'
    BY <1>1, <1>4 DEF TypeOK
  <1>7. WorkersFit' /\ LocksFit' /\ CompletedWasSent'
    BY <1>1, <1>2, <1>4, FreshRow, Kinds, AttemptsAssumption
    DEF WorkersFit, LocksFit, CompletedWasSent
  <1>8. NamesFresh'
    <2> USE Kinds DEF NamesFresh
    <2>1. EventsFresh'
      BY <1>1, <1>2, <1>5, EventNames DEF EventsFresh
    <2>2. DuesFresh'
      <3>1. ASSUME NEW j \in SweepJobs \cup DigestJobs, j.due > due + 1
            PROVE  Absent(j)'
        <4>1. j.due > due
          BY <1>1, <3>1, DueNumbers
        <4>2. j \notin N
          BY <1>1, <1>2, <3>1, DueNumbers
        <4>3. QED
          BY <1>5, <4>1, <4>2 DEF DuesFresh
      <3>2. QED
        BY <1>1, <3>1 DEF DuesFresh
    <2>3. RunsFresh'
      <3>1. ASSUME NEW s \in SweepJobs \cap DOMAIN job', NEW t \in Teams,
                   NEW r \in 0..MaxStalled,
                   \/ r > job'[s].stalls
                   \/ r = job'[s].stalls /\ job'[s].state = "waiting"
            PROVE  Absent(DigestJob(t, s, r))'
        <4>1. PICK d \in DigestJobs : d = DigestJob(t, s, r) /\ d.due = s.due
          BY <3>1, DigestNames
        <4>2. Absent(d)
          BY <1>1, <1>2, <1>4, <3>1, <4>1 DEF DuesFresh, RunsFresh
        <4>3. Absent(d)'
          BY <1>2, <1>5, <4>2
        <4>4. QED
          BY <4>1, <4>3
      <3>2. QED
        BY <3>1 DEF RunsFresh
    <2>4. RunsBegun' /\ RunsDiffer'
      BY <1>1, <1>2, <1>4 DEF RunsBegun, RunsDiffer, Absent
    <2>5. TodoFresh'
      BY <1>1, <1>2, <1>5, DigestNames DEF TodoFresh, TypeOK, Worker
    <2>6. QED
      BY <2>1, <2>2, <2>3, <2>4, <2>5
  <1>9. Counted'
    BY <1>1, <1>2, <1>4 DEF Counted, Started, Pending
  <1>10. QED
    BY <1>6, <1>7, <1>8, <1>9

\* A worker starts a waiting job: one start more, and one mail pending.
LEMMA TakeStep ==
  ASSUME IInv, NEW w \in Replicas, NEW j \in DOMAIN job, Take(w, j)
  PROVE  IInv'
  <1> USE DEF IInv
  <1>1. UNCHANGED <<redis, faults, schedule, due, caller, mail>>
    BY DEF Take
  <1>2. /\ j \in Jobs /\ job[j] \in JobRow /\ job[j].state = "waiting"
        /\ job[j].lock = NoReplica
        /\ proc[w].phase = "idle" /\ proc[w].job = NoJob
    BY DEF Take, TypeOK, LocksFit, WorkersFit
  <1>3. /\ DOMAIN job' = DOMAIN job
        /\ \A x \in DOMAIN job \ {j} : job'[x] = job[x]
        /\ job'[j] \in JobRow
        /\ job'[j].state = "active" /\ job'[j].lock = w
        /\ job'[j].tries = job[j].tries /\ job'[j].stalls = job[j].stalls
    BY <1>2 DEF Take, JobRow
  <1>4. PICK run : /\ run = IF j \in SweepJobs THEN job[j].stalls ELSE 0
                   /\ proc' = [proc EXCEPT ![w] =
                        [phase |-> "taken", job |-> j, todo |-> {}, run |-> run]]
    BY <1>2, Kinds DEF Take
  <1>5. /\ proc' \in [Replicas -> Worker]
        /\ \A v \in Replicas \ {w} : proc'[v] = proc[v]
        /\ proc'[w].phase = "taken" /\ proc'[w].job = j
        /\ j \in SweepJobs => proc'[w].run = job[j].stalls
    BY <1>2, <1>4, AttemptsAssumption DEF TypeOK, Worker, JobRow
  <1>6. \A x \in Jobs : Absent(x) => x # j /\ Absent(x)'
    BY <1>1, <1>3, <1>5 DEF Absent
  <1>7. TypeOK'
    BY <1>1, <1>3, <1>5 DEF TypeOK
  <1>8. WorkersFit' /\ LocksFit' /\ CompletedWasSent'
    <2>1. WorkersFit'
      BY <1>1, <1>2, <1>5, Kinds DEF WorkersFit, TypeOK
    <2>2. \A x \in DOMAIN job : x # j /\ job[x].lock # NoReplica => job[x].lock # w
      BY <1>2, Kinds DEF LocksFit, TypeOK
    <2>3. LocksFit'
      BY <1>2, <1>3, <1>5, <2>2 DEF LocksFit, TypeOK, JobRow
    <2>4. CompletedWasSent'
      BY <1>1, <1>3 DEF CompletedWasSent
    <2>5. QED
      BY <2>1, <2>3, <2>4
  <1>9. NamesFresh'
    <2> USE Kinds DEF NamesFresh
    <2>1. EventsFresh' /\ DuesFresh'
      BY <1>1, <1>6, EventNames DEF EventsFresh, DuesFresh
    <2>2. RunsFresh'
      BY <1>3, <1>6, DigestNames DEF RunsFresh
    <2>3. RunsBegun'
      BY <1>2, <1>3, <1>5 DEF RunsBegun
    <2>4. RunsDiffer'
      <3>1. \A v \in Replicas \ {w} :
              proc[v].job = j /\ j \in SweepJobs => proc[v].run < job[j].stalls
        BY <1>2 DEF RunsBegun
      <3>2. QED
        BY <1>2, <1>5, <3>1 DEF RunsDiffer, TypeOK, Worker, JobRow
    <2>5. TodoFresh'
      <3>1. ASSUME NEW v \in Replicas, NEW t \in Teams, proc'[v].job \in SweepJobs,
                   \/ proc'[v].phase = "taken"
                   \/ proc'[v].phase = "fanout" /\ t \in proc'[v].todo
            PROVE  Absent(DigestJob(t, proc'[v].job, proc'[v].run))
        <4>1. CASE v = w
          BY <1>2, <1>3, <1>5, <3>1, <4>1 DEF RunsFresh, JobRow
        <4>2. CASE v # w
          BY <1>5, <3>1, <4>2 DEF TodoFresh
        <4>3. QED
          BY <4>1, <4>2
      <3>2. ASSUME NEW v \in Replicas, NEW t \in Teams, NEW s, NEW r,
                   s = proc'[v].job, r = proc'[v].run, s \in SweepJobs,
                   \/ proc'[v].phase = "taken"
                   \/ proc'[v].phase = "fanout" /\ t \in proc'[v].todo
            PROVE  /\ r \in 0..MaxStalled
                   /\ DigestJob(t, s, r) \notin DOMAIN job' /\ mail'[DigestJob(t, s, r)] = 0
                   /\ \A u \in Replicas : proc'[u].job # DigestJob(t, s, r)
        <4>1. r \in 0..MaxStalled
          BY <1>5, <3>2 DEF Worker
        <4>2. PICK d \in Jobs : d = DigestJob(t, s, r)
          BY <3>2, <4>1, DigestNames
        <4>3. Absent(d)'
          BY <1>6, <3>1, <3>2, <4>2
        <4>4. QED
          BY <4>1, <4>2, <4>3 DEF Absent
      <3>3. QED
        BY <3>2 DEF TodoFresh, Absent
    <2>6. QED
      BY <2>1, <2>2, <2>3, <2>4, <2>5
  <1>10. Counted'
    <2>1. \A x \in Jobs \ {j} : Pending(x)' = Pending(x)
      BY <1>2, <1>5, Kinds DEF Pending
    <2>2. Pending(j)' = Pending(j) \cup {w} /\ w \notin Pending(j) /\ Pending(j) \subseteq Replicas
      BY <1>2, <1>5, Kinds DEF Pending
    <2>3. Cardinality(Pending(j)') = Cardinality(Pending(j)) + 1 /\ Cardinality(Pending(j)) \in Nat
      BY <2>2, PendingCounts
    <2>4. QED
      BY <1>1, <1>2, <1>3, <2>1, <2>3 DEF Counted, Started, TypeOK, JobRow
  <1>11. QED
    BY <1>7, <1>8, <1>9, <1>10

\* A job without a holder stalls: what its start counted, the stall counts.
LEMMA StallStep ==
  ASSUME IInv, NEW j \in DOMAIN job, Stall(j)
  PROVE  IInv'
  <1> USE DEF IInv
  <1>1. UNCHANGED <<redis, faults, schedule, due, proc, caller, mail>>
    BY DEF Stall
  <1>2. /\ j \in Jobs /\ job[j] \in JobRow
        /\ job[j].state = "active" /\ job[j].lock = NoReplica
    BY DEF Stall, TypeOK
  <1>3. /\ DOMAIN job' = DOMAIN job
        /\ \A x \in DOMAIN job \ {j} : job'[x] = job[x]
        /\ job'[j] \in JobRow
        /\ job'[j].lock = NoReplica /\ job'[j].tries = job[j].tries
        /\ \/ job'[j].state = "waiting" /\ job'[j].stalls = job[j].stalls + 1
           \/ job'[j].state = "failed" /\ job'[j].stalls = job[j].stalls
    <2>1. CASE job[j].stalls < MaxStalled
      <3>1. job' = [job EXCEPT ![j] =
                      [job[j] EXCEPT !.state = "waiting", !.stalls = job[j].stalls + 1]]
        BY <2>1 DEF Stall
      <3>2. QED
        <4>0. PICK n \in 0..MaxStalled : n = job[j].stalls + 1
          BY <1>2, <2>1, AttemptsAssumption DEF JobRow
        <4>1. PICK row : /\ row = [job[j] EXCEPT !.state = "waiting", !.stalls = n]
                         /\ job' = [job EXCEPT ![j] = row]
          BY <3>1, <4>0
        <4>2. /\ row \in JobRow /\ row.state = "waiting" /\ row.lock = NoReplica
              /\ row.tries = job[j].tries /\ row.stalls = job[j].stalls + 1
          BY <1>2, <4>0, <4>1 DEF JobRow
        <4>3. QED
          BY <4>1, <4>2
    <2>2. CASE ~ (job[j].stalls < MaxStalled)
      <3>1. job' = [job EXCEPT ![j] = [job[j] EXCEPT !.state = "failed"]]
        BY <2>2 DEF Stall
      <3>2. QED
        BY <1>2, <3>1 DEF JobRow
    <2>3. QED
      BY <2>1, <2>2
  <1>4. \A x \in Jobs : Absent(x) => x # j /\ Absent(x)'
    BY <1>1, <1>3 DEF Absent
  <1>5. TypeOK'
    BY <1>1, <1>3 DEF TypeOK
  <1>6. WorkersFit' /\ LocksFit' /\ CompletedWasSent'
    BY <1>1, <1>2, <1>3 DEF WorkersFit, LocksFit, CompletedWasSent
  <1>7. NamesFresh'
    <2> USE Kinds DEF NamesFresh
    <2>1. EventsFresh' /\ DuesFresh' /\ TodoFresh'
      BY <1>1, <1>4, EventNames, DigestNames
      DEF EventsFresh, DuesFresh, TodoFresh, TypeOK, Worker
    <2>2. RunsFresh'
      BY <1>2, <1>3, <1>4, DigestNames DEF RunsFresh, JobRow
    <2>3. RunsBegun' /\ RunsDiffer'
      BY <1>1, <1>2, <1>3 DEF RunsBegun, RunsDiffer, JobRow, TypeOK, Worker
    <2>4. QED
      BY <2>1, <2>2, <2>3
  <1>8. Counted'
    <2>1. \A x : Pending(x)' = Pending(x)
      BY <1>1 DEF Pending
    <2>2. QED
      BY <1>1, <1>2, <1>3, <2>1 DEF Counted, Started, JobRow
  <1>9. QED
    BY <1>5, <1>6, <1>7, <1>8

\* The mail that was pending is sent, or is not.
LEMMA SendStep ==
  ASSUME IInv, NEW w \in Replicas, Send(w)
  PROVE  IInv'
  <1> DEFINE j == proc[w].job
  <1> USE DEF IInv
  <1>1. UNCHANGED <<redis, faults, schedule, due, job, caller>>
    BY DEF Send
  <1>2. proc[w].phase = "taken" /\ j \in Jobs \ SweepJobs
    BY Kinds DEF Send, TypeOK, Worker, WorkersFit
  <1>3. PICK phase \in {"done", "error"}, n \in {0, 1} :
          /\ proc' = [proc EXCEPT ![w].phase = phase]
          /\ mail' = [mail EXCEPT ![j] = @ + n]
          /\ phase = "done" => j.about \in Quiet \/ n = 1
    <2>1. mail = [mail EXCEPT ![j] = @ + 0]
      BY <1>2 DEF TypeOK
    <2>2. CASE Refused(w)
      BY <2>1, <2>2 DEF Refused, Goes
    <2>3. CASE j.about \in Quiet /\ Goes(w, "done") /\ UNCHANGED mail
      BY <2>1, <2>3 DEF Goes
    <2>4. CASE j.about \notin Quiet /\ Accepted(w) /\ Goes(w, "done")
      BY <2>4 DEF Accepted, Goes
    <2>5. CASE j.about \notin Quiet /\ Accepted(w) /\ Goes(w, "error")
      BY <2>5 DEF Accepted, Goes
    <2>6. QED
      BY <2>2, <2>3, <2>4, <2>5 DEF Send
  <1>4. /\ proc' \in [Replicas -> Worker]
        /\ \A v \in Replicas \ {w} : proc'[v] = proc[v]
        /\ proc'[w].phase = phase /\ proc'[w].job = j /\ proc'[w].run = proc[w].run
    BY <1>3 DEF TypeOK, Worker
  <1>5. /\ mail' \in [Jobs -> Nat] /\ mail'[j] = mail[j] + n
        /\ \A x \in Jobs \ {j} : mail'[x] = mail[x]
        /\ \A x \in Jobs : mail'[x] >= mail[x]
    BY <1>2, <1>3 DEF TypeOK
  <1> HIDE DEF j
  <1>6. \A x \in Jobs : Absent(x) => x # j /\ Absent(x)'
    BY <1>1, <1>4, <1>5 DEF Absent, j
  <1>7. TypeOK'
    BY <1>1, <1>4, <1>5 DEF TypeOK
  <1>8. WorkersFit'
    <2>1. ASSUME NEW v \in Replicas, v # w
          PROVE  /\ proc'[v].phase \in {"down", "idle"} <=> proc'[v].job = NoJob
                 /\ proc'[v].phase = "fanout" => proc'[v].job \in SweepJobs
                 /\ proc'[v].phase = "done" /\ proc'[v].job \notin SweepJobs
                      => proc'[v].job.about \in Quiet \/ mail'[proc'[v].job] > 0
      <3>1. proc'[v] = proc[v] /\ (proc[v].job # NoJob => proc[v].job \in Jobs)
        BY <1>4, <2>1 DEF TypeOK, Worker
      <3>2. proc[v].job \in Jobs =>
              /\ mail[proc[v].job] \in Nat /\ mail'[proc[v].job] \in Nat
              /\ mail'[proc[v].job] >= mail[proc[v].job]
        BY <1>5 DEF TypeOK
      <3>3. QED
        BY <3>1, <3>2 DEF WorkersFit
    <2>2. j # NoJob /\ (phase = "done" => j.about \in Quiet \/ mail'[j] > 0)
      BY <1>2, <1>3, <1>5, Kinds DEF TypeOK
    <2>3. QED
      BY <1>2, <1>4, <2>1, <2>2 DEF WorkersFit
  <1>9. LocksFit' /\ CompletedWasSent'
    BY <1>1, <1>4, <1>5, ReplicaAssumption
    DEF LocksFit, CompletedWasSent, TypeOK, JobRow, j
  <1>10. NamesFresh'
    <2> USE Kinds DEF NamesFresh
    <2>1. EventsFresh' /\ DuesFresh' /\ RunsFresh'
      BY <1>1, <1>6, EventNames, DigestNames DEF EventsFresh, DuesFresh, RunsFresh
    <2>2. RunsBegun' /\ RunsDiffer'
      BY <1>1, <1>2, <1>4 DEF RunsBegun, RunsDiffer
    <2>3. TodoFresh'
      BY <1>2, <1>4, <1>6, DigestNames DEF TodoFresh, TypeOK, Worker
    <2>4. QED
      BY <2>1, <2>2, <2>3
  <1>11. Counted'
    <2>1. ASSUME NEW x \in Jobs
          PROVE  /\ Cardinality(Pending(x)) \in Nat
                 /\ x # j => Cardinality(Pending(x)') = Cardinality(Pending(x))
                 /\ x = j => Cardinality(Pending(x)') = Cardinality(Pending(x)) - 1
      <3>1. CASE x # j
        <4>1. Pending(x)' = Pending(x) /\ Pending(x) \subseteq Replicas
          BY <1>2, <1>4, <3>1 DEF Pending, j
        <4>2. QED
          BY <3>1, <4>1, PendingCounts
      <3>2. CASE x = j
        <4>1. /\ Pending(x)' = Pending(x) \ {w} /\ w \in Pending(x)
              /\ Pending(x) \subseteq Replicas
          BY <1>2, <1>4, <3>2 DEF Pending, j
        <4>2. QED
          BY <3>2, <4>1, PendingCounts
      <3>3. QED
        BY <3>1, <3>2
    <2>2. ASSUME NEW x \in DOMAIN job \ SweepJobs
          PROVE  mail'[x] + Cardinality(Pending(x)')
                   <= job[x].tries + job[x].stalls + Started(x)
      <3>1. /\ x \in Jobs /\ job[x].tries \in Nat /\ job[x].stalls \in Nat
            /\ Started(x) \in Nat /\ mail[x] \in Nat
        BY DEF TypeOK, Started, JobRow
      <3>2. mail[x] + Cardinality(Pending(x)) <= job[x].tries + job[x].stalls + Started(x)
        BY DEF Counted
      <3>3. mail'[x] <= mail[x] + 1 /\ (x # j => mail'[x] = mail[x]) /\ mail'[x] \in Nat
        BY <1>5, <3>1
      <3>4. QED
        BY <2>1, <3>1, <3>2, <3>3
    <2>3. \A x \in SweepJobs : mail'[x] = 0
      BY <1>2, <1>5, Kinds DEF Counted
    <2>4. QED
      BY <1>1, <2>2, <2>3 DEF Counted, Started
  <1>12. QED
    BY <1>7, <1>8, <1>9, <1>10, <1>11

\* The end of a job or of an attempt: the worker is free, and so is the job if
\* the worker still held it.
LEMMA EndStep ==
  ASSUME IInv, NEW w \in Replicas, Complete(w) \/ Record(w)
  PROVE  IInv'
  <1> DEFINE j == proc[w].job
  <1> USE DEF IInv
  <1>1. UNCHANGED <<redis, faults, schedule, due, caller, mail>>
    BY DEF Complete, Record
  <1>2. proc[w].phase \in {"done", "error"} /\ j \in Jobs
    BY DEF Complete, Record, TypeOK, Worker, WorkersFit
  <1>3. /\ proc' \in [Replicas -> Worker]
        /\ \A v \in Replicas \ {w} : proc'[v] = proc[v]
        /\ proc'[w] = Idle /\ Idle.phase = "idle" /\ Idle.job = NoJob
    <2>1. proc' = [proc EXCEPT ![w] = Idle]
      BY DEF Complete, Record
    <2>2. QED
      BY <2>1, AttemptsAssumption DEF TypeOK, Idle, Worker
  <1>4. \A x \in DOMAIN job : job[x].lock = w => Holds(w) /\ x = j
    BY ReplicaAssumption DEF LocksFit, Holds
  <1>5. Holds(w) => /\ j \in DOMAIN job /\ job[j] \in JobRow /\ job[j].state = "active"
                    /\ job[j].tries < AttemptsOf(j)
    BY ReplicaAssumption DEF LocksFit, Holds, TypeOK
  <1> DEFINE Ended ==
        /\ DOMAIN job' = DOMAIN job
        /\ \A x \in DOMAIN job : x # j \/ ~ Holds(w) => job'[x] = job[x]
        /\ Holds(w) =>
             /\ job'[j] \in JobRow
             /\ job'[j].lock = NoReplica /\ job'[j].stalls = job[j].stalls
             /\ \/ /\ proc[w].phase = "done" /\ job'[j].state = "completed"
                   /\ job'[j].tries = job[j].tries
                \/ /\ job'[j].state = "waiting" /\ job'[j].tries = job[j].tries + 1
                   /\ job'[j].tries < AttemptsOf(j)
                \/ job'[j].state = "failed" /\ job'[j].tries = job[j].tries + 1
  <1>6. Ended
    <2>1. CASE ~ Holds(w)
      BY <2>1 DEF Complete, Record
    <2>2. CASE Holds(w) /\ Complete(w)
      <3>1. PICK row : /\ row = [job[j] EXCEPT !.state = "completed", !.lock = NoReplica]
                       /\ job' = [job EXCEPT ![j] = row]
        BY <1>5, <2>2 DEF Complete, TypeOK, JobRow
      <3>2. row \in JobRow
        BY <1>5, <2>2, <3>1 DEF JobRow
      <3>3. proc[w].phase = "done"
        BY <2>2 DEF Complete
      <3>4. QED
        BY <1>5, <2>2, <3>1, <3>2, <3>3 DEF JobRow
    <2>3. CASE Holds(w) /\ Record(w)
      <3>1. PICK row : row = Failed(j) /\ job' = [job EXCEPT ![j] = row]
        BY <2>3 DEF Record
      <3>2. /\ row \in JobRow /\ row.lock = NoReplica /\ row.stalls = job[j].stalls
            /\ row.tries = job[j].tries + 1
            /\ \/ row.state = "waiting" /\ row.tries < AttemptsOf(j)
               \/ row.state = "failed"
        <4>1. AttemptsOf(j) \in Nat /\ AttemptsOf(j) <= Attempts
          BY AttemptsAssumption DEF AttemptsOf
        <4>2. PICK n \in 0..Attempts : n = job[j].tries + 1
          BY <1>5, <2>3, <4>1, AttemptsAssumption DEF JobRow
        <4>3. PICK state \in {"waiting", "failed"} :
                /\ row = [job[j] EXCEPT !.lock = NoReplica, !.tries = n, !.state = state]
                /\ state = "waiting" => n < AttemptsOf(j)
          BY <3>1, <4>2 DEF Failed
        <4>4. QED
          BY <1>5, <2>3, <4>2, <4>3 DEF JobRow
      <3>3. QED
        BY <1>5, <2>3, <3>1, <3>2
    <2>4. QED
      BY <2>1, <2>2, <2>3
  <1> HIDE DEF j
  <1>7. \A x \in Jobs : Absent(x) => Absent(x)'
    BY <1>1, <1>3, <1>6, Kinds DEF Absent
  <1>8. TypeOK'
    BY <1>1, <1>3, <1>5, <1>6 DEF TypeOK
  <1>9. WorkersFit'
    BY <1>1, <1>3, Kinds DEF WorkersFit, TypeOK
  <1>10. LocksFit'
    BY <1>3, <1>4, <1>5, <1>6 DEF LocksFit, TypeOK, JobRow, j
  <1>11. CompletedWasSent'
    BY <1>1, <1>2, <1>5, <1>6, Kinds DEF CompletedWasSent, WorkersFit, j
  <1>12. NamesFresh'
    <2> USE Kinds DEF NamesFresh
    <2>1. EventsFresh' /\ DuesFresh'
      BY <1>1, <1>7, EventNames DEF EventsFresh, DuesFresh
    <2>2. RunsFresh'
      BY <1>5, <1>6, <1>7, DigestNames DEF RunsFresh, JobRow
    <2>3. RunsBegun'
      BY <1>3, <1>5, <1>6 DEF RunsBegun, JobRow
    <2>4. RunsDiffer'
      BY <1>3 DEF RunsDiffer
    <2>5. TodoFresh'
      BY <1>3, <1>7, DigestNames DEF TodoFresh, TypeOK, Worker
    <2>6. QED
      BY <2>1, <2>2, <2>3, <2>4, <2>5
  <1>13. Counted'
    <2>1. \A x \in Jobs : Pending(x)' = Pending(x)
      BY <1>2, <1>3 DEF Pending
    <2>2. ASSUME NEW x \in DOMAIN job \ SweepJobs
          PROVE  job[x].tries + job[x].stalls + Started(x)
                   <= job'[x].tries + job'[x].stalls + Started(x)'
      <3>1. x \in Jobs /\ job[x].tries \in Nat /\ job[x].stalls \in Nat
        BY DEF TypeOK, JobRow
      <3>2. CASE x = j /\ Holds(w)
        BY <1>5, <1>6, <3>1, <3>2 DEF Started
      <3>3. CASE ~ (x = j /\ Holds(w))
        BY <1>6, <3>1, <3>3 DEF Started
      <3>4. QED
        BY <3>2, <3>3
    <2>3. ASSUME NEW x \in DOMAIN job \ SweepJobs
          PROVE  mail[x] + Cardinality(Pending(x)')
                   <= job'[x].tries + job'[x].stalls + Started(x)'
      <3>1. /\ x \in Jobs /\ job[x] \in JobRow /\ job'[x] \in JobRow /\ mail[x] \in Nat
            /\ mail[x] + Cardinality(Pending(x)) <= job[x].tries + job[x].stalls + Started(x)
        BY <1>6, <1>8 DEF TypeOK, Counted
      <3>2. Pending(x)' = Pending(x) /\ Pending(x) \subseteq Replicas
        BY <2>1, <3>1 DEF Pending
      <3>3. Cardinality(Pending(x)') = Cardinality(Pending(x)) /\ Cardinality(Pending(x)) \in Nat
        BY <3>2, PendingCounts
      <3>4. Started(x) \in Nat /\ Started(x)' \in Nat
        BY DEF Started
      <3>5. QED
        BY <2>2, <3>1, <3>3, <3>4 DEF JobRow
    <2>4. QED
      BY <1>1, <1>6, <2>3 DEF Counted
  <1>14. QED
    BY <1>8, <1>9, <1>10, <1>11, <1>12, <1>13

-----------------------------------------------------------------------------
(* The invariant and what follows from it *)

\* Every step keeps the invariant.
LEMMA NextIInv == IInv /\ [Next]_vars => IInv'
  <1> SUFFICES ASSUME IInv, [Next]_vars
               PROVE  IInv'
    OBVIOUS
  <1>1. ASSUME NEW w \in Replicas, Boot(w) \/ Dies(w) \/ Work(w)
        PROVE  IInv'
    <2>1. CASE Boot(w)
      BY <2>1, BootStep
    <2>2. CASE Dies(w)
      BY <2>2, DiesStep
    <2>3. CASE Work(w)
      BY <2>3, SendStep, SweepSteps, EndStep, FanOutStep DEF Work
    <2>4. QED
      BY <1>1, <2>1, <2>2, <2>3
  <1>2. ASSUME NEW e \in Events,
               Add(e) \/ AddRejects(e) \/ \E w \in Replicas : Emit(e, w)
        PROVE  IInv'
    BY <1>2, AddStep, QuietSteps
  <1>3. ASSUME NEW j \in DOMAIN job, Stall(j) \/ \E w \in Replicas : Take(w, j)
        PROVE  IInv'
    BY <1>3, StallStep, TakeStep
  <1>4. CASE Due \/ RedisLeaves \/ RedisReturns \/ RedisRestarts
    BY <1>4, DueStep, QuietSteps, ReturnStep, RestartStep
  <1>5. CASE UNCHANGED vars
    <2>1. UNCHANGED <<redis, faults, schedule, due, job, proc, caller, mail>>
      BY <1>5 DEF vars
    <2>2. TypeOK' /\ WorkersFit' /\ LocksFit' /\ CompletedWasSent' /\ Counted'
      BY <2>1 DEF IInv, TypeOK, WorkersFit, LocksFit, CompletedWasSent, Counted,
                  Pending, Started
    <2>3. NamesFresh'
      BY <2>1 DEF IInv, NamesFresh, EventsFresh, DuesFresh, RunsFresh, RunsBegun,
                  RunsDiffer, TodoFresh, Absent
    <2>4. QED
      BY <2>2, <2>3 DEF IInv
  <1>6. QED
    BY <1>1, <1>2, <1>3, <1>4, <1>5 DEF Next

\* The invariant holds of every behaviour.
LEMMA Invariant == Spec => []IInv
  <1>1. Init => IInv
    BY InitIInv
  <1>2. IInv /\ [Next]_vars => IInv'
    BY NextIInv
  <1>3. QED
    BY <1>1, <1>2, PTL DEF Spec

\* The count of starts bounds the mail.
LEMMA DuplicatesFollow == IInv => DuplicatesAreCounted
  <1> SUFFICES ASSUME IInv, NEW j \in DOMAIN job
               PROVE  mail[j] <= 1 + job[j].tries + job[j].stalls
    BY DEF DuplicatesAreCounted
  <1>1. /\ j \in Jobs /\ mail[j] \in Nat
        /\ job[j].tries \in Nat /\ job[j].stalls \in Nat
    BY DEF IInv, TypeOK, JobRow
  <1>2. CASE j \in SweepJobs
    BY <1>1, <1>2 DEF IInv, Counted
  <1>3. CASE j \notin SweepJobs
    <2>1. mail[j] + Cardinality(Pending(j)) <= job[j].tries + job[j].stalls + Started(j)
      BY <1>3 DEF IInv, Counted
    <2>2. Pending(j) \subseteq Replicas
      BY DEF Pending
    <2>3. Cardinality(Pending(j)) \in Nat
      BY <2>2, ReplicaAssumption, FS_Subset, FS_CardinalityType
    <2>4. Started(j) \in {0, 1}
      BY DEF Started
    <2>5. QED
      BY <1>1, <2>1, <2>3, <2>4
  <1>4. QED
    BY <1>2, <1>3

\* The digests of a team and a due time are told apart by the run alone, and
\* no run is ahead of the sweep.
LEMMA OneDigestFollows == IInv => OneDigestPerTeam
  <1> SUFFICES ASSUME IInv, NEW s \in DOMAIN job, s.kind = "sweep", NEW t \in Teams
               PROVE  Cardinality(DigestsOf(t, s.due)) <= 1 + job[s].stalls
    BY DEF OneDigestPerTeam
  <1> DEFINE n == job[s].stalls
  <1> DEFINE D(r) == DigestJob(t, s, r)
  <1>1. s \in SweepJobs /\ n \in Nat /\ n \in 0..MaxStalled
    BY Kinds, AttemptsAssumption DEF IInv, TypeOK, JobRow
  <1>2. \A j \in DigestsOf(t, s.due) : j \in DigestJobs /\ j \in DOMAIN job
    BY DEF DigestsOf, IInv, TypeOK, Jobs, EventJobs, SweepJobs, DigestJobs
  <1>3. \A j \in DigestsOf(t, s.due) : j = D(j.run) /\ j.run \in 0..MaxStalled
    BY <1>1, <1>2
    DEF DigestsOf, DigestJobs, SweepJobs, DigestJob, SchedulerIds, DigestSchedulerId
  <1>4. \A j \in DigestsOf(t, s.due) : j.run \in 0..n
    <2>1. \A r \in 0..MaxStalled : r > n => Absent(D(r))
      BY <1>1 DEF IInv, NamesFresh, RunsFresh
    <2> HIDE DEF n
    <2>2. \A j \in DigestsOf(t, s.due) : ~ (j.run > n)
      BY <1>2, <1>3, <2>1 DEF Absent
    <2>3. QED
      BY <1>1, <1>3, <2>2
  <1> DEFINE I == {D(r) : r \in 0..n}
  <1>5. DigestsOf(t, s.due) \subseteq I
    BY <1>3, <1>4
  <1> HIDE DEF n, D
  <1>6. IsFiniteSet(0..n) /\ Cardinality(0..n) = n + 1
    BY <1>1, FS_Interval
  <1>7. IsFiniteSet(I) /\ Cardinality(I) <= Cardinality(0..n)
    <2>1. [r \in 0..n |-> D(r)] \in Surjection(0..n, I)
      BY DEF Surjection
    <2>2. QED
      BY <1>6, <2>1, FS_Surjection DEF ExistsSurjection
  <1>8. QED
    BY <1>1, <1>5, <1>6, <1>7, FS_Subset, FS_CardinalityType DEF n

\* Redis's data, the workers and the callers keep their types: an attempt is
\* counted only while there are attempts left, and a stall while the job may
\* stall again.
THEOREM TypeCorrect == Spec => []TypeOK
  <1>1. IInv => TypeOK
    BY DEF IInv
  <1>2. QED
    BY <1>1, Invariant, PTL

\* A job that BullMQ marks completed was accepted by the SMTP server, or was
\* about nothing to send, whatever became of its worker and of Redis meanwhile.
THEOREM SentBeforeCompleted == Spec => []CompletedWasSent
  <1>1. IInv => CompletedWasSent
    BY DEF IInv
  <1>2. QED
    BY <1>1, Invariant, PTL

\* However many workers, attempts and faults there are, a job's mail goes out
\* at most once more than the attempts and stalls recorded on it.
THEOREM DuplicatesCounted == Spec => []DuplicatesAreCounted
  <1>1. QED
    BY DuplicatesFollow, Invariant, PTL

\* With any number of replicas, a due time gives a team at most one digest and
\* one for each time its sweep stalled: the scheduler's id is the same in all.
THEOREM OneDigest == Spec => []OneDigestPerTeam
  <1>1. QED
    BY OneDigestFollows, Invariant, PTL
=============================================================================
