--------------------------- MODULE WebCacheProofs ----------------------------
(***************************************************************************)
(* What a screen shows at rest, for any number of users, teams, visits and *)
(* writes: the writes this page was told of, but for what these passed     *)
(* over, and nothing from outside the team of who is signed in, but for    *)
(* the fetches of others he has joined.  Both rest on what is known of an  *)
(* answer that is cached or on its way.                                    *)
(***************************************************************************)
EXTENDS WebCache, TLAPS

Shapes ==
  /\ now \in Nat /\ mine \in [Keys -> Nat]
  /\ DOMAIN fetch = Keys /\ DOMAIN data = Keys /\ DOMAIN write = Writes
  /\ user \in Users \cup {NoUser}
  /\ user = NoUser => Mounted = {}

\* A page is told of a write after the server has counted it.
WritesSound ==
  /\ \A k \in Keys : mine[k] <= now
  /\ \A w \in Writes : write[w].st = "ok" => write[w].ver \in 0 .. now

\* An answer on its way: to whom, and how new.
FetchSound(k) ==
  fetch[k].st \in {"asked", "answered"} =>
    /\ k[1] = "roster" => TeamOf[fetch[k].for] = k[2]
    /\ k \notin joined /\ user # NoUser => fetch[k].for = user
    /\ fetch[k].st = "answered" =>
         fetch[k].ver \in Nat /\ (k \notin passed => fetch[k].ver >= mine[k])

\* An answer in the cache; of those on the screen more is known, and of rosters,
\* which may be shown again without being asked for.
DataSound(k) ==
  HasData(k) =>
    /\ data[k].ver \in Nat
    /\ k[1] = "roster" => TeamOf[data[k].for] = k[2]
    /\ k \in Mounted /\ k \notin Fetching \cup failed \cup joined =>
         TeamOf[data[k].for] = TeamOf[user]
    /\ (k \in Mounted \/ k[1] = "roster") /\ k \notin Fetching \cup failed \cup passed =>
         data[k].ver >= mine[k]

Sound == \A k \in Keys : FetchSound(k) /\ DataSound(k)

Inv == Shapes /\ WritesSound /\ Sound

-----------------------------------------------------------------------------
\* Screens mount known queries, of rosters only the user's own.
LEMMA Mounting ==
  /\ \A s : \A u \in Users : Mounts(s, u) \subseteq Keys
  /\ \A s : \A u : \A k \in Mounts(s, u) : k[1] = "roster" => k[2] = TeamOf[u]
  /\ \A u : Mounts("login", u) = {} /\ Mounts("forbidden", u) = {}
<1> DEFINE Plain == {TaskList, TaskDetail, UserList, TeamMembers, TeamList, TeamDetail, Stats}
<1>1. ASSUME NEW s, NEW u PROVE Mounts(s, u) \subseteq Plain \cup UseRoster(u)
  BY DEF Mounts, TasksListPage, TaskDetailPage, TaskCreatePage, DashboardPage, AdminUsersPage,
         AdminUserCreatePage, AdminTeamsPage, AdminTeamDetailPage
<1>2. \A k \in Plain : k[1] # "roster"
  BY DEF TaskList, TaskDetail, UserList, TeamMembers, TeamList, TeamDetail, Stats
<1>3. ASSUME NEW u, NEW k \in UseRoster(u) PROVE k[2] = TeamOf[u]
  BY DEF UseRoster, Roster
<1>4. ASSUME NEW u \in Users PROVE Plain \cup UseRoster(u) \subseteq Keys
  BY DEF Keys
<1>5. ASSUME NEW u PROVE Mounts("login", u) = {} /\ Mounts("forbidden", u) = {}
  BY DEF Mounts
<1> HIDE DEF Plain
<1>6. ASSUME NEW s, NEW u \in Users PROVE Mounts(s, u) \subseteq Keys
  BY <1>1, <1>4
<1>7. ASSUME NEW s, NEW u, NEW k \in Mounts(s, u), k[1] = "roster" PROVE k[2] = TeamOf[u]
  <2>1. k \in Plain \cup UseRoster(u)
    BY <1>1
  <2> QED BY <1>2, <1>3, <1>7, <2>1
<1> QED BY <1>5, <1>6, <1>7

\* What is on the screen is known.
LEMMA MountedKeys == ASSUME Shapes PROVE Mounted \subseteq Keys
BY Mounting DEF Shapes, Mounted

\* The initial states.
LEMMA InitSound == Init => Inv
<1> SUFFICES ASSUME Init PROVE Inv
    OBVIOUS
<1>1. Shapes
  <2>1. user = NoUser => screen = "login"
    BY DEF Init, Screens
  <2>2. user = NoUser => Mounted = {}
    BY <2>1, Mounting DEF Mounted
  <2>3. now \in Nat /\ mine \in [Keys -> Nat] /\ user \in Users \cup {NoUser}
    BY DEF Init
  <2>4. DOMAIN fetch = Keys /\ DOMAIN data = Keys /\ DOMAIN write = Writes
    BY DEF Init
  <2> QED BY <2>2, <2>3, <2>4 DEF Shapes
<1>2. WritesSound
  BY DEF Init, WritesSound, NoWrite
<1>3. ASSUME NEW k \in Keys PROVE FetchSound(k) /\ DataSound(k)
  <2>1. ~HasData(k)
    BY DEF Init, HasData
  <2>2. fetch[k] = IF k \in Mounts(screen, user) THEN Asked(user) ELSE Idle
    BY DEF Init
  <2>3. CASE k \in Mounts(screen, user)
    BY <2>1, <2>2, <2>3, Mounting DEF FetchSound, DataSound, Asked
  <2>4. CASE k \notin Mounts(screen, user)
    BY <2>1, <2>2, <2>4 DEF FetchSound, DataSound, Idle
  <2> QED BY <2>3, <2>4
<1> QED BY <1>1, <1>2, <1>3 DEF Inv, Sound

-----------------------------------------------------------------------------
\* Whatever a new screen finds in the cache without asking is a roster of its
\* user's own team.
LEMMA MountSound ==
  ASSUME Inv, NEW s, NEW u \in Users, Mount(s, u), user \in {u, NoUser},
         UNCHANGED <<now, data, failed, mine>>
  PROVE  Sound' /\ user' = u /\ DOMAIN fetch' = Keys
<1>1. PICK fresh \in SUBSET {k \in Mounts(s, u) : k[1] = "roster" /\ HasData(k) /\ k \notin failed} :
        LET asked == Mounts(s, u) \ (fresh \cup Fetching) IN
        /\ user' = u /\ screen' = s
        /\ fetch' = [k \in Keys |-> IF k \in asked THEN Asked(u) ELSE fetch[k]]
        /\ passed' = passed \ asked
        /\ joined' = (IF u = user THEN joined ELSE joined \cup Fetching) \ asked
  BY DEF Mount
<1> DEFINE asked == Mounts(s, u) \ (fresh \cup Fetching)
<1>2. /\ user' = u /\ screen' = s
      /\ fetch' = [k \in Keys |-> IF k \in asked THEN Asked(u) ELSE fetch[k]]
      /\ passed' = passed \ asked
      /\ joined' = (IF u = user THEN joined ELSE joined \cup Fetching) \ asked
  BY <1>1
<1>3. ASSUME NEW k \in Keys PROVE FetchSound(k)' /\ DataSound(k)'
  <2>1. FetchSound(k) /\ DataSound(k)
    BY DEF Inv, Sound
  <2>2. FetchSound(k)'
    <3>1. CASE k \in asked
      <4>1. fetch'[k] = Asked(u) /\ (k[1] = "roster" => k[2] = TeamOf[u])
        BY <1>2, <3>1, Mounting
      <4> QED BY <1>2, <4>1 DEF FetchSound, Asked
    <3>2. CASE k \notin asked
      <4>1. fetch'[k] = fetch[k]
        BY <1>2, <3>2
      <4>2. fetch[k].st \in {"asked", "answered"} => k \in Fetching
        BY DEF Fetching, Idle
      <4>3. /\ fetch[k].st \in {"asked", "answered"} /\ k \notin joined' =>
                 k \notin joined /\ u = user
            /\ k \notin passed' => k \notin passed
        BY <1>2, <3>2, <4>2
      <4> HIDE DEF asked
      <4> QED BY <1>2, <2>1, <4>1, <4>3 DEF FetchSound
    <3> QED BY <3>1, <3>2
  <2>3. DataSound(k)'
    <3> SUFFICES ASSUME HasData(k)
                 PROVE  /\ data[k].ver \in Nat
                        /\ k[1] = "roster" => TeamOf[data[k].for] = k[2]
                        /\ k \in Mounted' /\ k \notin (Fetching \cup failed \cup joined)' =>
                             TeamOf[data[k].for] = TeamOf[u]
                        /\ /\ k \in Mounted' \/ k[1] = "roster"
                           /\ k \notin (Fetching \cup failed \cup passed)'
                           => data[k].ver >= mine[k]
      BY <1>2 DEF DataSound, HasData
    <3>1. data[k].ver \in Nat /\ (k[1] = "roster" => TeamOf[data[k].for] = k[2])
      BY <2>1 DEF DataSound
    <3>2. ASSUME k \notin Fetching' PROVE k \notin asked /\ k \notin Fetching
      <4>1. fetch'[k] = Idle
        BY <3>2 DEF Fetching
      <4>2. k \notin asked
        BY <1>2, <4>1 DEF Asked, Idle
      <4> QED BY <1>2, <4>1, <4>2 DEF Fetching
    <3>3. ASSUME k \in Mounted', k \notin Fetching'
          PROVE  k[1] = "roster" /\ k[2] = TeamOf[u]
      <4>1. k \in Mounts(s, u)
        BY <1>2, <3>3 DEF Mounted
      <4>2. k \in fresh
        BY <3>2, <3>3, <4>1
      <4> QED BY <4>1, <4>2, Mounting
    <3>4. ASSUME k[1] = "roster", k \notin (Fetching \cup failed \cup passed)'
          PROVE  data[k].ver >= mine[k]
      <4>1. k \notin Fetching /\ k \notin failed /\ k \notin passed
        BY <1>2, <3>2, <3>4
      <4> HIDE DEF asked
      <4> QED BY <2>1, <3>4, <4>1 DEF DataSound
    <3> HIDE DEF asked
    <3> QED BY <3>1, <3>3, <3>4
  <2> QED BY <2>2, <2>3
<1> QED BY <1>2, <1>3 DEF Sound

\* Logging in and walking about.
LEMMA ScreenStep ==
  ASSUME Inv,
         \/ Logout \/ \E u \in Users : Login(u)
         \/ user # NoUser /\ \E s \in Screens(user) : Visit(s)
  PROVE  Inv'
<1>1. Shapes /\ WritesSound /\ Sound
  BY DEF Inv
<1>2. CASE Logout
  <2>1. /\ user' = NoUser /\ screen' = "login"
        /\ UNCHANGED <<now, data, failed, fetch, write, mine, passed, joined>>
    BY <1>2 DEF Logout
  <2>2. Mounted' = {}
    BY <2>1, Mounting DEF Mounted
  <2>3. Shapes' /\ WritesSound'
    BY <1>1, <2>1, <2>2 DEF Shapes, WritesSound
  <2>4. ASSUME NEW k \in Keys PROVE FetchSound(k)' /\ DataSound(k)'
    <3>1. FetchSound(k) /\ DataSound(k)
      BY <1>1 DEF Sound
    <3>2. Fetching' = Fetching
      BY <2>1 DEF Fetching
    <3> QED BY <2>1, <2>2, <3>1, <3>2 DEF FetchSound, DataSound, HasData
  <2> QED BY <2>3, <2>4 DEF Inv, Sound
<1>3. ASSUME NEW s, NEW u \in Users, Mount(s, u), user \in {u, NoUser}, u # NoUser,
             UNCHANGED <<now, data, failed, mine, write>>
      PROVE  Inv'
  <2>1. Sound' /\ user' = u /\ DOMAIN fetch' = Keys
    BY <1>3, MountSound
  <2>2. Shapes' /\ WritesSound'
    BY <1>1, <1>3, <2>1 DEF Shapes, WritesSound
  <2> QED BY <2>1, <2>2 DEF Inv
<1>4. ASSUME NEW u \in Users, Login(u) PROVE Inv'
  BY <1>3, <1>4, CacheAssumption DEF Login
<1>5. ASSUME NEW s, user # NoUser, Visit(s) PROVE Inv'
  <2>1. user \in Users
    BY <1>1, <1>5 DEF Shapes
  <2> QED BY <1>3, <1>5, <2>1 DEF Visit
<1> QED BY <1>2, <1>4, <1>5

-----------------------------------------------------------------------------
\* A fetch is served from what is there now, which no told write is ahead of.
LEMMA FetchServed ==
  ASSUME Inv, NEW k \in Keys, ServeFetch(k) \/ FailFetch(k)
  PROVE  Inv'
<1>1. Shapes /\ WritesSound /\ Sound
  BY DEF Inv
<1>2. /\ fetch[k].st = "asked"
      /\ UNCHANGED <<user, screen, now, data, failed, write, mine, passed, joined>>
      /\ \/ fetch' = [fetch EXCEPT ![k] = [st |-> "failed"]]
         \/ fetch' = [fetch EXCEPT ![k] = [st |-> "answered", ver |-> now, for |-> fetch[k].for]]
  BY DEF ServeFetch, FailFetch
<1>3. Shapes' /\ WritesSound'
  BY <1>1, <1>2 DEF Shapes, WritesSound, Mounted
<1>4. Fetching' = Fetching
  BY <1>1, <1>2 DEF Shapes, Fetching, Idle
<1>5. ASSUME NEW j \in Keys PROVE FetchSound(j)' /\ DataSound(j)'
  <2>1. FetchSound(j) /\ DataSound(j)
    BY <1>1 DEF Sound
  <2>2. DataSound(j)'
    BY <1>2, <1>4, <2>1 DEF DataSound, HasData, Mounted
  <2>3. FetchSound(j)'
    <3>1. CASE j # k
      <4>1. fetch'[j] = fetch[j]
        BY <1>1, <1>2, <3>1 DEF Shapes
      <4> QED BY <1>2, <2>1, <4>1 DEF FetchSound
    <3>2. CASE j = k
      <4>1. now \in Nat /\ now >= mine[k]
        BY <1>1 DEF Shapes, WritesSound
      <4>2. \/ fetch'[k] = [st |-> "failed"]
            \/ fetch'[k] = [st |-> "answered", ver |-> now, for |-> fetch[k].for]
        BY <1>1, <1>2 DEF Shapes
      <4> QED BY <1>2, <2>1, <3>2, <4>1, <4>2 DEF FetchSound
    <3> QED BY <3>1, <3>2
  <2> QED BY <2>2, <2>3
<1> QED BY <1>3, <1>5 DEF Inv, Sound

\* What comes back to the screen is of the user who is there, unless it was
\* passed over.
LEMMA FetchDelivered ==
  ASSUME Inv, NEW k \in Keys, DeliverFetch(k)
  PROVE  Inv'
<1>1. Shapes /\ WritesSound /\ Sound
  BY DEF Inv
<1>2. /\ fetch[k].st \in {"answered", "failed"}
      /\ fetch' = [fetch EXCEPT ![k] = Idle]
      /\ UNCHANGED <<user, screen, now, write, mine, passed, joined>>
      /\ \/ /\ fetch[k].st = "answered"
            /\ data' = [data EXCEPT ![k] = [ver |-> fetch[k].ver, for |-> fetch[k].for]]
            /\ failed' = failed \ {k}
         \/ failed' = failed \cup {k} /\ data' = data
  BY DEF DeliverFetch
<1>3. Shapes' /\ WritesSound'
  BY <1>1, <1>2 DEF Shapes, WritesSound, Mounted
<1>4. ASSUME NEW j \in Keys PROVE FetchSound(j)' /\ DataSound(j)'
  <2>1. FetchSound(j) /\ DataSound(j)
    BY <1>1 DEF Sound
  <2>2. CASE j # k
    <3>1. /\ fetch'[j] = fetch[j] /\ data'[j] = data[j]
          /\ j \in failed' <=> j \in failed
          /\ j \in Fetching' <=> j \in Fetching
      BY <1>1, <1>2, <2>2 DEF Shapes, Fetching
    <3> QED BY <1>2, <2>1, <3>1 DEF FetchSound, DataSound, HasData, Mounted
  <2>3. CASE j = k
    <3>1. FetchSound(k)'
      BY <1>1, <1>2 DEF Shapes, FetchSound, Idle
    <3>2. CASE fetch[k].st = "answered" /\ data' = [data EXCEPT ![k] = [ver |-> fetch[k].ver, for |-> fetch[k].for]]
      <4>1. data'[k].ver = fetch[k].ver /\ data'[k].for = fetch[k].for
        BY <1>1, <3>2 DEF Shapes
      <4>2. k \in Mounted => user # NoUser
        BY <1>1 DEF Shapes
      <4> QED BY <1>2, <2>1, <2>3, <3>1, <3>2, <4>1, <4>2 DEF FetchSound, DataSound, Mounted
    <3>3. CASE failed' = failed \cup {k} /\ data' = data
      BY <1>2, <2>1, <2>3, <3>1, <3>3 DEF DataSound, HasData
    <3> QED BY <1>2, <2>3, <3>1, <3>2, <3>3
  <2> QED BY <2>2, <2>3
<1> QED BY <1>3, <1>4 DEF Inv, Sound

-----------------------------------------------------------------------------
\* Writes change what is on the screen only through what they are told.
LEMMA WriteStepQuiet ==
  ASSUME Inv, NEW w \in Writes,
         Submit(w) \/ ServeWrite(w) \/ FailWrite(w) \/ DeliverRefused(w)
  PROVE  Inv'
<1>1. Shapes /\ WritesSound /\ Sound
  BY DEF Inv
<1>2. UNCHANGED <<user, screen, data, failed, fetch, mine, passed, joined>>
  BY DEF Submit, ServeWrite, FailWrite, DeliverRefused
<1>3. /\ now' \in Nat /\ now' >= now
      /\ DOMAIN write' = Writes
      /\ \A v \in Writes : write'[v].st = "ok" => write'[v].ver \in 0 .. now'
  <2>1. CASE ServeWrite(w) /\ now' = now + 1
    <3>1. write' = [write EXCEPT ![w] = [st |-> "ok", ver |-> now + 1]]
          \/ write' = [write EXCEPT ![w] = [st |-> "refused"]]
      BY <2>1 DEF ServeWrite
    <3> QED BY <1>1, <2>1, <3>1 DEF Shapes, WritesSound
  <2>2. CASE \E st \in {"sent", "refused", "none"} : write' = [write EXCEPT ![w] = [st |-> st]] /\ now' = now
    BY <1>1, <2>2 DEF Shapes, WritesSound
  <2> QED BY <2>1, <2>2 DEF Submit, ServeWrite, FailWrite, DeliverRefused, NoWrite
<1>4. Shapes' /\ WritesSound'
  BY <1>1, <1>2, <1>3 DEF Shapes, WritesSound, Mounted
<1>5. ASSUME NEW k \in Keys PROVE FetchSound(k)' /\ DataSound(k)'
  <2>1. FetchSound(k) /\ DataSound(k)
    BY <1>1 DEF Sound
  <2> QED BY <1>2, <2>1 DEF FetchSound, DataSound, HasData, Mounted, Fetching
<1> QED BY <1>4, <1>5 DEF Inv, Sound

\* A write invalidates the resource it is on.
LEMMA Invalidation ==
  ASSUME NEW w \in Writes
  PROVE  Changes(w) \subseteq Invalidates(w) \cup AlsoIn(w)
BY DEF Changes, Resource, Invalidates, Writes, TaskWrites, UserWrites, TeamWrites,
       TaskInvalidates, UserInvalidates, TeamInvalidates, SetLeaderInvalidates

\* When the page is told of a write, what could show less is asked for again
\* or passed over.
LEMMA WriteTold ==
  ASSUME Inv, NEW w \in Writes, DeliverOk(w)
  PROVE  Inv'
<1>1. Shapes /\ WritesSound /\ Sound
  BY DEF Inv
<1> DEFINE again == Refetched(Invalidates(w))
<1>2. /\ write[w].st = "ok"
      /\ fetch' = [k \in Keys |-> IF k \in again THEN Asked(user) ELSE fetch[k]]
      /\ passed' = (passed \cup PassedOver(w)) \ again
      /\ joined' = joined \ again
      /\ mine' = [k \in Keys |-> IF k \in Of(Changes(w)) THEN write[w].ver ELSE mine[k]]
      /\ write' = [write EXCEPT ![w] = [st |-> "settling"]]
      /\ UNCHANGED <<user, screen, now, data, failed>>
  BY DEF DeliverOk
<1>3. write[w].ver \in 0 .. now /\ now \in Nat
  BY <1>1, <1>2 DEF Shapes, WritesSound
<1>5. Shapes' /\ WritesSound'
  BY <1>1, <1>2, <1>3 DEF Shapes, WritesSound, Mounted
<1>6. ASSUME NEW k \in Keys, k \notin again, k \in Of(Changes(w)),
             k \in Mounted \/ k \in Fetching \/ (k[1] = "roster" /\ HasData(k))
      PROVE  k \in PassedOver(w)
  <2>1. k[1] \in Invalidates(w) \cup AlsoIn(w)
    BY <1>6, Invalidation DEF Of
  <2>2. CASE k \in Of(AlsoIn(w))
    BY <1>6, <2>2 DEF PassedOver
  <2>3. CASE k \in Of(Invalidates(w))
    <3>1. k[1] # "roster"
      BY <2>3 DEF Of, Invalidates, TaskInvalidates, UserInvalidates, TeamInvalidates,
                  SetLeaderInvalidates
    <3> QED BY <1>6, <2>3, <3>1 DEF Refetched, PassedOver
  <2> QED BY <1>6, <2>1, <2>2, <2>3 DEF Of
<1>7. ASSUME NEW k \in Keys PROVE FetchSound(k)' /\ DataSound(k)'
  <2>1. FetchSound(k) /\ DataSound(k)
    BY <1>1 DEF Sound
  <2>2. CASE k \in again
    <3>1. k \in Mounted /\ user \in Users /\ (k[1] = "roster" => k[2] = TeamOf[user])
      BY <1>1, <2>2, Mounting DEF Refetched, Shapes, Mounted
    <3>2. fetch'[k] = Asked(user) /\ k \in Fetching'
      BY <1>2, <2>2 DEF Asked, Idle, Fetching
    <3>3. FetchSound(k)'
      BY <1>2, <3>1, <3>2 DEF FetchSound, Asked
    <3>4. DataSound(k)'
      BY <1>2, <2>1, <3>2 DEF DataSound, HasData
    <3> QED BY <3>3, <3>4
  <2>3. CASE k \notin again
    <3>1. /\ fetch'[k] = fetch[k] /\ (k \in Fetching' <=> k \in Fetching)
          /\ k \notin passed' => k \notin passed /\ k \notin PassedOver(w)
          /\ k \in joined' <=> k \in joined
      BY <1>2, <2>3 DEF Fetching
    <3>2. fetch[k].st \in {"asked", "answered"} => k \in Fetching
      BY DEF Fetching, Idle
    <3>3. /\ k \in Of(Changes(w))
          /\ k \in Mounted \/ k \in Fetching \/ (k[1] = "roster" /\ HasData(k))
          => k \in passed'
      BY <1>6, <2>3, <3>1
    <3>4. k \notin Of(Changes(w)) => mine'[k] = mine[k]
      BY <1>2
    <3> HIDE DEF again
    <3>5. FetchSound(k)'
      BY <1>2, <2>1, <3>1, <3>2, <3>3, <3>4 DEF FetchSound
    <3>6. DataSound(k)'
      BY <1>2, <2>1, <3>1, <3>3, <3>4 DEF DataSound, HasData, Mounted
    <3> QED BY <3>5, <3>6
  <2> QED BY <2>2, <2>3
<1> QED BY <1>5, <1>7 DEF Inv, Sound

\* What follows a write may mount another screen.
LEMMA WriteSettled ==
  ASSUME Inv, NEW w \in Writes, Settle(w)
  PROVE  Inv'
<1>1. Shapes /\ WritesSound /\ Sound
  BY DEF Inv
<1>2. /\ write' = [write EXCEPT ![w] = NoWrite]
      /\ UNCHANGED <<now, data, failed, mine>>
  BY DEF Settle
<1>3. /\ DOMAIN write' = Writes
      /\ \A v \in Writes : write'[v].st = "ok" => write'[v].ver \in 0 .. now
  BY <1>1, <1>2 DEF Shapes, WritesSound, NoWrite
<1>4. CASE UNCHANGED <<user, fetch, passed, joined>> /\ (screen' = screen \/ screen' = "forbidden")
  <2>1. Mounted' = Mounted \/ Mounted' = {}
    BY <1>4, Mounting DEF Mounted
  <2>2. Shapes' /\ WritesSound'
    BY <1>1, <1>2, <1>3, <1>4, <2>1 DEF Shapes, WritesSound
  <2>3. ASSUME NEW k \in Keys PROVE FetchSound(k)' /\ DataSound(k)'
    <3>1. FetchSound(k) /\ DataSound(k)
      BY <1>1 DEF Sound
    <3> QED BY <1>2, <1>4, <2>1, <3>1 DEF FetchSound, DataSound, HasData, Fetching
  <2> QED BY <2>2, <2>3 DEF Inv, Sound
<1>5. CASE user # NoUser /\ Mount(Goto(w), user)
  <2>1. user \in Users
    BY <1>1, <1>5 DEF Shapes
  <2>2. Sound' /\ user' = user /\ DOMAIN fetch' = Keys
    BY <1>2, <1>5, <2>1, MountSound
  <2>3. Shapes' /\ WritesSound'
    BY <1>1, <1>2, <1>3, <1>5, <2>2 DEF Shapes, WritesSound
  <2> QED BY <2>2, <2>3 DEF Inv
<1> QED BY <1>4, <1>5 DEF Settle

-----------------------------------------------------------------------------
\* The invariant is inductive.
LEMMA Inductive == Inv /\ [Next]_vars => Inv'
<1> SUFFICES ASSUME Inv, [Next]_vars PROVE Inv'
    OBVIOUS
<1>1. CASE \/ Logout \/ \E u \in Users : Login(u)
           \/ user # NoUser /\ \E s \in Screens(user) : Visit(s)
  BY <1>1, ScreenStep
<1>2. ASSUME NEW k \in Keys, FetchStep(k) \/ FailFetch(k) PROVE Inv'
  BY <1>2, FetchServed, FetchDelivered DEF FetchStep
<1>3. ASSUME NEW w \in Writes, Submit(w) \/ WriteStep(w) \/ FailWrite(w) PROVE Inv'
  BY <1>3, WriteStepQuiet, WriteTold, WriteSettled DEF WriteStep
<1>4. CASE vars' = vars
  <2>1. UNCHANGED <<user, screen, now, data, failed, fetch, write, mine, passed, joined>>
    BY <1>4 DEF vars
  <2> QED
    BY <2>1 DEF Inv, Shapes, WritesSound, Sound, FetchSound, DataSound, HasData, Mounted, Fetching
<1> QED BY <1>1, <1>2, <1>3, <1>4 DEF Next

\* At rest every screen shows the writes its page was told of, but for what a
\* write passes over: answers under way, open views of other resources, rosters
\* (features/tasks/hooks.ts:42, features/teams/hooks.ts:51).
THEOREM WritesAreRead == Spec => []ReadYourWrites
<1>1. Inv => ReadYourWrites
  BY MountedKeys DEF Inv, Sound, DataSound, ReadYourWrites, AtRest
<1> QED BY InitSound, Inductive, <1>1, PTL DEF Spec

\* At rest every screen shows what the server answered to the team of who is
\* signed in, where he did not join the fetch of another user
\* (lib/query-keys.ts:34).
THEOREM OwnAtRest == Spec => []OwnOnceAnswered
<1>1. Inv => OwnOnceAnswered
  BY MountedKeys DEF Inv, Sound, DataSound, OwnOnceAnswered, AtRest
<1> QED BY InitSound, Inductive, <1>1, PTL DEF Spec
=============================================================================
