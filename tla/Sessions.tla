------------------------------ MODULE Sessions ------------------------------
(***************************************************************************)
(* Refresh-token sessions: AuthService (login, refresh with rotation and   *)
(* reuse detection, logout), the cookie handling of AuthController, and    *)
(* the revocation UsersService.deactivate performs.                        *)
(*                                                                         *)
(* Requests of several tabs and administrators interleave at every await.  *)
(* The store is PostgreSQL under READ COMMITTED: a statement sees what was *)
(* committed before it started, an UPDATE waits for the rows it matched    *)
(* and tests its WHERE clause on them again, and it never sees a row that  *)
(* was inserted after it started.  It locks its rows one by one, in the    *)
(* order its plan finds them, and keeps the locks until its transaction    *)
(* ends; of transactions that wait for each other in a circle PostgreSQL   *)
(* aborts one.                                                             *)
(*                                                                         *)
(* A token is a number, given out in the order of the INSERTs.  A family   *)
(* is named by the token its login issued.                                 *)
(***************************************************************************)
EXTENDS Naturals, FiniteSets

CONSTANTS
  Users, NoUser,
  Browsers,     \* cookie jars
  Tabs,         \* page instances, each with at most one auth call in flight
  BrowserOf,    \* the jar a tab uses
  Admins,       \* administrators' requests on /users
  MaxTokens,    \* bound: tokens issued in a behaviour
  MaxInFlight,  \* bound: requests handled at the same time
  Faults        \* may answers be lost, handlers die and transactions abort

ASSUME BrowsersAssumption == BrowserOf \in [Tabs -> Browsers]
ASSUME BoundsAssumption ==
  /\ MaxTokens \in Nat
  /\ MaxInFlight \in Nat
  /\ Faults \in BOOLEAN
ASSUME DistinctAssumption == Tabs \cap Admins = {} /\ NoUser \notin Users

Tokens == 1 .. MaxTokens
NoToken == 0
Requests == Tabs \cup Admins

VARIABLES
  active,   \* User.isActive
  issued,   \* committed RefreshToken rows
  user,     \* RefreshToken.userId
  family,   \* RefreshToken.familyId
  used,     \* rows with usedAt set
  revoked,  \* rows with revokedAt set
  expired,  \* rows with expiresAt <= now
  jar,      \* refresh cookie of each browser
  pc,       \* where the handler of each request is
  tok,      \* the token a tab's request presented, or was given
  who,      \* the user a request is about
  snap,     \* rows a revoking UPDATE matched when it started and has still to lock
  held      \* rows the request's open transaction has locked

rows == <<issued, user, family, used, revoked, expired>>
vars == <<active, rows, jar, pc, tok, who, snap, held>>

TabPc == {"idle", "login", "read", "reuse", "revoking", "claim", "rotate",
          "sign", "logout", "grant", "deny"}
AdminPc == {"idle", "deactivate", "sweep"}

Init ==
  /\ active = [u \in Users |-> TRUE]
  /\ issued = {}
  /\ user = [t \in Tokens |-> NoUser]
  /\ family = [t \in Tokens |-> NoToken]
  /\ used = {}
  /\ revoked = {}
  /\ expired = {}
  /\ jar = [b \in Browsers |-> NoToken]
  /\ pc = [r \in Requests |-> "idle"]
  /\ tok = [r \in Requests |-> NoToken]
  /\ who = [r \in Requests |-> NoUser]
  /\ snap = [r \in Requests |-> {}]
  /\ held = [r \in Requests |-> {}]

-----------------------------------------------------------------------------
(* Helpers *)

\* docs/05 section 8.2: a token can be exchanged iff it is none of the three.
Usable(t) == t \in issued \ (used \cup revoked \cup expired)

\* An open transaction has updated the row, or tested it to do so.
Locked(t) == \E r \in Requests : t \in held[r]

\* The user row an open deactivation has updated.
UserLocked(u) == \E a \in Admins : pc[a] = "sweep" /\ who[a] = u

\* The transactions that hold a row the revoking UPDATE of r has still to lock;
\* any of these rows may be the one its scan has come to.
WaitsFor(r) == {q \in Requests : snap[r] \cap held[q] # {}}

\* r waits for itself, through any number of others.
Deadlocked(r) ==
  \A S \in SUBSET Requests :
    WaitsFor(r) \subseteq S /\ (\A q \in S : WaitsFor(q) \subseteq S) => r \in S

Starting(r) ==
  /\ pc[r] = "idle"
  /\ Cardinality({q \in Requests : pc[q] # "idle"}) < MaxInFlight

\* The bound on tokens never strands a request: one is left for each in flight.
Room == Cardinality({q \in Tabs : pc[q] # "idle"}) < Cardinality(Tokens \ issued)

Goto(r, label) == pc' = [pc EXCEPT ![r] = label]

Cookie(r) == jar[BrowserOf[r]]

\* The transaction of r is over, committed or rolled back.
Unlock(r) ==
  /\ snap' = [snap EXCEPT ![r] = {}]
  /\ held' = [held EXCEPT ![r] = {}]

\* The handler is over: what it held in memory is gone.
End(r) ==
  /\ Goto(r, "idle")
  /\ tok' = [tok EXCEPT ![r] = NoToken]
  /\ who' = [who EXCEPT ![r] = NoUser]
  /\ Unlock(r)

\* Seeded fault: the INSERT is not awaited, and fails.
PersistRefresh_Lost(t, u, f) ==
  /\ t \in Tokens \ issued
  /\ \A s \in Tokens \ issued : t <= s
  /\ UNCHANGED <<issued, user, family>>

\* persistRefresh: INSERT of the next token for user u in family f.
PersistRefresh(t, u, f) ==
  /\ t \in Tokens \ issued
  /\ \A s \in Tokens \ issued : t <= s
  /\ issued' = issued \cup {t}
  /\ user' = [user EXCEPT ![t] = u]
  /\ family' = [family EXCEPT ![t] = f]

-----------------------------------------------------------------------------
(* POST /auth/login *)

\* findUnique, argon2.verify and the isActive test, all on the row read here.
\* A wrong password or a disabled account changes nothing.
LoginCheck(r, u) ==
  /\ Starting(r) /\ Room
  /\ active[u]
  /\ Goto(r, "login")
  /\ who' = [who EXCEPT ![r] = u]
  /\ UNCHANGED <<active, rows, jar, tok, snap, held>>

\* persistRefresh outside any transaction, under a new family.
LoginIssue(r) ==
  /\ pc[r] = "login"
  /\ \E t \in Tokens :
       /\ PersistRefresh(t, who[r], t)
       /\ tok' = [tok EXCEPT ![r] = t]
  /\ Goto(r, "grant")
  /\ UNCHANGED <<active, used, revoked, expired, jar, who, snap, held>>

-----------------------------------------------------------------------------
(* POST /auth/refresh *)

\* Without a cookie it is refused at once.
RefreshStart(r) ==
  /\ Starting(r) /\ Room
  /\ tok' = [tok EXCEPT ![r] = Cookie(r)]
  /\ \/ Cookie(r) = NoToken /\ Goto(r, "deny")
     \/ Cookie(r) # NoToken /\ Goto(r, "read")
  /\ UNCHANGED <<active, rows, jar, who, snap, held>>

\* tx.refreshToken.findUnique and the tests on the row it returned.
RefreshRead(r) ==
  /\ pc[r] = "read"
  /\ \/ /\ tok[r] \notin issued \/ tok[r] \in revoked \cup expired
        /\ Goto(r, "deny")
     \/ /\ tok[r] \in issued \ (revoked \cup expired)
        /\ tok[r] \in used
        /\ Goto(r, "reuse")
     \/ /\ tok[r] \in issued \ (revoked \cup expired)
        /\ tok[r] \notin used
        /\ Goto(r, "claim")
  /\ UNCHANGED <<active, rows, jar, tok, who, snap, held>>

\* The family-wide updateMany starts: its snapshot fixes the rows it can touch.
ReuseSnapshot(r) ==
  /\ pc[r] = "reuse"
  /\ snap' = [snap EXCEPT ![r] =
                {t \in issued \ revoked : family[t] = family[tok[r]]}]
  /\ Goto(r, "revoking")
  /\ UNCHANGED <<active, rows, jar, tok, who, held>>

\* A revoking UPDATE comes to its next row, and has it once nobody else does.
\* The order is the plan's: by family here, by user in deactivate.
LockRow(r) ==
  /\ \E t \in snap[r] :
       /\ ~Locked(t)
       /\ snap' = [snap EXCEPT ![r] = @ \ {t}]
       /\ held' = [held EXCEPT ![r] = @ \cup {t}]
  /\ UNCHANGED <<active, rows, jar, pc, tok, who>>

\* It has locked every row, and the transaction commits.
ReuseCommit(r) ==
  /\ pc[r] = "revoking"
  /\ snap[r] = {}
  /\ revoked' = revoked \cup held[r]
  /\ Goto(r, "deny")
  /\ Unlock(r)
  /\ UNCHANGED <<active, issued, user, family, used, expired, jar, tok, who>>

\* PostgreSQL aborts the revocation that closes a circle of waiting
\* transactions: it rolls back, and the controller's catch clears the cookie.
ReuseDeadlock(r) ==
  /\ pc[r] = "revoking"
  /\ Deadlocked(r)
  /\ Goto(r, "deny")
  /\ Unlock(r)
  /\ UNCHANGED <<active, rows, jar, tok, who>>

\* Seeded fault: the read decides alone, an update by id then sets usedAt.
RefreshClaim_NoCas(r) ==
  /\ pc[r] = "claim"
  /\ ~Locked(tok[r])
  /\ Goto(r, "rotate")
  /\ held' = [held EXCEPT ![r] = {tok[r]}]
  /\ UNCHANGED <<active, rows, jar, tok, who, snap>>

\* Seeded fault: the compare-and-set forgets revokedAt.
RefreshClaim_IgnoresRevoked(r) ==
  /\ pc[r] = "claim"
  /\ ~Locked(tok[r])
  /\ \/ /\ tok[r] \in used
        /\ Goto(r, "deny")
        /\ UNCHANGED held
     \/ /\ tok[r] \notin used
        /\ Goto(r, "rotate")
        /\ held' = [held EXCEPT ![r] = {tok[r]}]
  /\ UNCHANGED <<active, rows, jar, tok, who, snap>>

\* The compare-and-set: usedAt is set if it and revokedAt are still null.
RefreshClaim(r) ==
  /\ pc[r] = "claim"
  /\ ~Locked(tok[r])
  /\ \/ /\ tok[r] \in used \cup revoked
        /\ Goto(r, "deny")
        /\ UNCHANGED held
     \/ /\ tok[r] \notin used \cup revoked
        /\ Goto(r, "rotate")
        /\ held' = [held EXCEPT ![r] = {tok[r]}]
  /\ UNCHANGED <<active, rows, jar, tok, who, snap>>

\* Seeded fault: before it commits, the callback updates the user's row over
\* this.prisma instead of tx.  A deactivation that waits for the token may hold
\* that row, and the database sees no circle: the callback waits, not its
\* transaction.
RefreshRotate_LocksUser(r) ==
  /\ pc[r] = "rotate"
  /\ ~UserLocked(user[tok[r]])
  /\ used' = used \cup {tok[r]}
  /\ \E t \in Tokens :
       /\ PersistRefresh(t, user[tok[r]], family[tok[r]])
       /\ tok' = [tok EXCEPT ![r] = t]
  /\ Goto(r, "sign")
  /\ Unlock(r)
  /\ UNCHANGED <<active, revoked, expired, jar, who>>

\* persistRefresh of the child inside the transaction, and its commit.
RefreshRotate(r) ==
  /\ pc[r] = "rotate"
  /\ used' = used \cup {tok[r]}
  /\ \E t \in Tokens :
       /\ PersistRefresh(t, user[tok[r]], family[tok[r]])
       /\ tok' = [tok EXCEPT ![r] = t]
  /\ Goto(r, "sign")
  /\ Unlock(r)
  /\ UNCHANGED <<active, revoked, expired, jar, who>>

\* After the commit: the user is read, isActive is not tested, and an access
\* token is signed.
RefreshSign(r) ==
  /\ pc[r] = "sign"
  /\ Goto(r, "grant")
  /\ UNCHANGED <<active, rows, jar, tok, who, snap, held>>

-----------------------------------------------------------------------------
(* POST /auth/logout *)

\* Without a cookie there is nothing to revoke.
LogoutStart(r) ==
  /\ Starting(r)
  /\ tok' = [tok EXCEPT ![r] = Cookie(r)]
  /\ \/ Cookie(r) = NoToken /\ Goto(r, "deny")
     \/ Cookie(r) # NoToken /\ Goto(r, "logout")
  /\ UNCHANGED <<active, rows, jar, who, snap, held>>

\* Seeded fault: logout only clears the cookie.
Logout_CookieOnly(r) ==
  /\ pc[r] = "logout"
  /\ Goto(r, "deny")
  /\ UNCHANGED <<active, rows, jar, tok, who, snap, held>>

\* updateMany on the one row; the answer clears the cookie whatever it matched.
Logout(r) ==
  /\ pc[r] = "logout"
  /\ ~Locked(tok[r])
  /\ revoked' = revoked \cup (issued \cap {tok[r]})
  /\ Goto(r, "deny")
  /\ UNCHANGED <<active, issued, user, family, used, expired, jar, tok, who, snap, held>>

-----------------------------------------------------------------------------
(* Answers, and what can go wrong *)

\* Seeded fault: the answer to a refresh forgets Set-Cookie.
DeliverGrant_NoCookie(r) ==
  /\ pc[r] = "grant"
  /\ jar' = [jar EXCEPT ![BrowserOf[r]] = IF @ = NoToken THEN tok[r] ELSE @]
  /\ End(r)
  /\ UNCHANGED <<active, rows>>

\* Set-Cookie with the new token reaches the browser.
DeliverGrant(r) ==
  /\ pc[r] = "grant"
  /\ jar' = [jar EXCEPT ![BrowserOf[r]] = tok[r]]
  /\ End(r)
  /\ UNCHANGED <<active, rows>>

\* A refused refresh and a logout both clear the cookie.
DeliverDeny(r) ==
  /\ pc[r] = "deny"
  /\ jar' = [jar EXCEPT ![BrowserOf[r]] = NoToken]
  /\ End(r)
  /\ UNCHANGED <<active, rows>>

\* The process or the connection dies: an open transaction rolls back and the
\* browser keeps the cookie it had.
Drop(r) ==
  /\ Faults
  /\ pc[r] # "idle"
  /\ End(r)
  /\ UNCHANGED <<active, rows, jar>>

\* A statement of refresh fails or its transaction's time runs out: what is not
\* committed rolls back, and the controller's catch clears the cookie.
RefreshFails(r) ==
  /\ Faults
  /\ pc[r] \in {"read", "reuse", "revoking", "claim", "rotate", "sign"}
  /\ Goto(r, "deny")
  /\ Unlock(r)
  /\ UNCHANGED <<active, rows, jar, tok, who>>

\* Time passes expiresAt; a child always expires after its parent.
Expire(t) ==
  /\ t \in issued \ expired
  /\ \A s \in issued : family[s] = family[t] /\ s < t => s \in expired
  /\ expired' = expired \cup {t}
  /\ UNCHANGED <<active, issued, user, family, used, revoked, jar, pc, tok, who, snap, held>>

-----------------------------------------------------------------------------
(* POST /users/:id/deactivate and /reactivate, as far as sessions see them *)

\* The guards on the row read first (self, leader, last admin) let u through.
DeactivateStart(a, u) ==
  /\ Starting(a)
  /\ who' = [who EXCEPT ![a] = u]
  /\ Goto(a, "deactivate")
  /\ UNCHANGED <<active, rows, jar, tok, snap, held>>

\* The transaction updates the user row, then its updateMany starts.
DeactivateSnapshot(a) ==
  /\ pc[a] = "deactivate"
  /\ ~UserLocked(who[a])
  /\ snap' = [snap EXCEPT ![a] = {t \in issued \ revoked : user[t] = who[a]}]
  /\ Goto(a, "sweep")
  /\ UNCHANGED <<active, rows, jar, tok, who, held>>

\* Every token of the user is locked (LockRow): the transaction commits.
DeactivateCommit(a) ==
  /\ pc[a] = "sweep"
  /\ snap[a] = {}
  /\ active' = [active EXCEPT ![who[a]] = FALSE]
  /\ revoked' = revoked \cup held[a]
  /\ End(a)
  /\ UNCHANGED <<issued, user, family, used, expired, jar>>

\* It is the one PostgreSQL aborts: the user stays active, the answer is a 500.
DeactivateDeadlock(a) ==
  /\ pc[a] = "sweep"
  /\ Deadlocked(a)
  /\ End(a)
  /\ UNCHANGED <<active, rows, jar>>

Reactivate(a, u) ==
  /\ Starting(a)
  /\ ~UserLocked(u)
  /\ active' = [active EXCEPT ![u] = TRUE]
  /\ UNCHANGED <<rows, jar, pc, tok, who, snap, held>>

-----------------------------------------------------------------------------
TabStep(r) ==
  \/ LoginIssue(r)
  \/ RefreshRead(r) \/ ReuseSnapshot(r) \/ LockRow(r)
  \/ ReuseCommit(r) \/ ReuseDeadlock(r)
  \/ RefreshClaim(r) \/ RefreshRotate(r) \/ RefreshSign(r)
  \/ Logout(r)
  \/ DeliverGrant(r) \/ DeliverDeny(r)

AdminStep(a) ==
  \/ DeactivateSnapshot(a) \/ LockRow(a)
  \/ DeactivateCommit(a) \/ DeactivateDeadlock(a)

Next ==
  \/ \E r \in Tabs :
       \/ \E u \in Users : LoginCheck(r, u)
       \/ RefreshStart(r) \/ LogoutStart(r)
       \/ TabStep(r)
       \/ RefreshFails(r)
  \/ \E a \in Admins :
       \/ \E u \in Users : DeactivateStart(a, u) \/ Reactivate(a, u)
       \/ AdminStep(a)
  \/ \E r \in Requests : Drop(r)
  \/ \E t \in Tokens : Expire(t)

Spec == Init /\ [][Next]_vars

\* The event loop resumes every handler, and the database grants a row lock to
\* a waiter once the holder is gone, and aborts one of those that wait in a
\* circle: strong fairness for the waiting statements.
Fairness ==
  /\ \A r \in Tabs : SF_vars(TabStep(r))
  /\ \A a \in Admins : SF_vars(AdminStep(a))

FairSpec == Spec /\ Fairness

-----------------------------------------------------------------------------
(* Properties *)

\* Types of the state; a stored row belongs to a user and to a family of the
\* same user, and only a request that has a token or a user works on it.
TypeOK ==
  /\ active \in [Users -> BOOLEAN]
  /\ issued \subseteq Tokens
  /\ user \in [Tokens -> Users \cup {NoUser}]
  /\ family \in [Tokens -> Tokens \cup {NoToken}]
  /\ used \subseteq issued
  /\ revoked \subseteq issued
  /\ expired \subseteq issued
  /\ jar \in [Browsers -> issued \cup {NoToken}]
  /\ pc \in [Requests -> TabPc \cup AdminPc]
  /\ tok \in [Requests -> issued \cup {NoToken}]
  /\ who \in [Requests -> Users \cup {NoUser}]
  /\ snap \in [Requests -> SUBSET issued]
  /\ held \in [Requests -> SUBSET issued]

\* Rotation never forks: of the tokens of one family exactly one has not been
\* exchanged, however many refreshes race for it and wherever they die.
\* (AuthService.refresh: "hai refresh dua nhau khong cung rotate".)
OneHeadPerFamily ==
  \A f \in issued : Cardinality({t \in issued \ used : family[t] = family[f]}) = 1

\* Once the unexchanged token of a family is revoked the family is dead: no
\* refresh that was already under way still adds a token to it.
DeadFamilyStaysDead ==
  [][\A t \in issued' \ issued : \A s \in issued \ used :
       family'[t] = family[s] => s \notin revoked]_vars

\* A family on which reuse was detected has no live token when the revoking
\* transaction has committed (docs/05 section 8.4, docs/08 section 5.1).
ReuseRevokesFamily ==
  [][\A r \in Tabs : ReuseCommit(r) =>
       \A t \in issued : family[t] = family[tok[r]] => t \in revoked']_vars

\* A deactivated user holds no token a refresh would accept
\* (UsersService.deactivate revokes every live refresh token).
NoSessionWhenInactive ==
  \A t \in issued : Usable(t) => active[user[t]]

\* When a logout has been carried out the session is over: the family of the
\* presented token has no usable token left (FR-AUTH-04).
LogoutEndsSession ==
  [][\A r \in Tabs : Logout(r) =>
       \A t \in issued : family[t] = family[tok[r]] => ~Usable(t)']_vars

\* Without lost answers and with one tab per browser, reuse detection never
\* fires on an honest client: a browser at rest holds no exchanged token.
NoFalseReuse ==
  \A r \in Tabs : pc[r] # "reuse"

\* Rotation, logout, reuse detection and deactivation lock the same rows, in
\* orders nobody chose.  Circles can close (NoDeadlock does not hold), but no wait for a row
\* is hidden from the database: every handler ends.
EveryRequestEnds ==
  \A r \in Requests : pc[r] # "idle" ~> pc[r] = "idle"

\* No revocation is lost to a deadlock.
NoDeadlock == \A r \in Requests : ~Deadlocked(r)
=============================================================================
