----------------------------- MODULE WebSession -----------------------------
(***************************************************************************)
(* The session of one page of the web client: the axios interceptors of    *)
(* api-client.ts (bearer token, one refresh shared by all calls that meet  *)
(* an outdated token, one retry), AuthProvider (bootstrap, login, logout)  *)
(* and the redirects of the router, over a jar with one refresh cookie.    *)
(*                                                                         *)
(* A call is sent, served and answered in separate steps, so calls of the  *)
(* page overtake each other.  The server serves a call in one step: that   *)
(* rotation is atomic is what Sessions shows.  What JavaScript does        *)
(* between two awaits, continuations of one settled promise included, is   *)
(* one step.                                                               *)
(*                                                                         *)
(* Grant number t stands for a refresh token and the access token that     *)
(* came with it.  Calls are <<kind, n>>; <<"call", 0>> is GET /auth/me.    *)
(***************************************************************************)
EXTENDS Naturals, FiniteSets

CONSTANTS
  Users, NoUser,
  RoleOf,      \* role of each user
  NData,       \* data calls a page can have under way
  MaxGrants,   \* bound: logins and rotations in a behaviour
  MaxMishaps   \* bound: page loads and network failures

ASSUME WebAssumption ==
  /\ RoleOf \in [Users -> {"ADMIN", "LEADER", "MEMBER"}]
  /\ NoUser \notin Users
  /\ NData \in Nat /\ MaxGrants \in Nat /\ MaxMishaps \in Nat

Tokens == 1 .. MaxGrants
NoToken == 0
Callers == 0 .. NData
NoRefresh == NData + 1
Call(i) == <<"call", i>>
Refresh(i) == <<"refresh", i>>   \* the refresh call i caused
Me == 0
Boot == <<"boot", 0>>
Login == <<"login", 0>>
Logout == <<"logout", 0>>
Refreshes == {Refresh(i) : i \in Callers} \cup {Boot}
Calls == {Call(i) : i \in Callers} \cup Refreshes \cup {Login, Logout}

Answers == {"ok", "grant", "tokenError", "refused", "denied", "limited", "network"}
Areas == {"tasks", "dashboard", "admin"}
Paths == {"login", "index", "forbidden"} \cup Areas

VARIABLES
  issued, owner, family, used, revoked,   \* refresh tokens of the server
  stale,      \* access tokens that have expired
  cookie,     \* refresh cookie
  token,      \* access token in the page's memory
  identity, booting,   \* AuthProvider
  promise,    \* the caller whose refresh is shared, or NoRefresh
  pc,         \* idle, sent, waiting for a refresh, or the answer on its way
  cred,       \* the credential a call carries, then the grant it was given
  awaits,     \* the refresh a waiting call waits for
  retried,    \* calls sent again (config._retry)
  path, mishaps,
  lost,       \* history: a grant never reached the page
  reused,     \* history: the server met an exchanged token
  overtaken,  \* history: the page signed in or out with other calls under way
  left        \* history: how the last user logged out, if nobody logged in since

server == <<issued, owner, family, used, revoked, stale>>
page == <<token, identity, booting>>
calls == <<pc, cred, awaits, retried, promise>>
history == <<lost, reused, overtaken, left>>
vars == <<server, cookie, page, calls, path, mishaps, history>>

UnderWay(c) == pc[c] # "idle"
Idle == [c \in Calls |-> "idle"]

\* A page load: nothing in memory but the bootstrap's refresh, just sent.
Loaded(jar) ==
  /\ pc' = [Idle EXCEPT ![Boot] = "sent"]
  /\ cred' = [c \in Calls |-> IF c = Boot THEN jar ELSE NoToken]
  /\ awaits' = [i \in Callers |-> NoRefresh]
  /\ retried' = {}
  /\ promise' = NoRefresh
  /\ token' = NoToken /\ identity' = NoUser /\ booting' = TRUE

Init ==
  /\ issued = {} /\ used = {} /\ revoked = {} /\ stale = {}
  /\ owner = [t \in Tokens |-> NoUser]
  /\ family = [t \in Tokens |-> NoToken]
  /\ cookie = NoToken
  /\ pc = [Idle EXCEPT ![Boot] = "sent"]
  /\ cred = [c \in Calls |-> NoToken]
  /\ awaits = [i \in Callers |-> NoRefresh]
  /\ retried = {} /\ promise = NoRefresh
  /\ token = NoToken /\ identity = NoUser /\ booting = TRUE
  /\ path = "index" /\ mishaps = 0
  /\ lost = FALSE /\ reused = FALSE /\ overtaken = FALSE /\ left = "no"

-----------------------------------------------------------------------------
(* The router *)

RoleLanding(role) ==
  IF role = "ADMIN" THEN "admin" ELSE IF role = "LEADER" THEN "dashboard" ELSE "tasks"

Allowed(role) ==
  CASE role = "ADMIN" -> {"admin"}
    [] role = "LEADER" -> {"tasks", "dashboard"}
    [] OTHER -> {"tasks"}

IndexRedirect == RoleLanding(RoleOf[identity])
RoleRoute(p) == IF p \in Areas \ Allowed(RoleOf[identity]) THEN "forbidden" ELSE p

ProtectedRoute(p) ==
  IF identity = NoUser THEN "login"
  ELSE IF p = "index" THEN IndexRedirect ELSE RoleRoute(p)

\* LoginPage sends who is logged in to the landing screen.
Target(p) ==
  IF p = "login" /\ identity # NoUser THEN RoleLanding(RoleOf[identity])
  ELSE ProtectedRoute(p)

\* The router is mounted when the splash is gone; the page stands still.
Settled == ~booting /\ Target(path) = path

Redirect ==
  /\ ~booting /\ Target(path) # path
  /\ path' = Target(path)
  /\ UNCHANGED <<server, cookie, page, calls, mishaps, history>>

\* A link of AppShell, which lists what the role may see.
Follow(p) ==
  /\ Settled /\ identity # NoUser
  /\ p \in Allowed(RoleOf[identity]) \ {path}
  /\ path' = p
  /\ UNCHANGED <<server, cookie, page, calls, mishaps, history>>

Mishap == mishaps < MaxMishaps /\ mishaps' = mishaps + 1

\* The user loads the page again, at any address: the answers under way are
\* lost with the page.
Reload(p) ==
  /\ Mishap
  /\ path' = p
  /\ Loaded(cookie)
  /\ lost' = (lost \/ \E c \in Calls : pc[c] = "grant")
  /\ UNCHANGED <<server, cookie, reused, overtaken, left>>

-----------------------------------------------------------------------------
(* Sending *)

SendData(i) ==
  /\ i # Me /\ pc[Call(i)] = "idle"
  /\ Settled /\ path \in Areas
  /\ pc' = [pc EXCEPT ![Call(i)] = "sent"]
  /\ cred' = [cred EXCEPT ![Call(i)] = token]
  /\ UNCHANGED <<server, cookie, page, awaits, retried, promise, path, mishaps, history>>

LoginSubmit ==
  /\ Settled /\ path = "login" /\ pc[Login] = "idle"
  /\ pc' = [pc EXCEPT ![Login] = "sent"]
  /\ UNCHANGED <<server, cookie, page, cred, awaits, retried, promise, path, mishaps, history>>

HandleLogout ==
  /\ Settled /\ identity # NoUser /\ pc[Logout] = "idle"
  /\ pc' = [pc EXCEPT ![Logout] = "sent"]
  /\ cred' = [cred EXCEPT ![Logout] = cookie]
  /\ UNCHANGED <<server, cookie, page, awaits, retried, promise, path, mishaps, history>>

-----------------------------------------------------------------------------
(* The server *)

Usable(t) == t \in issued \ (used \cup revoked)

Answer(c, a) == pc[c] = "sent" /\ pc' = [pc EXCEPT ![c] = a]

Grant(c, t, u, f) ==
  /\ t \in Tokens \ issued /\ \A s \in Tokens \ issued : t <= s
  /\ Answer(c, "grant")
  /\ cred' = [cred EXCEPT ![c] = t]
  /\ issued' = issued \cup {t}
  /\ owner' = [owner EXCEPT ![t] = u]
  /\ family' = [family EXCEPT ![t] = f]

NotServer == UNCHANGED <<cookie, page, awaits, retried, promise, path, mishaps>>

\* JwtAuthGuard, then a handler that may refuse; me never refuses.
ServeCall(i) ==
  /\ \/ /\ cred[Call(i)] \in stale \cup {NoToken}
        /\ Answer(Call(i), "tokenError")
     \/ /\ cred[Call(i)] \notin stale \cup {NoToken}
        /\ \E a \in {"ok", "refused"} : (i = Me => a = "ok") /\ Answer(Call(i), a)
  /\ NotServer
  /\ UNCHANGED <<server, cred, history>>

\* POST /auth/refresh: the throttler comes before the handler.
ServeRefresh(c) ==
  LET t == cred[c] IN
  /\ \/ /\ Answer(c, "limited")
        /\ UNCHANGED <<issued, owner, family, used, revoked, cred, reused>>
     \/ /\ Usable(t)
        /\ \E n \in Tokens : Grant(c, n, owner[t], family[t])
        /\ used' = used \cup {t}
        /\ UNCHANGED <<revoked, reused>>
     \/ /\ t \notin used \ revoked /\ ~Usable(t)
        /\ Answer(c, "denied")
        /\ UNCHANGED <<issued, owner, family, used, revoked, cred, reused>>
     \/ /\ t \in used \ revoked
        /\ Answer(c, "denied")
        /\ revoked' = revoked \cup {s \in issued : family[s] = family[t]}
        /\ reused' = TRUE
        /\ UNCHANGED <<issued, owner, family, used, cred>>
  /\ NotServer
  /\ UNCHANGED <<stale, lost, overtaken, left>>

ServeLogin ==
  /\ \/ /\ Answer(Login, "refused")
        /\ UNCHANGED <<issued, owner, family, cred>>
     \/ \E u \in Users, t \in Tokens : Grant(Login, t, u, t)
  /\ NotServer
  /\ UNCHANGED <<used, revoked, stale, history>>

\* revokes the presented token alone
ServeLogout ==
  /\ Answer(Logout, "ok")
  /\ revoked' = revoked \cup ({cred[Logout]} \ {NoToken})
  /\ NotServer
  /\ UNCHANGED <<issued, owner, family, used, stale, cred, history>>

\* Before or after it was served, a call fails on the network or in the proxy.
Fail(c) ==
  /\ pc[c] \in {"sent", "ok", "grant", "denied"}
  /\ pc' = [pc EXCEPT ![c] = "network"]
  /\ lost' = (lost \/ pc[c] = "grant")
  /\ Mishap
  /\ UNCHANGED <<server, cookie, page, cred, awaits, retried, promise, path, reused, overtaken, left>>

Expire(t) ==
  /\ t \in issued \ stale
  /\ stale' = stale \cup {t}
  /\ UNCHANGED <<issued, owner, family, used, revoked, cookie, page, calls, path, mishaps, history>>

-----------------------------------------------------------------------------
(* Answers *)

\* The page signs in or out: calls of the old state may still be under way.
Crossing(done) == overtaken' = (overtaken \/ \E c \in Calls \ done : UnderWay(c))

\* Seeded fault: the identity is dropped, the access token kept.
SignOut_KeepsToken(done) == UNCHANGED token /\ identity' = NoUser /\ Crossing(done)

SignOut(done) == token' = NoToken /\ identity' = NoUser /\ Crossing(done)

\* Seeded fault: every call that meets an expired token refreshes for itself.
RefreshAccessToken_NotShared(i) ==
  /\ promise' = i
  /\ awaits' = [awaits EXCEPT ![i] = i]
  /\ pc' = [pc EXCEPT ![Call(i)] = "waiting", ![Refresh(i)] = "sent"]
  /\ cred' = [cred EXCEPT ![Refresh(i)] = cookie]

\* refreshAccessToken: one call for all who ask while it is under way.
RefreshAccessToken(i) ==
  IF promise = NoRefresh
  THEN /\ promise' = i
       /\ awaits' = [awaits EXCEPT ![i] = i]
       /\ pc' = [pc EXCEPT ![Call(i)] = "waiting", ![Refresh(i)] = "sent"]
       /\ cred' = [cred EXCEPT ![Refresh(i)] = cookie]
  ELSE /\ awaits' = [awaits EXCEPT ![i] = promise]
       /\ pc' = [pc EXCEPT ![Call(i)] = "waiting"]
       /\ UNCHANGED <<promise, cred>>

\* A settled call is gone with what it carried.
Forget ==
  /\ cred' = [c \in Calls |-> IF pc'[c] = "idle" THEN NoToken ELSE cred[c]]
  /\ retried' = {i \in retried : pc'[Call(i)] # "idle"}

\* The first 401 with a token code: wait for a refresh.
DeliverTokenError(i) ==
  /\ pc[Call(i)] = "tokenError" /\ i \notin retried
  /\ retried' = retried \cup {i}
  /\ RefreshAccessToken(i)
  /\ UNCHANGED <<server, cookie, page, path, mishaps, history>>

\* The last answer.  The interceptor's catch around the retry signs the page
\* out whatever the retry failed with, and so does the bootstrap's around me.
DeliverCall(i) ==
  LET a == pc[Call(i)] IN
  /\ a \in {"ok", "refused", "network"} \/ (a = "tokenError" /\ i \in retried)
  /\ pc' = [pc EXCEPT ![Call(i)] = "idle"]
  /\ IF a = "ok"
     THEN /\ identity' = IF i = Me THEN owner[cred[Call(i)]] ELSE identity
          /\ UNCHANGED <<token, overtaken>>
     ELSE IF i \in retried \cup {Me} THEN SignOut({Call(i)})
          ELSE UNCHANGED <<token, identity, overtaken>>
  /\ booting' = (booting /\ i # Me)
  /\ Forget
  /\ UNCHANGED <<server, cookie, awaits, promise, path, mishaps, lost, reused, left>>

\* Cookies are set and cleared by the answer, whoever waits for it.
SetCookie(c) ==
  cookie' = IF pc[c] = "grant" THEN cred[c]
            ELSE IF pc[c] = "denied" \/ (c = Logout /\ pc[c] = "ok") THEN NoToken
            ELSE cookie

Waiting(i) == {j \in Callers : pc[Call(j)] = "waiting" /\ awaits[j] = i}

\* Seeded fault: only the call that started the refresh hears of it.
DeliverRefresh_FirstOnly(i) ==
  LET c == Refresh(i)
      again(x) == x \in {Call(j) : j \in Waiting(i) \cap {i}}
  IN
  /\ pc[c] \in Answers
  /\ SetCookie(c)
  /\ promise' = NoRefresh
  /\ awaits' = [j \in Callers |-> IF j \in Waiting(i) \cap {i} THEN NoRefresh ELSE awaits[j]]
  /\ IF pc[c] = "grant"
     THEN /\ token' = cred[c]
          /\ pc' = [x \in Calls |-> IF x = c THEN "idle" ELSE IF again(x) THEN "sent" ELSE pc[x]]
          /\ cred' = [x \in Calls |-> IF again(x) THEN cred[c] ELSE IF x = c THEN NoToken ELSE cred[x]]
          /\ UNCHANGED <<identity, booting, overtaken, retried>>
     ELSE /\ SignOut({x \in Calls : x = c \/ again(x)})
          /\ pc' = [x \in Calls |-> IF x = c \/ again(x) THEN "idle" ELSE pc[x]]
          /\ booting' = (booting /\ Me \notin Waiting(i))
          /\ Forget
  /\ UNCHANGED <<server, path, mishaps, lost, reused, left>>

\* Everyone who waits sends his call again with the new token, or gives up.
DeliverRefresh(i) ==
  LET c == Refresh(i)
      again(x) == x \in {Call(j) : j \in Waiting(i)}
  IN
  /\ pc[c] \in Answers
  /\ SetCookie(c)
  /\ promise' = NoRefresh
  /\ awaits' = [j \in Callers |-> IF j \in Waiting(i) THEN NoRefresh ELSE awaits[j]]
  /\ IF pc[c] = "grant"
     THEN /\ token' = cred[c]
          /\ pc' = [x \in Calls |-> IF x = c THEN "idle" ELSE IF again(x) THEN "sent" ELSE pc[x]]
          /\ cred' = [x \in Calls |-> IF again(x) THEN cred[c] ELSE IF x = c THEN NoToken ELSE cred[x]]
          /\ UNCHANGED <<identity, booting, overtaken, retried>>
     ELSE /\ SignOut({x \in Calls : x = c \/ again(x)})
          /\ pc' = [x \in Calls |-> IF x = c \/ again(x) THEN "idle" ELSE pc[x]]
          /\ booting' = (booting /\ Me \notin Waiting(i))
          /\ Forget
  /\ UNCHANGED <<server, path, mishaps, lost, reused, left>>

\* AuthProvider's bootstrap; its second half is Call(Me).
DeliverBoot ==
  /\ pc[Boot] \in Answers
  /\ SetCookie(Boot)
  /\ IF pc[Boot] = "grant"
     THEN /\ token' = cred[Boot]
          /\ pc' = [pc EXCEPT ![Boot] = "idle", ![Call(Me)] = "sent"]
          /\ cred' = [cred EXCEPT ![Call(Me)] = cred[Boot], ![Boot] = NoToken]
          /\ UNCHANGED <<identity, booting, overtaken>>
     ELSE /\ SignOut({Boot}) /\ booting' = FALSE
          /\ pc' = [pc EXCEPT ![Boot] = "idle"]
          /\ cred' = [cred EXCEPT ![Boot] = NoToken]
  /\ UNCHANGED <<server, awaits, retried, promise, path, mishaps, lost, reused, left>>

SignIn(t) == token' = t /\ identity' = owner[t]

DeliverLogin ==
  /\ pc[Login] \in Answers
  /\ SetCookie(Login)
  /\ pc' = [pc EXCEPT ![Login] = "idle"]
  /\ IF pc[Login] = "grant"
     THEN /\ SignIn(cred[Login])
          /\ path' = RoleLanding(RoleOf[owner[cred[Login]]])
          /\ left' = "no"
          /\ Crossing({Login})
     ELSE UNCHANGED <<token, identity, path, left, overtaken>>
  /\ Forget
  /\ UNCHANGED <<server, booting, awaits, promise, mishaps, lost, reused>>

\* Seeded fault: logout forgets who was shown.
DeliverLogout_KeepsIdentity ==
  /\ pc[Logout] \in Answers
  /\ SetCookie(Logout)
  /\ token' = NoToken /\ Crossing({Logout})
  /\ pc' = [pc EXCEPT ![Logout] = "idle"]
  /\ left' = IF pc[Logout] = "ok" THEN "quietly" ELSE left
  /\ Forget
  /\ UNCHANGED <<server, identity, booting, awaits, promise, path, mishaps, lost, reused>>

\* A failed logout drops the page's session all the same.
DeliverLogout ==
  /\ pc[Logout] \in Answers
  /\ SetCookie(Logout)
  /\ SignOut({Logout})
  /\ pc' = [pc EXCEPT ![Logout] = "idle"]
  /\ path' = "login"
  /\ left' = IF pc[Logout] # "ok" THEN left
             ELSE IF promise = NoRefresh THEN "quietly" ELSE "overtaken"
  /\ Forget
  /\ UNCHANGED <<server, booting, awaits, promise, mishaps, lost, reused>>

-----------------------------------------------------------------------------
ServeAny ==
  \/ \E i \in Callers : ServeCall(i)
  \/ \E c \in Refreshes : ServeRefresh(c)
  \/ ServeLogin \/ ServeLogout

DeliverAny ==
  \/ \E i \in Callers : DeliverTokenError(i) \/ DeliverCall(i) \/ DeliverRefresh(i)
  \/ DeliverBoot \/ DeliverLogin \/ DeliverLogout

Next ==
  \/ ServeAny \/ DeliverAny \/ Redirect
  \/ \E i \in Callers : SendData(i)
  \/ LoginSubmit \/ HandleLogout
  \/ \E p \in Paths : Follow(p) \/ Reload(p)
  \/ \E c \in Calls : Fail(c)
  \/ \E t \in Tokens : Expire(t)

\* Calls are answered, if only by the proxy that gives up on a silent server,
\* and answers reach the page.  Nothing is assumed of the user.
Fairness ==
  /\ \A i \in Callers : WF_vars(ServeCall(i) \/ DeliverTokenError(i) \/ DeliverCall(i))
  /\ WF_vars(\/ \E c \in Refreshes : ServeRefresh(c)
             \/ \E i \in Callers : DeliverRefresh(i)
             \/ DeliverBoot)

Spec == Init /\ [][Next]_vars /\ Fairness

-----------------------------------------------------------------------------
(* Properties *)

TypeOK ==
  /\ issued \subseteq Tokens /\ used \subseteq issued
  /\ revoked \subseteq issued /\ stale \subseteq issued
  /\ owner \in [Tokens -> Users \cup {NoUser}]
  /\ family \in [Tokens -> Tokens \cup {NoToken}]
  /\ {cookie, token} \subseteq issued \cup {NoToken}
  /\ identity \in Users \cup {NoUser} /\ booting \in BOOLEAN
  /\ pc \in [Calls -> {"idle", "sent", "waiting"} \cup Answers]
  /\ cred \in [Calls -> issued \cup {NoToken}]
  /\ awaits \in [Callers -> Callers \cup {NoRefresh}]
  /\ promise \in Callers \cup {NoRefresh}
  /\ retried \subseteq Callers
  /\ path \in Paths /\ mishaps \in 0 .. MaxMishaps
  /\ {lost, reused, overtaken} \subseteq BOOLEAN
  /\ left \in {"no", "quietly", "overtaken"}

AtRest == \A c \in Calls : ~UnderWay(c)

\* Reuse detection closes the session of an honest page only after an answer
\* with a new cookie got lost (AuthProvider.tsx:25-27).
NoSelfInflictedReuse == reused => lost

\* When nothing is under way, the page shows somebody exactly if it holds a
\* token, the token is his, and the cookie continues the same session - as
\* long as no answer was lost and no call outlived the session it was made in.
SessionIsWhole ==
  AtRest /\ ~booting /\ ~lost /\ ~overtaken =>
    /\ identity = NoUser <=> token = NoToken
    /\ identity # NoUser =>
         /\ owner[token] = identity
         /\ Usable(cookie) /\ family[cookie] = family[token]

\* After an answered logout nothing but a login brings anybody back, calls
\* that are still under way and page loads included, if no refresh was under
\* way as the logout was answered (AuthProvider.tsx:56-65).
QuietLogoutSticks == left = "quietly" => identity = NoUser

\* docs/08-test-plan.md:125 says so of every logout.
LogoutSticks == left # "no" => identity = NoUser

\* Nobody is stranded: a call settles, also one that waits for a refresh it
\* did not start, and the splash screen goes away (api-client.ts:67,
\* App.tsx:13).  Data calls are alike: the last stands for each.
EveryCallSettles ==
  /\ UnderWay(Call(NData)) ~> ~UnderWay(Call(NData))
  /\ booting ~> ~booting
=============================================================================
