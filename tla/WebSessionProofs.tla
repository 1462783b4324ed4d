-------------------------- MODULE WebSessionProofs --------------------------
(***************************************************************************)
(* What the session of WebSession keeps, for any number of users, calls,   *)
(* grants and page loads: an honest page is not taken for a thief, at rest *)
(* identity, token and cookie belong together, and a logout that nothing   *)
(* crosses is final.  They rest on who holds which grant while calls       *)
(* overtake each other: at most one refresh is under way, and a grant that *)
(* is on its way is nobody else's credential.                              *)
(***************************************************************************)
EXTENDS WebSession, TLAPS

\* The calls about the session: what they carry is a refresh token.
Bearers == Refreshes \cup {Login, Logout}

Exchanging == \E c \in Refreshes : pc[c] = "grant"

SameSession(s, t) ==
  {s, t} \subseteq issued /\ owner[s] = owner[t] /\ family[s] = family[t]

Owned == \A t \in issued : owner[t] \in Users

\* Only a call with a token is answered well.
Served == \A i \in Callers : pc[Call(i)] = "ok" => cred[Call(i)] \in issued

\* A refresh under way is the shared one, whose caller waits for it, or the
\* bootstrap's, which is alone.
OneRefresh ==
  /\ \A i \in Callers : UnderWay(Refresh(i)) => promise = i /\ pc[Call(i)] = "waiting"
  /\ UnderWay(Boot) => booting /\ \A c \in Calls \ {Boot} : ~UnderWay(c)
  /\ UnderWay(Call(Me)) => booting
  /\ booting => \A c \in Calls \ {Boot, Call(Me), Refresh(Me)} : ~UnderWay(c)

\* A grant on its way is new to everybody; logout is never given one.
GrantsFresh ==
  \A c \in Bearers : pc[c] = "grant" =>
    /\ c # Logout /\ cred[c] \in issued \ used
    /\ cred[c] # cookie
    /\ \A d \in Bearers \ {c} : cred[d] # cred[c]

\* Unless a grant was lost, nothing that was exchanged can be presented again.
NothingToReuse ==
  ~lost =>
    /\ ~reused
    /\ cookie \in used => Exchanging
    /\ \A c \in Refreshes : pc[c] = "sent" => cred[c] \notin used
    /\ \A c \in Bearers : pc[c] = "grant" => cred[c] \notin revoked

\* Identity and token go together, and without a token nothing is under way.
PageWhole ==
  /\ booting => identity = NoUser
  /\ ~booting => (identity = NoUser <=> token = NoToken)
  /\ ~booting /\ token # NoToken => owner[token] = identity
  /\ token = NoToken => \A c \in Calls \ {Login, Boot} : ~UnderWay(c)
  /\ pc[Call(Me)] \in {"sent", "ok"} => cred[Call(Me)] = token

\* Token, cookie and the refresh under way belong to one session.
OneSession ==
  token # NoToken =>
    /\ ~UnderWay(Login) /\ ~UnderWay(Boot)
    /\ SameSession(cookie, token)
    /\ \A c \in Refreshes : pc[c] \in {"sent", "grant"} => SameSession(cred[c], token)
    /\ pc[Logout] \in {"idle", "sent"} /\ ~Exchanging => cookie \notin revoked

Whole == ~lost /\ ~overtaken => PageWhole /\ OneSession

\* After a quiet logout nothing is left that could bring anybody back.
Quiet ==
  left = "quietly" =>
    /\ identity = NoUser /\ cookie = NoToken
    /\ ~UnderWay(Call(Me))
    /\ \A c \in Refreshes : pc[c] # "grant" /\ (pc[c] = "sent" => cred[c] = NoToken)

Inv ==
  /\ TypeOK /\ Owned /\ Served /\ OneRefresh
  /\ GrantsFresh /\ NothingToReuse
  /\ Whole /\ Quiet

-----------------------------------------------------------------------------
\* Calls of different kinds, and of different callers, are different.
LEMMA Names ==
  /\ \A i \in Callers : Call(i) \in Calls /\ Refresh(i) \in Refreshes
  /\ \A i, j \in Callers : Call(i) = Call(j) \/ Refresh(i) = Refresh(j) => i = j
  /\ \A i \in Callers : Call(i) \notin Bearers /\ Refresh(i) # Boot
  /\ \A c \in Refreshes : c = Boot \/ \E i \in Callers : c = Refresh(i)
  /\ \A c \in Calls : c \in Bearers \/ \E i \in Callers : c = Call(i)
  /\ Bearers \subseteq Calls /\ Refreshes \subseteq Bearers
  /\ {Login, Logout} \subseteq Bearers /\ Boot \in Refreshes
  /\ Login \notin Refreshes /\ Logout \notin Refreshes /\ Login # Logout
  /\ Me \in Callers /\ NoRefresh \notin Callers
  /\ NoToken \notin Tokens
BY WebAssumption
   DEF Call, Refresh, Boot, Login, Logout, Calls, Refreshes, Bearers, Callers, Me, NoRefresh,
       NoToken, Tokens

LEMMA InitSound == Init => Inv
<1> SUFFICES ASSUME Init PROVE Inv
    OBVIOUS
<1>1. TypeOK
  <2>1. pc \in [Calls -> {"idle", "sent", "waiting"} \cup Answers]
    BY DEF Init, Idle
  <2>2. mishaps \in 0 .. MaxMishaps
    BY WebAssumption DEF Init
  <2> QED BY <2>1, <2>2 DEF Init, TypeOK, Paths
<1>2. pc[Boot] = "sent" /\ \A c \in Calls \ {Boot} : ~UnderWay(c)
  BY Names DEF Init, Idle, UnderWay
<1>3. OneRefresh
  BY <1>2, Names DEF OneRefresh, Init, UnderWay
<1>4. \A c \in Calls : cred[c] = NoToken /\ pc[c] # "grant"
  BY <1>2, Names DEF Init, UnderWay
<1>5. Owned /\ Served /\ GrantsFresh /\ NothingToReuse
  BY <1>2, <1>4, Names DEF Init, Owned, Served, UnderWay, GrantsFresh, NothingToReuse
<1>6. Whole
  BY <1>2, <1>4, Names DEF Init, Whole, PageWhole, OneSession
<1>7. Quiet
  BY <1>2, <1>4, Names DEF Init, Quiet
<1> QED BY <1>1, <1>3, <1>5, <1>6, <1>7 DEF Inv

-----------------------------------------------------------------------------
\* The types.
LEMMA TypesKept ==
  ASSUME TypeOK, Owned, Served, GrantsFresh, Next
  PROVE  TypeOK' /\ Owned'
<1> USE Names
<1>1. CASE Redirect \/ \E p \in Paths : Follow(p)
  <2>1. path' \in Paths
    BY <1>1 DEF Redirect, Follow, Target, ProtectedRoute, IndexRedirect, RoleRoute, RoleLanding,
                Paths, Areas, TypeOK
  <2>2. UNCHANGED <<server, cookie, page, calls, mishaps, history>>
    BY <1>1 DEF Redirect, Follow
  <2> QED BY <2>1, <2>2 DEF TypeOK, Owned, server, page, calls, history
<1>2. CASE \E p \in Paths : Reload(p)
  <2> PICK p \in Paths : Reload(p)
    BY <1>2
  <2>1. pc' \in [Calls -> {"idle", "sent", "waiting"} \cup Answers]
    BY DEF Reload, Loaded, Idle
  <2>2. cred' \in [Calls -> issued \cup {NoToken}]
    BY DEF Reload, Loaded, TypeOK
  <2>3. mishaps' \in 0 .. MaxMishaps
    BY WebAssumption DEF Reload, Mishap, TypeOK
  <2>4. lost' \in BOOLEAN
    BY Zenon DEF Reload
  <2> QED BY <2>1, <2>2, <2>3, <2>4 DEF Reload, Loaded, TypeOK, Owned, server
<1>3. CASE (\E i \in Callers : SendData(i)) \/ LoginSubmit \/ HandleLogout
  BY <1>3 DEF SendData, LoginSubmit, HandleLogout, TypeOK, Owned, server, page, history
<1>4. CASE ServeAny
  <2>1. CASE \E i \in Callers : ServeCall(i)
    BY <1>4, <2>1 DEF ServeCall, NotServer, Answer, Answers, TypeOK, Owned, server, page, history
  <2>2. CASE \E c \in Refreshes : ServeRefresh(c)
    <3> PICK c \in Refreshes : ServeRefresh(c)
      BY <2>2
    <3>1. CASE \E n \in Tokens : Grant(c, n, owner[cred[c]], family[cred[c]]) /\ Usable(cred[c])
      <4> PICK n \in Tokens : Grant(c, n, owner[cred[c]], family[cred[c]])
        BY <3>1
      <4>1. pc' \in [Calls -> {"idle", "sent", "waiting"} \cup Answers]
        BY DEF Grant, Answer, Answers, TypeOK
      <4>2. /\ cred' \in [Calls -> issued' \cup {NoToken}]
            /\ issued' = issued \cup {n} /\ issued' \subseteq Tokens
        BY DEF Grant, TypeOK
      <4>3. /\ owner' \in [Tokens -> Users \cup {NoUser}] /\ Owned'
            /\ family' \in [Tokens -> Tokens \cup {NoToken}]
        BY <3>1 DEF Grant, Usable, TypeOK, Owned
      <4>4. used' \subseteq issued' /\ UNCHANGED <<revoked, reused>>
        BY <3>1, <4>2 DEF ServeRefresh, Usable, Grant, Answer, TypeOK
      <4> QED BY <4>1, <4>2, <4>3, <4>4 DEF ServeRefresh, NotServer, TypeOK, page
    <3>2. CASE UNCHANGED <<issued, owner, family, used, cred>>
      <4>1. pc' \in [Calls -> {"idle", "sent", "waiting"} \cup Answers]
        BY DEF ServeRefresh, Grant, Answer, Answers, TypeOK
      <4>2. revoked' \subseteq issued
        BY <3>2 DEF ServeRefresh, TypeOK
      <4>3. reused' \in BOOLEAN
        BY DEF ServeRefresh, TypeOK
      <4> QED BY <3>2, <4>1, <4>2, <4>3 DEF ServeRefresh, NotServer, TypeOK, Owned, page
    <3> QED BY <3>1, <3>2 DEF ServeRefresh
  <2>3. CASE ServeLogin
    BY <1>4, <2>3 DEF ServeLogin, Grant, NotServer, Answer, Answers, TypeOK, Owned, page, history
  <2>4. CASE ServeLogout
    BY <1>4, <2>4 DEF ServeLogout, NotServer, Answer, Answers, TypeOK, Owned, page, history
  <2> QED BY <1>4, <2>1, <2>2, <2>3, <2>4 DEF ServeAny
<1>5. CASE \E c \in Calls : Fail(c)
  <2> PICK c \in Calls : Fail(c)
    BY <1>5
  <2>1. lost' \in BOOLEAN
    BY Zenon DEF Fail
  <2>2. mishaps' \in 0 .. MaxMishaps
    BY WebAssumption DEF Fail, Mishap, TypeOK
  <2> QED BY <2>1, <2>2 DEF Fail, Answers, TypeOK, Owned, server, page
<1>6. CASE \E t \in Tokens : Expire(t)
  BY <1>6 DEF Expire, TypeOK, Owned, page, calls, history
<1>7. CASE DeliverAny
  <2>1. CASE \E i \in Callers : DeliverTokenError(i)
    BY <2>1 DEF DeliverTokenError, RefreshAccessToken, TypeOK, Owned, server, page, history
  <2>2. CASE \E i \in Callers : DeliverCall(i)
    <3> PICK i \in Callers : DeliverCall(i)
      BY <2>2
    <3>1. overtaken' \in BOOLEAN /\ booting' \in BOOLEAN
      BY Zenon DEF DeliverCall, SignOut, Crossing, TypeOK
    <3>2. pc' \in [Calls -> {"idle", "sent", "waiting"} \cup Answers]
      BY DEF DeliverCall, TypeOK
    <3>3. cred' \in [Calls -> issued \cup {NoToken}] /\ retried' \subseteq Callers
      BY DEF DeliverCall, Forget, TypeOK
    <3>4. token' \in issued \cup {NoToken} /\ identity' \in Users \cup {NoUser}
      BY DEF DeliverCall, SignOut, TypeOK, Owned, Served
    <3>5. UNCHANGED <<server, cookie, awaits, promise, path, mishaps, lost, reused, left>>
      BY DEF DeliverCall
    <3> QED BY <3>1, <3>2, <3>3, <3>4, <3>5 DEF TypeOK, Owned, server
  <2>3. CASE \E i \in Callers : DeliverRefresh(i)
    <3> PICK i \in Callers : DeliverRefresh(i)
      BY <2>3
    <3>1. overtaken' \in BOOLEAN /\ booting' \in BOOLEAN
      BY Zenon DEF DeliverRefresh, SignOut, Crossing, TypeOK
    <3>2. pc' \in [Calls -> {"idle", "sent", "waiting"} \cup Answers]
      BY DEF DeliverRefresh, TypeOK
    <3>3. cred' \in [Calls -> issued \cup {NoToken}] /\ retried' \subseteq Callers
      BY DEF DeliverRefresh, Forget, TypeOK
    <3>4. {cookie', token'} \subseteq issued \cup {NoToken} /\ identity' \in Users \cup {NoUser}
      BY DEF DeliverRefresh, SignOut, SetCookie, TypeOK
    <3>5. awaits' \in [Callers -> Callers \cup {NoRefresh}] /\ promise' = NoRefresh
      BY DEF DeliverRefresh, TypeOK
    <3>6. UNCHANGED <<server, path, mishaps, lost, reused, left>>
      BY DEF DeliverRefresh
    <3> QED BY <3>1, <3>2, <3>3, <3>4, <3>5, <3>6 DEF TypeOK, Owned, server
  <2>4. CASE DeliverBoot
    <3>1. overtaken' \in BOOLEAN /\ booting' \in BOOLEAN
      BY <2>4, Zenon DEF DeliverBoot, SignOut, Crossing, TypeOK
    <3>2. pc' \in [Calls -> {"idle", "sent", "waiting"} \cup Answers]
      BY <2>4 DEF DeliverBoot, TypeOK
    <3>3. cred' \in [Calls -> issued \cup {NoToken}]
      BY <2>4 DEF DeliverBoot, TypeOK
    <3>4. {cookie', token'} \subseteq issued \cup {NoToken} /\ identity' \in Users \cup {NoUser}
      BY <2>4 DEF DeliverBoot, SignOut, SetCookie, TypeOK
    <3>5. UNCHANGED <<server, awaits, retried, promise, path, mishaps, lost, reused, left>>
      BY <2>4 DEF DeliverBoot
    <3> QED BY <3>1, <3>2, <3>3, <3>4, <3>5 DEF TypeOK, Owned, server
  <2>5. CASE DeliverLogin
    <3>1. overtaken' \in BOOLEAN
      BY <2>5, Zenon DEF DeliverLogin, Crossing, TypeOK
    <3>2. path' \in Paths
      BY <2>5 DEF DeliverLogin, RoleLanding, Paths, Areas, TypeOK
    <3>3. pc' \in [Calls -> {"idle", "sent", "waiting"} \cup Answers]
      BY <2>5 DEF DeliverLogin, TypeOK
    <3>4. cred' \in [Calls -> issued \cup {NoToken}] /\ retried' \subseteq Callers
      BY <2>5 DEF DeliverLogin, Forget, TypeOK
    <3>5. {cookie', token'} \subseteq issued \cup {NoToken} /\ identity' \in Users \cup {NoUser}
      BY <2>5 DEF DeliverLogin, SignIn, SetCookie, TypeOK, Owned, GrantsFresh
    <3>6. UNCHANGED <<server, booting, awaits, promise, mishaps, lost, reused>>
          /\ left' \in {"no", left}
      BY <2>5 DEF DeliverLogin
    <3> QED BY <3>1, <3>2, <3>3, <3>4, <3>5, <3>6 DEF TypeOK, Owned, server
  <2>6. CASE DeliverLogout
    <3>1. overtaken' \in BOOLEAN
      BY <2>6, Zenon DEF DeliverLogout, SignOut, Crossing, TypeOK
    <3>2. pc' \in [Calls -> {"idle", "sent", "waiting"} \cup Answers]
      BY <2>6 DEF DeliverLogout, TypeOK
    <3>3. cred' \in [Calls -> issued \cup {NoToken}] /\ retried' \subseteq Callers
      BY <2>6 DEF DeliverLogout, Forget, TypeOK
    <3>4. {cookie', token'} \subseteq issued \cup {NoToken} /\ identity' = NoUser
      BY <2>6 DEF DeliverLogout, SignOut, SetCookie, TypeOK
    <3>5. /\ UNCHANGED <<server, booting, awaits, promise, mishaps, lost, reused>>
          /\ path' = "login" /\ left' \in {"quietly", "overtaken", left}
      BY <2>6 DEF DeliverLogout
    <3> QED BY <3>1, <3>2, <3>3, <3>4, <3>5 DEF TypeOK, Owned, server, Paths
  <2> QED BY <1>7, <2>1, <2>2, <2>3, <2>4, <2>5, <2>6 DEF DeliverAny
<1> QED BY <1>1, <1>2, <1>3, <1>4, <1>5, <1>6, <1>7 DEF Next

\* A call that only the page or the network has touched keeps what it carries.
LEMMA ServedKept ==
  ASSUME TypeOK, Served, Next
  PROVE  Served'
<1> USE Names
<1> SUFFICES ASSUME NEW i \in Callers, (pc[Call(i)] = "ok")'
             PROVE  (cred[Call(i)] \in issued)'
  BY DEF Served
<1>1. CASE pc[Call(i)] = "ok" /\ cred'[Call(i)] = cred[Call(i)] /\ issued \subseteq issued'
  BY <1>1 DEF Served
<1>2. CASE ServeAny
  <2>1. CASE \E j \in Callers : ServeCall(j)
    BY <1>1, <2>1 DEF ServeCall, Answer, TypeOK, server
  <2>2. CASE \E c \in Refreshes : ServeRefresh(c)
    BY <1>1, <2>2 DEF ServeRefresh, Grant, Answer, TypeOK
  <2>3. CASE ServeLogin \/ ServeLogout
    BY <1>1, <2>3 DEF ServeLogin, ServeLogout, Grant, Answer, TypeOK
  <2> QED BY <1>2, <2>1, <2>2, <2>3 DEF ServeAny
<1>3. CASE DeliverAny
  <2>1. CASE \E j \in Callers : DeliverTokenError(j)
    BY <1>1, <2>1 DEF DeliverTokenError, RefreshAccessToken, TypeOK, server
  <2>2. CASE \E j \in Callers : DeliverCall(j)
    BY <1>1, <2>2 DEF DeliverCall, Forget, TypeOK, server
  <2>3. CASE \E j \in Callers : DeliverRefresh(j)
    BY <1>1, <2>3 DEF DeliverRefresh, Forget, TypeOK, server
  <2>4. CASE DeliverBoot
    BY <1>1, <2>4 DEF DeliverBoot, TypeOK, server
  <2>5. CASE DeliverLogin \/ DeliverLogout
    BY <1>1, <2>5 DEF DeliverLogin, DeliverLogout, Forget, TypeOK, server
  <2> QED BY <1>3, <2>1, <2>2, <2>3, <2>4, <2>5 DEF DeliverAny
<1>4. CASE \/ Redirect \/ LoginSubmit \/ HandleLogout
           \/ \E j \in Callers : SendData(j)
           \/ \E p \in Paths : Follow(p) \/ Reload(p)
           \/ \E c \in Calls : Fail(c)
           \/ \E t \in Tokens : Expire(t)
  BY <1>1, <1>4 DEF Redirect, LoginSubmit, HandleLogout, SendData, Follow, Reload, Loaded, Idle, Fail,
                    Expire, TypeOK, server, calls
<1> QED BY <1>2, <1>3, <1>4 DEF Next

-----------------------------------------------------------------------------
\* One refresh at a time: the bootstrap's while nothing else is under way, and
\* the shared one, which the others join.
LEMMA OneRefreshKept ==
  ASSUME TypeOK, OneRefresh, Next
  PROVE  OneRefresh'
<1> USE Names DEF OneRefresh, UnderWay
<1>1. CASE Redirect \/ (\E p \in Paths : Follow(p)) \/ (\E t \in Tokens : Expire(t))
  BY <1>1 DEF Redirect, Follow, Expire, page, calls
<1>2. CASE \E p \in Paths : Reload(p)
  BY <1>2 DEF Reload, Loaded, Idle
<1>3. CASE (\E i \in Callers : SendData(i)) \/ LoginSubmit \/ HandleLogout
  BY <1>3 DEF SendData, LoginSubmit, HandleLogout, Settled, TypeOK, page
<1>4. ASSUME NEW c \in Calls, pc[c] \notin {"idle", "waiting"}, NEW a, pc' = [pc EXCEPT ![c] = a], UNCHANGED <<promise, booting>>
      PROVE  OneRefresh'
  BY <1>4 DEF TypeOK
<1>5. CASE ServeAny
  <2>1. CASE \E i \in Callers : ServeCall(i)
    BY <1>4, <2>1 DEF ServeCall, Answer, NotServer, page
  <2>2. CASE \E c \in Refreshes : ServeRefresh(c)
    BY <1>4, <2>2 DEF ServeRefresh, Grant, Answer, NotServer, page
  <2>3. CASE ServeLogin \/ ServeLogout
    BY <1>4, <2>3 DEF ServeLogin, ServeLogout, Grant, Answer, NotServer, page
  <2> QED BY <1>5, <2>1, <2>2, <2>3 DEF ServeAny
<1>6. CASE \E c \in Calls : Fail(c)
  BY <1>4, <1>6 DEF Fail, page
<1>7. CASE DeliverAny
  <2>1. CASE \E i \in Callers : DeliverTokenError(i)
    BY <2>1 DEF DeliverTokenError, RefreshAccessToken, TypeOK, page
  <2>2. CASE \E i \in Callers : DeliverCall(i)
    BY <2>2 DEF DeliverCall, TypeOK
  <2>3. CASE \E i \in Callers : DeliverRefresh(i)
    BY <2>3 DEF DeliverRefresh, Waiting, TypeOK, Answers
  <2>4. CASE DeliverBoot
    BY <2>4 DEF DeliverBoot, TypeOK, Answers
  <2>5. CASE DeliverLogin \/ DeliverLogout
    BY <2>5 DEF DeliverLogin, DeliverLogout, TypeOK
  <2> QED BY <1>7, <2>1, <2>2, <2>3, <2>4, <2>5 DEF DeliverAny
<1> QED BY <1>1, <1>2, <1>3, <1>5, <1>6, <1>7 DEF Next

\* What a step may do to the calls about the session without a grant: of a
\* call that has none, and ends so, the credential may become the cookie's.
Handled(c) ==
  /\ pc'[c] = "grant" => pc[c] = "grant"
  /\ cred'[c] = cred[c] \/ (pc'[c] # "grant" /\ cred'[c] \in {cookie, NoToken})

LEMMA StepsHandle ==
  ASSUME TypeOK
  PROVE  /\ Redirect \/ LoginSubmit \/ HandleLogout => \A c \in Bearers : Handled(c)
         /\ \A i \in Callers : SendData(i) \/ ServeCall(i) \/ DeliverTokenError(i)
              \/ DeliverCall(i) \/ DeliverRefresh(i) => \A c \in Bearers : Handled(c)
         /\ \A p \in Paths : Follow(p) \/ Reload(p) => \A c \in Bearers : Handled(c)
         /\ \A t \in Tokens : Expire(t) => \A c \in Bearers : Handled(c)
         /\ \A d \in Calls : Fail(d) => \A c \in Bearers : Handled(c)
         /\ ServeLogout \/ DeliverBoot \/ DeliverLogin \/ DeliverLogout => \A c \in Bearers : Handled(c)
<1> USE Names
<1>1. ASSUME Redirect \/ LoginSubmit \/ HandleLogout, NEW c \in Bearers PROVE Handled(c)
  BY <1>1 DEF Redirect, LoginSubmit, HandleLogout, Handled, TypeOK, calls
<1>2. ASSUME NEW i \in Callers, SendData(i) \/ ServeCall(i), NEW c \in Bearers PROVE Handled(c)
  BY <1>2 DEF SendData, ServeCall, Answer, Handled, TypeOK
<1>3. ASSUME NEW i \in Callers, DeliverTokenError(i), NEW c \in Bearers PROVE Handled(c)
  BY <1>3 DEF DeliverTokenError, RefreshAccessToken, Handled, TypeOK
<1>4. ASSUME NEW i \in Callers, DeliverCall(i), NEW c \in Bearers PROVE Handled(c)
  BY <1>4 DEF DeliverCall, Forget, Handled, TypeOK
<1>5. ASSUME NEW i \in Callers, DeliverRefresh(i), NEW c \in Bearers PROVE Handled(c)
  BY <1>5 DEF DeliverRefresh, Waiting, Forget, Handled, TypeOK
<1>6. ASSUME NEW p \in Paths, Follow(p) \/ Reload(p), NEW c \in Bearers PROVE Handled(c)
  BY <1>6 DEF Follow, Reload, Loaded, Idle, Handled, TypeOK, calls
<1>7. ASSUME NEW t \in Tokens, Expire(t), NEW c \in Bearers PROVE Handled(c)
  BY <1>7 DEF Expire, Handled, calls
<1>8. ASSUME NEW d \in Calls, Fail(d), NEW c \in Bearers PROVE Handled(c)
  BY <1>8 DEF Fail, Handled, TypeOK
<1>9. ASSUME ServeLogout \/ DeliverBoot, NEW c \in Bearers PROVE Handled(c)
  BY <1>9 DEF ServeLogout, DeliverBoot, Answer, Handled, TypeOK
<1>10. ASSUME DeliverLogin \/ DeliverLogout, NEW c \in Bearers PROVE Handled(c)
  BY <1>10 DEF DeliverLogin, DeliverLogout, Forget, Handled, TypeOK
<1> QED BY <1>1, <1>2, <1>3, <1>4, <1>5, <1>6, <1>7, <1>8, <1>9, <1>10
\* The cookie of a step that grants nothing: kept, cleared, or the grant that
\* has just arrived.
Jar ==
  \/ cookie' \in {cookie, NoToken}
  \/ \E c \in Bearers : pc[c] = "grant" /\ pc'[c] # "grant" /\ cookie' = cred[c]

\* A step without a new grant.
Carried == issued' = issued /\ used' = used /\ Jar /\ \A c \in Bearers : Handled(c)

LEMMA StepsCarry ==
  ASSUME TypeOK, Next
  PROVE  \/ Carried
         \/ \E c \in Refreshes : ServeRefresh(c)
         \/ ServeLogin
<1> USE Names
<1>1. CASE Redirect \/ LoginSubmit \/ HandleLogout \/ (\E i \in Callers : SendData(i))
  <2>1. \A c \in Bearers : Handled(c)
    BY <1>1, StepsHandle
  <2>2. issued' = issued /\ used' = used /\ cookie' = cookie
    BY <1>1 DEF Redirect, LoginSubmit, HandleLogout, SendData, server
  <2> QED BY <2>1, <2>2 DEF Carried, Jar
<1>2. CASE (\E p \in Paths : Follow(p) \/ Reload(p)) \/ (\E c \in Calls : Fail(c)) \/ (\E t \in Tokens : Expire(t))
  <2>1. \A c \in Bearers : Handled(c)
    BY <1>2, StepsHandle
  <2>2. issued' = issued /\ used' = used /\ cookie' = cookie
    BY <1>2 DEF Follow, Reload, Fail, Expire, server
  <2> QED BY <2>1, <2>2 DEF Carried, Jar
<1>3. CASE ServeLogout \/ (\E i \in Callers : ServeCall(i) \/ DeliverTokenError(i) \/ DeliverCall(i))
  <2>1. \A c \in Bearers : Handled(c)
    BY <1>3, StepsHandle
  <2>2. issued' = issued /\ used' = used /\ cookie' = cookie
    BY <1>3 DEF ServeLogout, NotServer, ServeCall, DeliverTokenError, DeliverCall, server
  <2> QED BY <2>1, <2>2 DEF Carried, Jar
<1>4. ASSUME NEW c \in Bearers, SetCookie(c), pc'[c] # "grant" PROVE Jar
  BY <1>4 DEF SetCookie, Jar
<1>5. CASE \E i \in Callers : DeliverRefresh(i)
  <2> PICK i \in Callers : DeliverRefresh(i)
    BY <1>5
  <2>1. \A c \in Bearers : Handled(c)
    BY StepsHandle
  <2>2. issued' = issued /\ used' = used /\ SetCookie(Refresh(i))
    BY DEF DeliverRefresh, server
  <2>3. pc'[Refresh(i)] # "grant"
    BY DEF DeliverRefresh
  <2> QED BY <1>4, <2>1, <2>2, <2>3 DEF Carried
<1>6. CASE DeliverBoot
  <2>1. \A c \in Bearers : Handled(c)
    BY <1>6, StepsHandle
  <2>2. issued' = issued /\ used' = used /\ SetCookie(Boot)
    BY <1>6 DEF DeliverBoot, server
  <2>3. pc'[Boot] # "grant"
    BY <1>6 DEF DeliverBoot, TypeOK
  <2> QED BY <1>4, <2>1, <2>2, <2>3 DEF Carried
<1>7. CASE DeliverLogin \/ DeliverLogout
  <2>1. \A c \in Bearers : Handled(c)
    BY <1>7, StepsHandle
  <2>2. PICK c \in {Login, Logout} : SetCookie(c) /\ pc'[c] # "grant"
    BY <1>7 DEF DeliverLogin, DeliverLogout, TypeOK
  <2>3. issued' = issued /\ used' = used
    BY <1>7 DEF DeliverLogin, DeliverLogout, server
  <2> QED BY <1>4, <2>1, <2>2, <2>3 DEF Carried
<1> QED BY <1>1, <1>2, <1>3, <1>5, <1>6, <1>7 DEF Next, ServeAny, DeliverAny

\* A grant is the next number, so nobody can have it yet.
LEMMA GrantsFreshKept ==
  ASSUME TypeOK, GrantsFresh, Next
  PROVE  GrantsFresh'
<1> USE Names
<1>1. CASE Carried
  <2> SUFFICES ASSUME NEW c \in Bearers, pc'[c] = "grant"
               PROVE  /\ c # Logout /\ cred'[c] \in issued' \ used'
                      /\ cred'[c] # cookie'
                      /\ \A d \in Bearers \ {c} : cred'[d] # cred'[c]
    BY DEF GrantsFresh
  <2>1. pc[c] = "grant" /\ cred'[c] = cred[c]
    BY <1>1 DEF Carried, Handled
  <2>2. /\ c # Logout /\ cred[c] \in issued \ used /\ cred[c] # cookie
        /\ \A d \in Bearers \ {c} : cred[d] # cred[c]
    BY <2>1 DEF GrantsFresh
  <2>3. cred[c] # NoToken
    BY <2>2 DEF TypeOK
  <2>4. cred'[c] # cookie'
    BY <1>1, <2>1, <2>2, <2>3 DEF Carried, Jar
  <2>5. ASSUME NEW d \in Bearers \ {c} PROVE cred'[d] # cred'[c]
    BY <1>1, <2>1, <2>2, <2>3 DEF Carried, Handled
  <2> QED BY <1>1, <2>1, <2>2, <2>4, <2>5 DEF Carried
<1>2. ASSUME NEW c \in Bearers \ {Logout}, NEW n, NEW u, NEW f, Grant(c, n, u, f), cookie' = cookie,
             used' \subseteq used \cup {cred[c]}, cred[c] # n
      PROVE  GrantsFresh'
  <2>1. /\ n \in Tokens /\ n \notin issued /\ issued' = issued \cup {n}
        /\ pc' = [pc EXCEPT ![c] = "grant"] /\ cred' = [cred EXCEPT ![c] = n]
    BY <1>2 DEF Grant, Answer
  <2>2. n # cookie /\ n \notin used' /\ n # NoToken /\ \A d \in Bearers : cred[d] # n
    BY <1>2, <2>1 DEF TypeOK
  <2>3. pc[c] = "sent"
    BY <1>2 DEF Grant, Answer
  <2> SUFFICES ASSUME NEW d \in Bearers, pc'[d] = "grant"
               PROVE  /\ d # Logout /\ cred'[d] \in issued' \ used'
                      /\ cred'[d] # cookie'
                      /\ \A e \in Bearers \ {d} : cred'[e] # cred'[d]
    BY DEF GrantsFresh
  <2>4. CASE d = c
    BY <1>2, <2>1, <2>2, <2>4 DEF TypeOK
  <2>5. CASE d # c
    <3>1. pc[d] = "grant" /\ cred'[d] = cred[d]
      BY <2>1, <2>5 DEF TypeOK
    <3>2. /\ d # Logout /\ cred[d] \in issued \ used /\ cred[d] # cookie
          /\ \A e \in Bearers \ {d} : cred[e] # cred[d]
      BY <3>1 DEF GrantsFresh
    <3>3. cred[c] # cred[d]
      BY <2>5, <3>2
    <3>4. \A e \in Bearers \ {d} : cred'[e] # cred'[d]
      BY <2>1, <2>2, <3>1, <3>2 DEF TypeOK
    <3> QED BY <1>2, <2>1, <3>1, <3>2, <3>3, <3>4
  <2> QED BY <2>4, <2>5
<1>3. CASE \E c \in Refreshes : ServeRefresh(c)
  <2> PICK c \in Refreshes : ServeRefresh(c)
    BY <1>3
  <2>1. CASE \E n \in Tokens : Grant(c, n, owner[cred[c]], family[cred[c]])
    <3> PICK n \in Tokens : Grant(c, n, owner[cred[c]], family[cred[c]])
      BY <2>1
    <3>1. cookie' = cookie /\ used' \subseteq used \cup {cred[c]}
      BY DEF ServeRefresh, NotServer
    <3>2. cred[c] # n
      BY DEF Grant, TypeOK
    <3> QED BY <1>2, <3>1, <3>2
  <2>2. CASE ~\E n \in Tokens : Grant(c, n, owner[cred[c]], family[cred[c]])
    <3>1. /\ UNCHANGED <<issued, used, cred, cookie>>
          /\ \A d \in Bearers : pc'[d] = "grant" => pc[d] = "grant"
      BY <2>2 DEF ServeRefresh, NotServer, Answer, TypeOK
    <3> QED BY <1>1, <3>1 DEF Carried, Handled, Jar
  <2> QED BY <2>1, <2>2
<1>4. CASE ServeLogin
  <2>1. used' = used /\ cookie' = cookie
    BY <1>4 DEF ServeLogin, NotServer
  <2>2. CASE \E u \in Users, t \in Tokens : Grant(Login, t, u, t)
    <3> PICK u \in Users, t \in Tokens : Grant(Login, t, u, t)
      BY <2>2
    <3>1. cred[Login] # t
      BY DEF Grant, TypeOK
    <3> QED BY <1>2, <2>1, <3>1
  <2>3. CASE ~\E u \in Users, t \in Tokens : Grant(Login, t, u, t)
    <3>1. /\ UNCHANGED <<issued, cred>>
          /\ \A d \in Bearers : pc'[d] = "grant" => pc[d] = "grant"
      BY <1>4, <2>3 DEF ServeLogin, Answer, TypeOK
    <3> QED BY <1>1, <2>1, <3>1 DEF Carried, Handled, Jar
  <2> QED BY <2>2, <2>3
<1> QED BY <1>1, <1>3, <1>4, StepsCarry

-----------------------------------------------------------------------------
LEMMA Single ==
  ASSUME OneRefresh
  PROVE  /\ \A c, d \in Refreshes : UnderWay(c) /\ UnderWay(d) => c = d
         /\ \A i \in Callers : UnderWay(Call(i)) /\ promise = NoRefresh =>
              \A c \in Refreshes : ~UnderWay(c)
<1>1. \A c \in Refreshes : UnderWay(c) => c = Boot \/ promise # NoRefresh
  BY Names DEF OneRefresh
<1>2. UnderWay(Boot) => \A c \in Calls : UnderWay(c) => c = Boot
  BY DEF OneRefresh
<1>3. \A i \in Callers : Call(i) \in Calls /\ Call(i) # Boot
  BY Names
<1>4. \A c, d \in Refreshes : UnderWay(c) /\ UnderWay(d) => c = d
  BY <1>2, Names DEF OneRefresh
<1> QED BY <1>1, <1>2, <1>3, <1>4

\* A refresh carries the cookie of a moment without an exchange under way, so
\* the server has not met its token before.
LEMMA NothingToReuseKept ==
  ASSUME TypeOK, OneRefresh, GrantsFresh, NothingToReuse, Next
  PROVE  NothingToReuse'
<1> USE Names DEF Exchanging
<1> DEFINE Clean ==
      /\ ~reused
      /\ cookie \in used => Exchanging
      /\ \A c \in Refreshes : pc[c] = "sent" => cred[c] \notin used
      /\ \A c \in Bearers : pc[c] = "grant" => cred[c] \notin revoked
<1>1. NothingToReuse <=> (lost \/ Clean)
  BY DEF NothingToReuse
<1>2. NothingToReuse' <=> (lost' \/ Clean')
  BY DEF NothingToReuse
<1>3. NoToken \notin used /\ \A c \in Refreshes : pc[c] = "sent" => UnderWay(c)
  BY DEF TypeOK, UnderWay
<1>4. CASE Redirect \/ LoginSubmit \/ HandleLogout \/ (\E i \in Callers : SendData(i) \/ ServeCall(i) \/ DeliverCall(i))
  <2>1. UNCHANGED <<used, revoked, cookie, lost, reused>>
    BY <1>4 DEF Redirect, LoginSubmit, HandleLogout, SendData, ServeCall, NotServer, DeliverCall, server, history
  <2>2. \A c \in Refreshes : pc'[c] = pc[c] /\ (pc[c] = "sent" => cred'[c] = cred[c])
    <3>1. CASE Redirect \/ LoginSubmit \/ HandleLogout
      BY <3>1 DEF Redirect, LoginSubmit, HandleLogout, TypeOK, calls
    <3>2. CASE \E i \in Callers : SendData(i) \/ ServeCall(i)
      BY <3>2 DEF SendData, ServeCall, Answer, TypeOK
    <3>3. CASE \E i \in Callers : DeliverCall(i)
      BY <3>3 DEF DeliverCall, Forget, TypeOK
    <3> QED BY <1>4, <3>1, <3>2, <3>3
  <2>3. \A c \in Bearers : pc'[c] = "grant" => pc[c] = "grant" /\ cred'[c] = cred[c]
    BY <1>4, StepsHandle DEF Handled
  <2> QED BY <1>1, <1>2, <2>1, <2>2, <2>3
<1>5. CASE (\E p \in Paths : Follow(p)) \/ (\E t \in Tokens : Expire(t))
  BY <1>1, <1>2, <1>5 DEF Follow, Expire, server, calls, history
<1>6. CASE \E p \in Paths : Reload(p)
  <2> PICK p \in Paths : Reload(p)
    BY <1>6
  <2>1. CASE ~lost'
    <3>1. ~lost /\ ~Exchanging
      BY <2>1 DEF Reload
    <3>2. \A c \in Calls : (pc'[c] = "sent" => cred'[c] = cookie) /\ pc'[c] # "grant"
      BY DEF Reload, Loaded, Idle
    <3> QED BY <1>1, <1>2, <3>1, <3>2 DEF Reload, server
  <2> QED BY <1>2, <2>1
<1>7. CASE \E c \in Calls : Fail(c)
  <2> PICK c \in Calls : Fail(c)
    BY <1>7
  <2>1. CASE ~lost'
    <3>1. ~lost /\ pc[c] # "grant"
      BY <2>1 DEF Fail
    <3>2. pc' = [pc EXCEPT ![c] = "network"] /\ UNCHANGED <<used, revoked, cookie, cred, reused>>
      BY DEF Fail, server
    <3> QED BY <1>1, <1>2, <3>1, <3>2 DEF TypeOK
  <2> QED BY <1>2, <2>1
<1>8. CASE \E c \in Refreshes : ServeRefresh(c)
  <2> PICK c \in Refreshes : ServeRefresh(c)
    BY <1>8
  <2>1. pc[c] = "sent" /\ UNCHANGED <<cookie, lost>>
    BY DEF ServeRefresh, Grant, Answer, NotServer
  <2>2. CASE lost
    BY <1>2, <2>1, <2>2
  <2>3. CASE ~lost /\ \E n \in Tokens : Grant(c, n, owner[cred[c]], family[cred[c]]) /\ Usable(cred[c])
    <3> PICK n \in Tokens : Grant(c, n, owner[cred[c]], family[cred[c]])
      BY <2>3
    <3>1. n \notin issued /\ pc' = [pc EXCEPT ![c] = "grant"] /\ cred' = [cred EXCEPT ![c] = n]
      BY DEF Grant, Answer
    <3>2. UNCHANGED <<revoked, reused>>
      BY <2>3, <3>1 DEF ServeRefresh, Usable, Answer, TypeOK
    <3>3. pc'[c] = "grant"
      BY <3>1 DEF TypeOK
    <3>4. \A d \in Refreshes : pc'[d] # "sent"
      BY <1>3, <2>1, <3>1, Single DEF TypeOK
    <3>5. \A d \in Bearers : pc'[d] = "grant" => cred'[d] \notin revoked'
      BY <1>1, <2>3, <3>1, <3>2 DEF TypeOK
    <3> QED BY <1>1, <1>2, <2>1, <2>3, <3>2, <3>3, <3>4, <3>5
  <2>4. CASE ~lost /\ ~\E n \in Tokens : Grant(c, n, owner[cred[c]], family[cred[c]]) /\ Usable(cred[c])
    <3>1. cred[c] \notin used
      BY <1>1, <2>1, <2>4
    <3>2. /\ UNCHANGED <<used, revoked, cred, reused>>
          /\ pc' = [pc EXCEPT ![c] = "limited"] \/ pc' = [pc EXCEPT ![c] = "denied"]
      BY <2>4, <3>1 DEF ServeRefresh, Usable, Answer
    <3>3. \A d \in Calls : pc'[d] \in {"sent", "grant"} => pc'[d] = pc[d]
      BY <3>2 DEF TypeOK
    <3>4. \A d \in Refreshes : pc[d] = "grant" => pc'[d] = "grant"
      BY <1>3, <2>1, Single DEF UnderWay
    <3> QED BY <1>1, <1>2, <2>1, <2>4, <3>2, <3>3, <3>4
  <2> QED BY <2>2, <2>3, <2>4
<1>9. CASE ServeLogin \/ ServeLogout
  <2>1. /\ UNCHANGED <<used, cookie, lost, reused>>
        /\ \A c \in Refreshes : pc'[c] = pc[c] /\ cred'[c] = cred[c]
    BY <1>9 DEF ServeLogin, ServeLogout, Grant, Answer, NotServer, TypeOK, history
  <2>2. \A c \in Bearers : pc'[c] = "grant" /\ cred[c] \notin revoked => cred'[c] \notin revoked' \/ pc[c] # "grant"
    <3>1. CASE ServeLogin
      BY <3>1 DEF ServeLogin, Grant, Answer, TypeOK
    <3>2. CASE ServeLogout
      BY <3>2 DEF ServeLogout, Answer, GrantsFresh, TypeOK
    <3> QED BY <1>9, <3>1, <3>2
  <2>3. \A c \in Bearers : pc'[c] = "grant" /\ pc[c] # "grant" => cred'[c] \notin revoked'
    BY <1>9 DEF ServeLogin, ServeLogout, Grant, Answer, TypeOK
  <2> QED BY <1>1, <1>2, <2>1, <2>2, <2>3
<1>10. CASE \E i \in Callers : DeliverTokenError(i)
  <2> PICK i \in Callers : DeliverTokenError(i)
    BY <1>10
  <2>1. UNCHANGED <<used, revoked, cookie, lost, reused>>
    BY DEF DeliverTokenError, server, history
  <2>2. \A c \in Bearers : pc'[c] = "grant" => pc[c] = "grant" /\ cred'[c] = cred[c]
    BY StepsHandle DEF Handled
  <2>3. CASE promise = NoRefresh
    <3>1. \A c \in Refreshes : ~UnderWay(c)
      BY <2>3, Single DEF DeliverTokenError, UnderWay
    <3>2. ~Exchanging
      BY <3>1 DEF UnderWay
    <3>3. \A c \in Refreshes : pc'[c] = "sent" => cred'[c] = cookie
      BY <2>3, <3>1 DEF DeliverTokenError, RefreshAccessToken, UnderWay, TypeOK
    <3> QED BY <1>1, <1>2, <2>1, <2>2, <3>2, <3>3
  <2>4. CASE promise # NoRefresh
    <3>1. \A c \in Refreshes : pc'[c] = pc[c] /\ cred'[c] = cred[c]
      BY <2>4 DEF DeliverTokenError, RefreshAccessToken, TypeOK
    <3> QED BY <1>1, <1>2, <2>1, <2>2, <3>1
  <2> QED BY <2>3, <2>4
<1>11. ASSUME NEW c \in Refreshes, UnderWay(c), SetCookie(c), pc'[c] = "idle", UNCHANGED <<used, revoked, lost, reused>>,
              \A d \in Refreshes \ {c} : pc'[d] = pc[d], \A d \in Bearers : Handled(d)
       PROVE  NothingToReuse'
  <2>1. \A d \in Refreshes \ {c} : ~UnderWay(d)
    BY <1>11, Single
  <2>2. \A d \in Refreshes : pc'[d] # "sent"
    BY <1>11, <2>1 DEF UnderWay
  <2>3. \A d \in Bearers : pc'[d] = "grant" => pc[d] = "grant" /\ cred'[d] = cred[d]
    BY <1>11 DEF Handled
  <2>4. pc[c] # "grant" => ~Exchanging
    BY <2>1 DEF UnderWay
  <2>5. lost \/ cookie' \notin used
    BY <1>1, <1>3, <1>11, <2>4 DEF SetCookie, GrantsFresh
  <2> QED BY <1>1, <1>2, <1>11, <2>2, <2>3, <2>5
<1>12. CASE \E i \in Callers : DeliverRefresh(i)
  <2> PICK i \in Callers : DeliverRefresh(i)
    BY <1>12
  <2>1. UnderWay(Refresh(i)) /\ SetCookie(Refresh(i)) /\ pc'[Refresh(i)] = "idle"
    BY DEF DeliverRefresh, UnderWay, Answers
  <2>2. \A d \in Refreshes \ {Refresh(i)} : pc'[d] = pc[d]
    BY DEF DeliverRefresh, Waiting
  <2>3. UNCHANGED <<used, revoked, lost, reused>>
    BY DEF DeliverRefresh, server
  <2>4. \A d \in Bearers : Handled(d)
    BY StepsHandle
  <2> QED BY <1>11, <2>1, <2>2, <2>3, <2>4
<1>13. CASE DeliverBoot
  <2>1. UnderWay(Boot) /\ SetCookie(Boot) /\ pc'[Boot] = "idle"
    BY <1>13 DEF DeliverBoot, UnderWay, Answers, TypeOK
  <2>2. \A d \in Refreshes \ {Boot} : pc'[d] = pc[d]
    BY <1>13 DEF DeliverBoot, TypeOK
  <2>3. UNCHANGED <<used, revoked, lost, reused>>
    BY <1>13 DEF DeliverBoot, server
  <2>4. \A d \in Bearers : Handled(d)
    BY <1>13, StepsHandle
  <2> QED BY <1>11, <2>1, <2>2, <2>3, <2>4
<1>14. CASE DeliverLogin \/ DeliverLogout
  <2>1. UNCHANGED <<used, revoked, lost, reused>>
    BY <1>14 DEF DeliverLogin, DeliverLogout, server
  <2>2. \A d \in Bearers : pc'[d] = "grant" => pc[d] = "grant" /\ cred'[d] = cred[d]
    BY <1>14, StepsHandle DEF Handled
  <2>3. \A d \in Refreshes : pc'[d] = pc[d] /\ (pc[d] = "sent" => cred'[d] = cred[d])
    BY <1>14 DEF DeliverLogin, DeliverLogout, Forget, TypeOK
  <2>4. cookie' \in used => cookie' = cookie
    BY <1>3, <1>14 DEF DeliverLogin, DeliverLogout, SetCookie, GrantsFresh
  <2> QED BY <1>1, <1>2, <2>1, <2>2, <2>3, <2>4
<1> QED BY <1>4, <1>5, <1>6, <1>7, <1>8, <1>9, <1>10, <1>12, <1>13, <1>14 DEF Next, ServeAny, DeliverAny

-----------------------------------------------------------------------------
\* A lost grant and a crossed sign-in or sign-out are not forgotten.
LEMMA HistoryKept ==
  ASSUME TypeOK, Next
  PROVE  (lost => lost') /\ (overtaken => overtaken')
<1>1. CASE Redirect \/ LoginSubmit \/ HandleLogout \/ \E i \in Callers : SendData(i)
  BY <1>1 DEF Redirect, LoginSubmit, HandleLogout, SendData, history
<1>2. CASE \/ \E p \in Paths : Follow(p)
           \/ \E t \in Tokens : Expire(t)
           \/ \E i \in Callers : ServeCall(i) \/ DeliverTokenError(i)
           \/ ServeLogin \/ ServeLogout
  BY <1>2 DEF Follow, Expire, ServeCall, DeliverTokenError, ServeLogin, ServeLogout, history
<1>3. CASE \E c \in Refreshes : ServeRefresh(c)
  BY <1>3 DEF ServeRefresh
<1>4. CASE \E p \in Paths : Reload(p)
  <2> PICK p \in Paths : Reload(p)
    BY <1>4
  <2>1. overtaken' = overtaken
    BY DEF Reload
  <2>2. lost => lost'
    BY Zenon DEF Reload
  <2> QED BY <2>1, <2>2
<1>5. CASE \E c \in Calls : Fail(c)
  <2> PICK c \in Calls : Fail(c)
    BY <1>5
  <2>1. overtaken' = overtaken
    BY DEF Fail
  <2>2. lost => lost'
    BY Zenon DEF Fail
  <2> QED BY <2>1, <2>2
<1>6. ASSUME NEW S, Crossing(S) PROVE overtaken => overtaken'
  BY <1>6, Zenon DEF Crossing
<1>7. CASE \E i \in Callers : DeliverCall(i) \/ DeliverRefresh(i)
  BY <1>6, <1>7 DEF DeliverCall, DeliverRefresh, SignOut
<1>8. CASE DeliverBoot \/ DeliverLogin \/ DeliverLogout
  BY <1>6, <1>8 DEF DeliverBoot, DeliverLogin, DeliverLogout, SignOut
<1> QED BY <1>1, <1>2, <1>3, <1>4, <1>5, <1>7, <1>8 DEF Next, ServeAny, DeliverAny

\* Data calls and logout are sent by who is shown, login by nobody.
LEMMA SettledPaths ==
  ASSUME WebAssumption, Settled
  PROVE  /\ ~booting
         /\ path \in Areas => identity # NoUser
         /\ path = "login" => identity = NoUser
BY DEF Settled, Target, ProtectedRoute, RoleLanding, Areas

\* The page sends, or the network moves.
LEMMA WholeSent ==
  ASSUME TypeOK, OneRefresh, PageWhole, OneSession, ~lost',
         \/ Redirect \/ LoginSubmit \/ HandleLogout
         \/ \E i \in Callers : SendData(i)
         \/ \E p \in Paths : Follow(p) \/ Reload(p)
         \/ \E c \in Calls : Fail(c)
         \/ \E t \in Tokens : Expire(t)
  PROVE  PageWhole' /\ OneSession'
<1> USE Names DEF PageWhole, OneSession, UnderWay, Exchanging, SameSession
<1>1. CASE Redirect \/ (\E p \in Paths : Follow(p)) \/ (\E t \in Tokens : Expire(t))
  BY <1>1 DEF Redirect, Follow, Expire, server, page, calls
<1>2. CASE LoginSubmit
  BY <1>2, SettledPaths, WebAssumption DEF LoginSubmit, server, page, TypeOK
<1>3. CASE HandleLogout
  BY <1>3, SettledPaths, WebAssumption DEF HandleLogout, server, page, TypeOK
<1>4. CASE \E i \in Callers : SendData(i)
  BY <1>4, SettledPaths, WebAssumption DEF SendData, server, page, TypeOK
<1>5. CASE \E p \in Paths : Reload(p)
  BY <1>5 DEF Reload, Loaded, Idle
<1>6. CASE \E c \in Calls : Fail(c)
  <2> PICK c \in Calls : Fail(c)
    BY <1>6
  <2>1. pc[c] # "grant"
    BY Zenon DEF Fail
  <2> QED BY <2>1 DEF Fail, server, page, TypeOK
<1> QED BY <1>1, <1>2, <1>3, <1>4, <1>5, <1>6

LEMMA WholeServed ==
  ASSUME TypeOK, Owned, OneRefresh, NothingToReuse, PageWhole, OneSession, ~lost, ServeAny
  PROVE  PageWhole' /\ OneSession'
<1> USE Names DEF PageWhole, OneSession, UnderWay, Exchanging, SameSession
<1>1. CASE \E i \in Callers : ServeCall(i)
  BY <1>1 DEF ServeCall, Answer, NotServer, server, page, TypeOK
<1>2. CASE \E c \in Refreshes : ServeRefresh(c)
  <2> PICK c \in Refreshes : ServeRefresh(c)
    BY <1>2
  <2>1. pc[c] = "sent" /\ UNCHANGED <<cookie, page>>
    BY DEF ServeRefresh, Grant, Answer, NotServer
  <2>2. CASE \E n \in Tokens : Grant(c, n, owner[cred[c]], family[cred[c]]) /\ Usable(cred[c])
    <3> PICK n \in Tokens : Grant(c, n, owner[cred[c]], family[cred[c]])
      BY <2>2
    <3>1. /\ n \in Tokens /\ n \notin issued /\ issued' = issued \cup {n}
          /\ pc' = [pc EXCEPT ![c] = "grant"] /\ cred' = [cred EXCEPT ![c] = n]
          /\ owner' = [owner EXCEPT ![n] = owner[cred[c]]]
          /\ family' = [family EXCEPT ![n] = family[cred[c]]]
      BY DEF Grant, Answer
    <3>2. /\ \A t \in issued : owner'[t] = owner[t] /\ family'[t] = family[t]
          /\ owner'[n] = owner[cred[c]] /\ family'[n] = family[cred[c]]
      BY <3>1 DEF TypeOK
    <3>3. PageWhole'
      BY <2>1, <3>1, <3>2 DEF TypeOK, page
    <3>4. pc'[c] = "grant" /\ \A d \in Refreshes \ {c} : pc'[d] \notin {"sent", "grant"}
      BY <2>1, <3>1, Single DEF TypeOK
    <3>5. OneSession'
      BY <2>1, <3>1, <3>2, <3>4 DEF TypeOK, page
    <3> QED BY <3>3, <3>5
  <2>3. CASE ~\E n \in Tokens : Grant(c, n, owner[cred[c]], family[cred[c]]) /\ Usable(cred[c])
    <3>1. cred[c] \notin used
      BY <2>1 DEF NothingToReuse
    <3>2. /\ UNCHANGED <<issued, owner, family, revoked, cred>>
          /\ pc' = [pc EXCEPT ![c] = "limited"] \/ pc' = [pc EXCEPT ![c] = "denied"]
      BY <2>3, <3>1 DEF ServeRefresh, Usable, Answer
    <3> QED BY <2>1, <3>2 DEF TypeOK, page
  <2> QED BY <2>2, <2>3
<1>3. CASE ServeLogin
  <2>1. pc[Login] = "sent" /\ UNCHANGED <<cookie, page>>
    BY <1>3 DEF ServeLogin, Grant, Answer, NotServer
  <2>2. token = NoToken
    BY <2>1
  <2>3. /\ \A c \in Calls \ {Login} : pc'[c] = pc[c] /\ cred'[c] = cred[c]
        /\ pc'[Login] # "idle"
    BY <1>3 DEF ServeLogin, Grant, Answer, TypeOK
  <2> QED BY <2>1, <2>2, <2>3 DEF page
<1>4. CASE ServeLogout
  BY <1>4 DEF ServeLogout, Answer, NotServer, page, TypeOK
<1> QED BY <1>1, <1>2, <1>3, <1>4 DEF ServeAny

\* Only what the sign-in or sign-out brings along was under way.
LEMMA NothingCrossed ==
  ASSUME NEW S, Crossing(S), ~overtaken'
  PROVE  \A c \in Calls \ S : ~UnderWay(c)
BY Zenon DEF Crossing

LEMMA WholeDelivered ==
  ASSUME TypeOK, Owned, OneRefresh, GrantsFresh, NothingToReuse, PageWhole, OneSession, ~lost, ~overtaken', DeliverAny
  PROVE  PageWhole' /\ OneSession'
<1> USE Names DEF UnderWay, Exchanging
<1>1. NoUser \notin Users /\ NoToken \notin issued
  BY WebAssumption DEF TypeOK
\* Whoever is signed out leaves nothing behind.
<1>2. ASSUME token' = NoToken, identity' = NoUser, \A c \in Calls : pc'[c] = "idle"
      PROVE  PageWhole' /\ OneSession'
  BY <1>2 DEF PageWhole, OneSession
<1>3. CASE \E i \in Callers : DeliverTokenError(i)
  <2> PICK i \in Callers : DeliverTokenError(i)
    BY <1>3
  <2>1. pc[Call(i)] = "tokenError" /\ UNCHANGED <<server, cookie, page>>
    BY DEF DeliverTokenError
  <2>2. token # NoToken
    BY <2>1 DEF PageWhole
  <2>3. CASE promise = NoRefresh
    <3>1. /\ pc' = [pc EXCEPT ![Call(i)] = "waiting", ![Refresh(i)] = "sent"]
          /\ cred' = [cred EXCEPT ![Refresh(i)] = cookie]
      BY <2>3 DEF DeliverTokenError, RefreshAccessToken
    <3>2. pc[Refresh(i)] = "idle"
      BY <2>1, <2>3, Single
    <3>3. PageWhole'
      BY <2>1, <2>2, <3>1 DEF PageWhole, TypeOK, server, page
    <3>4. OneSession'
      BY <2>1, <2>2, <3>1, <3>2 DEF OneSession, SameSession, TypeOK, server, page
    <3> QED BY <3>3, <3>4
  <2>4. CASE promise # NoRefresh
    <3>1. pc' = [pc EXCEPT ![Call(i)] = "waiting"] /\ cred' = cred
      BY <2>4 DEF DeliverTokenError, RefreshAccessToken
    <3> QED BY <2>1, <2>2, <3>1 DEF PageWhole, OneSession, SameSession, TypeOK, server, page
  <2> QED BY <2>3, <2>4
<1>4. CASE \E i \in Callers : DeliverCall(i)
  <2> PICK i \in Callers : DeliverCall(i)
    BY <1>4
  <2>1. /\ pc[Call(i)] # "idle" /\ pc' = [pc EXCEPT ![Call(i)] = "idle"]
        /\ UNCHANGED <<server, cookie>>
        /\ \A c \in Calls : cred'[c] = IF pc'[c] = "idle" THEN NoToken ELSE cred[c]
    BY DEF DeliverCall, Forget
  <2>2. token # NoToken
    BY <2>1 DEF PageWhole
  <2>3. booting' = (booting /\ i # Me)
    BY DEF DeliverCall
  <2>4. CASE pc[Call(i)] = "ok" /\ i = Me
    <3>1. token' = token /\ identity' = owner[cred[Call(Me)]]
      BY <2>4 DEF DeliverCall
    <3>2. cred[Call(Me)] = token /\ token \in issued
      BY <2>2, <2>4 DEF PageWhole, TypeOK
    <3>3. identity' = owner[token] /\ identity' # NoUser /\ ~booting'
      BY <1>1, <2>3, <2>4, <3>1, <3>2 DEF Owned
    <3>4. PageWhole'
      BY <2>1, <2>2, <3>1, <3>3 DEF PageWhole, TypeOK, server
    <3>5. OneSession'
      BY <2>1, <2>2, <3>1 DEF OneSession, SameSession, TypeOK, server
    <3> QED BY <3>4, <3>5
  <2>5. CASE pc[Call(i)] # "ok" /\ i \in retried \cup {Me}
    <3>1. token' = NoToken /\ identity' = NoUser /\ Crossing({Call(i)})
      BY <2>5 DEF DeliverCall, SignOut
    <3>2. \A c \in Calls \ {Call(i)} : pc[c] = "idle"
      BY <3>1, NothingCrossed
    <3>3. \A c \in Calls : pc'[c] = "idle"
      BY <2>1, <3>2 DEF TypeOK
    <3> QED BY <1>2, <3>1, <3>3
  <2>6. CASE i # Me /\ (pc[Call(i)] = "ok" \/ i \notin retried \cup {Me})
    <3>1. token' = token /\ identity' = identity
      BY <2>6 DEF DeliverCall
    <3>2. booting' <=> booting
      BY <2>3, <2>6
    <3>3. PageWhole'
      BY <2>1, <2>2, <2>6, <3>1, <3>2 DEF PageWhole, TypeOK, server
    <3>4. OneSession'
      BY <2>1, <2>2, <3>1 DEF OneSession, SameSession, TypeOK, server
    <3> QED BY <3>3, <3>4
  <2> QED BY <2>4, <2>5, <2>6
<1>5. CASE \E i \in Callers : DeliverRefresh(i)
  <2> PICK i \in Callers : DeliverRefresh(i)
    BY <1>5
  <2> DEFINE c == Refresh(i)
  <2>1. pc[c] # "idle" /\ SetCookie(c) /\ UNCHANGED server
    BY DEF DeliverRefresh, Answers
  <2>2. token # NoToken /\ \A d \in Refreshes \ {c} : pc[d] = "idle"
    BY <2>1, Single DEF PageWhole
  <2>3. CASE pc[c] = "grant"
    <3>1. /\ token' = cred[c] /\ cookie' = cred[c] /\ UNCHANGED <<identity, booting>>
          /\ SameSession(cred[c], token) /\ cred[c] \notin revoked
      BY <2>1, <2>2, <2>3 DEF DeliverRefresh, SetCookie, OneSession, NothingToReuse
    <3>2. \A j \in Callers : \/ pc'[Call(j)] = pc[Call(j)] /\ cred'[Call(j)] = cred[Call(j)]
                             \/ pc'[Call(j)] = "sent" /\ cred'[Call(j)] = cred[c]
      BY <2>3 DEF DeliverRefresh
    <3>3. /\ pc'[c] = "idle"
          /\ \A d \in Bearers \ {c} : pc'[d] = pc[d]
      BY <2>3 DEF DeliverRefresh, Waiting
    <3>4. pc'[Call(Me)] \in {"sent", "ok"} => cred'[Call(Me)] = cred[c]
      <4>1. CASE pc'[Call(Me)] = pc[Call(Me)] /\ pc[Call(Me)] \in {"sent", "ok"}
        <5>1. booting /\ pc[Refresh(i)] # "idle" /\ pc[Call(i)] = "waiting"
          BY <2>1, <4>1 DEF OneRefresh
        <5>2. Refresh(i) = Refresh(Me)
          BY <5>1 DEF OneRefresh
        <5> QED BY <4>1, <5>1, <5>2
      <4> QED BY <3>2, <4>1
    <3>5. cred[c] \in issued /\ cred[c] # NoToken
      BY <1>1, <3>1 DEF SameSession
    <3>6. PageWhole'
      BY <2>1, <2>2, <3>1, <3>4, <3>5 DEF PageWhole, SameSession, server
    <3>7. OneSession'
      BY <2>1, <2>2, <3>1, <3>3, <3>5 DEF OneSession, SameSession, server
    <3> QED BY <3>6, <3>7
  <2>4. CASE pc[c] # "grant"
    <3> DEFINE D == {x \in Calls : x = c \/ x \in {Call(j) : j \in Waiting(i)}}
    <3>1. token' = NoToken /\ identity' = NoUser /\ Crossing(D)
      BY <2>4 DEF DeliverRefresh, SignOut
    <3>2. \A d \in Calls \ D : pc[d] = "idle"
      BY <3>1, NothingCrossed
    <3>3. \A d \in Calls : pc'[d] = "idle"
      BY <2>4, <3>2 DEF DeliverRefresh
    <3> QED BY <1>2, <3>1, <3>3
  <2> QED BY <2>3, <2>4
<1>6. CASE DeliverBoot
  <2>1. pc[Boot] # "idle" /\ SetCookie(Boot) /\ UNCHANGED server
    BY <1>6 DEF DeliverBoot, Answers
  <2>2. booting /\ identity = NoUser /\ \A c \in Calls \ {Boot} : pc[c] = "idle"
    BY <2>1 DEF OneRefresh, PageWhole
  <2>3. CASE pc[Boot] = "grant"
    <3>1. /\ token' = cred[Boot] /\ cookie' = cred[Boot] /\ UNCHANGED <<identity, booting>>
          /\ cred[Boot] \notin revoked /\ cred[Boot] \in issued
      BY <1>6, <2>1, <2>3 DEF DeliverBoot, SetCookie, NothingToReuse, GrantsFresh
    <3>2. \A c \in Calls : pc'[c] = (IF c = Call(Me) THEN "sent" ELSE "idle")
                           /\ (c = Call(Me) => cred'[c] = cred[Boot])
      BY <1>6, <2>2, <2>3 DEF DeliverBoot, TypeOK
    <3> QED BY <1>1, <2>1, <2>2, <3>1, <3>2 DEF PageWhole, OneSession, SameSession, server
  <2>4. CASE pc[Boot] # "grant"
    <3>1. token' = NoToken /\ identity' = NoUser /\ pc' = [pc EXCEPT ![Boot] = "idle"]
      BY <1>6, <2>4 DEF DeliverBoot, SignOut
    <3> QED BY <1>2, <2>2, <3>1 DEF TypeOK
  <2> QED BY <2>3, <2>4
<1>7. CASE DeliverLogin
  <2>1. pc[Login] # "idle" /\ SetCookie(Login) /\ pc' = [pc EXCEPT ![Login] = "idle"] /\ UNCHANGED <<server, booting>>
    BY <1>7 DEF DeliverLogin, Answers
  <2>2. token = NoToken /\ ~booting
    BY <2>1 DEF OneSession, OneRefresh
  <2>3. CASE pc[Login] = "grant"
    <3>1. /\ token' = cred[Login] /\ cookie' = cred[Login] /\ identity' = owner[cred[Login]]
          /\ cred[Login] \notin revoked /\ cred[Login] \in issued
      BY <1>7, <2>1, <2>3 DEF DeliverLogin, SignIn, SetCookie, NothingToReuse, GrantsFresh
    <3>2. Crossing({Login})
      BY <1>7, <2>3 DEF DeliverLogin
    <3>3. \A c \in Calls \ {Login} : pc[c] = "idle"
      BY <3>2, NothingCrossed
    <3>4. \A c \in Calls : pc'[c] = "idle"
      BY <2>1, <3>3 DEF TypeOK
    <3> QED BY <1>1, <2>1, <2>2, <3>1, <3>4 DEF PageWhole, OneSession, SameSession, Owned, server
  <2>4. CASE pc[Login] # "grant"
    <3>1. token' = token /\ identity' = identity
      BY <1>7, <2>4 DEF DeliverLogin
    <3>2. \A c \in Calls \ {Login, Boot} : pc'[c] = "idle"
      BY <2>1, <2>2 DEF PageWhole, TypeOK
    <3> QED BY <2>1, <2>2, <3>1, <3>2 DEF PageWhole, OneSession
  <2> QED BY <2>3, <2>4
<1>8. CASE DeliverLogout
  <2>1. /\ token' = NoToken /\ identity' = NoUser /\ Crossing({Logout})
        /\ pc' = [pc EXCEPT ![Logout] = "idle"]
    BY <1>8 DEF DeliverLogout, SignOut
  <2>2. \A c \in Calls \ {Logout} : pc[c] = "idle"
    BY <2>1, NothingCrossed
  <2>3. \A c \in Calls : pc'[c] = "idle"
    BY <2>1, <2>2 DEF TypeOK
  <2> QED BY <1>2, <2>1, <2>3
<1> QED BY <1>3, <1>4, <1>5, <1>6, <1>7, <1>8 DEF DeliverAny

LEMMA WholeKept ==
  ASSUME TypeOK, Owned, OneRefresh, GrantsFresh, NothingToReuse, Whole, Next
  PROVE  Whole'
<1> SUFFICES ASSUME ~lost', ~overtaken'
             PROVE  PageWhole' /\ OneSession'
  BY DEF Whole
<1>1. ~lost /\ ~overtaken /\ PageWhole /\ OneSession
  BY HistoryKept DEF Whole
<1>2. CASE ServeAny
  BY <1>1, <1>2, WholeServed
<1>3. CASE DeliverAny
  BY <1>1, <1>3, WholeDelivered
<1>4. CASE ~ServeAny /\ ~DeliverAny
  BY <1>1, <1>4, WholeSent DEF Next
<1> QED BY <1>2, <1>3, <1>4

-----------------------------------------------------------------------------
\* A refresh without a token is never granted, so nothing of the old session
\* comes back.
LEMMA QuietKept ==
  ASSUME TypeOK, OneRefresh, GrantsFresh, Quiet, Next
  PROVE  Quiet'
<1> USE Names DEF UnderWay
<1> SUFFICES ASSUME left' = "quietly"
             PROVE  /\ identity' = NoUser /\ cookie' = NoToken
                    /\ pc'[Call(Me)] = "idle"
                    /\ \A c \in Refreshes : pc'[c] # "grant" /\ (pc'[c] = "sent" => cred'[c] = NoToken)
  BY DEF Quiet
<1> DEFINE Silent ==
      /\ identity = NoUser /\ cookie = NoToken
      /\ pc[Call(Me)] = "idle"
      /\ \A c \in Refreshes : pc[c] # "grant" /\ (pc[c] = "sent" => cred[c] = NoToken)
<1>1. left = "quietly" <=> left = "quietly" /\ Silent
  BY DEF Quiet
<1>2. CASE \/ Redirect \/ LoginSubmit \/ HandleLogout
           \/ \E i \in Callers : SendData(i)
           \/ \E p \in Paths : Follow(p)
           \/ \E t \in Tokens : Expire(t)
  <2>1. left' = left /\ cookie' = cookie /\ identity' = identity
    BY <1>2 DEF Redirect, LoginSubmit, HandleLogout, SendData, Follow, Expire, page, history
  <2>2. \A c \in Refreshes \cup {Call(Me)} : pc'[c] = pc[c] /\ (c # Call(Me) => cred'[c] = cred[c])
    BY <1>2 DEF Redirect, LoginSubmit, HandleLogout, SendData, Follow, Expire, calls, TypeOK
  <2> QED BY <1>1, <2>1, <2>2
<1>3. CASE \E p \in Paths : Reload(p)
  BY <1>1, <1>3 DEF Reload, Loaded, Idle
<1>4. CASE \E c \in Calls : Fail(c)
  BY <1>1, <1>4 DEF Fail, page, TypeOK
<1>5. CASE ServeAny
  <2>1. left' = left /\ cookie' = cookie /\ identity' = identity
    BY <1>5 DEF ServeAny, ServeCall, ServeRefresh, ServeLogin, ServeLogout, NotServer, page, history
  <2>2. CASE \E c \in Refreshes : ServeRefresh(c)
    <3> PICK c \in Refreshes : ServeRefresh(c)
      BY <2>2
    <3>1. pc[c] = "sent"
      BY DEF ServeRefresh, Grant, Answer
    <3>2. cred[c] \notin issued
      BY <1>1, <2>1, <3>1 DEF TypeOK
    <3>3. cred' = cred /\ (pc' = [pc EXCEPT ![c] = "limited"] \/ pc' = [pc EXCEPT ![c] = "denied"])
      BY <3>2 DEF ServeRefresh, Usable, Answer
    <3> QED BY <1>1, <2>1, <3>3 DEF TypeOK
  <2>3. CASE (\E i \in Callers : ServeCall(i)) \/ ServeLogin \/ ServeLogout
    <3>1. \A c \in Refreshes \cup {Call(Me)} : (pc[c] = "idle" => pc'[c] = "idle")
      BY <2>3 DEF ServeCall, ServeLogin, ServeLogout, Grant, Answer, TypeOK
    <3>2. \A c \in Refreshes : pc'[c] = pc[c] /\ cred'[c] = cred[c]
      BY <2>3 DEF ServeCall, ServeLogin, ServeLogout, Grant, Answer, TypeOK
    <3> QED BY <1>1, <2>1, <3>1, <3>2
  <2> QED BY <1>5, <2>2, <2>3 DEF ServeAny
<1>6. CASE \E i \in Callers : DeliverTokenError(i)
  <2> PICK i \in Callers : DeliverTokenError(i)
    BY <1>6
  <2>1. UNCHANGED <<cookie, identity, left>> /\ pc[Call(i)] = "tokenError"
    BY DEF DeliverTokenError, page, history
  <2>2. i # Me
    BY <1>1, <2>1
  <2>3. \/ /\ pc' = [pc EXCEPT ![Call(i)] = "waiting", ![Refresh(i)] = "sent"]
           /\ cred' = [cred EXCEPT ![Refresh(i)] = cookie]
        \/ pc' = [pc EXCEPT ![Call(i)] = "waiting"] /\ cred' = cred
    BY DEF DeliverTokenError, RefreshAccessToken
  <2> QED BY <1>1, <2>1, <2>2, <2>3 DEF TypeOK
<1>7. CASE \E i \in Callers : DeliverCall(i)
  <2> PICK i \in Callers : DeliverCall(i)
    BY <1>7
  <2>1. UNCHANGED <<cookie, left>> /\ pc[Call(i)] # "idle" /\ pc' = [pc EXCEPT ![Call(i)] = "idle"]
    BY DEF DeliverCall
  <2>2. i # Me
    BY <1>1, <2>1
  <2>3. identity' \in {identity, NoUser}
    BY <2>2 DEF DeliverCall, SignOut
  <2>4. \A c \in Refreshes : cred'[c] \in {cred[c], NoToken}
    BY DEF DeliverCall, Forget
  <2> QED BY <1>1, <2>1, <2>2, <2>3, <2>4 DEF TypeOK
<1>8. CASE \E i \in Callers : DeliverRefresh(i)
  <2> PICK i \in Callers : DeliverRefresh(i)
    BY <1>8
  <2>1. left' = left /\ pc[Refresh(i)] # "grant" /\ SetCookie(Refresh(i))
    BY <1>1 DEF DeliverRefresh
  <2>2. identity' = NoUser /\ cookie' = NoToken
    BY <1>1, <2>1 DEF DeliverRefresh, SignOut, SetCookie
  <2>3. /\ \A c \in Calls : pc'[c] \in {"idle", pc[c]}
        /\ \A c \in Refreshes : cred'[c] \in {NoToken, cred[c]}
    BY <2>1 DEF DeliverRefresh, Forget
  <2> QED BY <1>1, <2>1, <2>2, <2>3
<1>9. CASE DeliverBoot
  <2>1. left' = left /\ pc[Boot] # "grant" /\ SetCookie(Boot)
    BY <1>1, <1>9 DEF DeliverBoot
  <2>2. identity' = NoUser /\ cookie' = NoToken
    BY <1>1, <1>9, <2>1 DEF DeliverBoot, SignOut, SetCookie
  <2>3. pc' = [pc EXCEPT ![Boot] = "idle"] /\ cred' = [cred EXCEPT ![Boot] = NoToken]
    BY <1>9, <2>1 DEF DeliverBoot
  <2> QED BY <1>1, <2>1, <2>2, <2>3 DEF TypeOK
<1>10. CASE DeliverLogin
  <2>1. left' = left /\ identity' = identity /\ pc[Login] # "grant"
    BY <1>10 DEF DeliverLogin
  <2>2. cookie' \in {cookie, NoToken}
    BY <1>10, <2>1 DEF DeliverLogin, SetCookie
  <2>3. pc' = [pc EXCEPT ![Login] = "idle"] /\ \A c \in Refreshes : cred'[c] \in {NoToken, cred[c]}
    BY <1>10 DEF DeliverLogin, Forget
  <2> QED BY <1>1, <2>1, <2>2, <2>3 DEF TypeOK
<1>11. CASE DeliverLogout
  <2>1. /\ identity' = NoUser /\ pc[Logout] # "idle" /\ pc' = [pc EXCEPT ![Logout] = "idle"]
        /\ \A c \in Refreshes : cred'[c] \in {NoToken, cred[c]}
    BY <1>11 DEF DeliverLogout, SignOut, Forget, Answers
  <2>2. pc[Logout] # "grant" /\ SetCookie(Logout)
    BY <1>11 DEF DeliverLogout, GrantsFresh
  <2>3. CASE pc[Logout] = "ok" /\ promise = NoRefresh
    <3>1. \A c \in Refreshes : pc[c] = "idle"
      BY <2>1, <2>3 DEF OneRefresh
    <3>2. pc[Call(Me)] = "idle"
      BY <2>1 DEF OneRefresh
    <3> QED BY <2>1, <2>2, <2>3, <3>1, <3>2 DEF SetCookie, TypeOK
  <2>4. CASE ~(pc[Logout] = "ok" /\ promise = NoRefresh)
    <3>1. left = "quietly"
      BY <1>11, <2>4 DEF DeliverLogout
    <3>2. cookie' = NoToken
      BY <1>1, <2>2, <3>1 DEF SetCookie
    <3> QED BY <1>1, <2>1, <3>1, <3>2 DEF TypeOK
  <2> QED BY <2>3, <2>4
<1> QED BY <1>2, <1>3, <1>4, <1>5, <1>6, <1>7, <1>8, <1>9, <1>10, <1>11 DEF Next, DeliverAny

-----------------------------------------------------------------------------
LEMMA InvKept == Inv /\ [Next]_vars => Inv'
<1> SUFFICES ASSUME Inv, [Next]_vars PROVE Inv'
    OBVIOUS
<1>1. CASE Next
  <2>1. TypeOK' /\ Owned'
    BY <1>1, TypesKept DEF Inv
  <2>2. Served' /\ OneRefresh'
    BY <1>1, ServedKept, OneRefreshKept DEF Inv
  <2>3. GrantsFresh'
    BY <1>1, GrantsFreshKept DEF Inv
  <2>4. NothingToReuse'
    BY <1>1, NothingToReuseKept DEF Inv
  <2>5. Whole'
    BY <1>1, WholeKept DEF Inv
  <2>6. Quiet'
    BY <1>1, QuietKept DEF Inv
  <2> QED BY <2>1, <2>2, <2>3, <2>4, <2>5, <2>6 DEF Inv
<1>2. CASE UNCHANGED vars
  <2> USE <1>2 DEF vars, server, page, calls, history
  <2>1. TypeOK' /\ Owned' /\ Served'
    BY DEF Inv, TypeOK, Owned, Served
  <2>2. OneRefresh' /\ GrantsFresh'
    BY DEF Inv, OneRefresh, UnderWay, GrantsFresh
  <2>3. NothingToReuse' /\ Quiet'
    BY DEF Inv, NothingToReuse, Quiet, Exchanging, UnderWay
  <2>4. PageWhole' <=> PageWhole
    BY DEF PageWhole, UnderWay
  <2>5. OneSession' <=> OneSession
    BY DEF OneSession, SameSession, Exchanging, UnderWay
  <2> QED BY <2>1, <2>2, <2>3, <2>4, <2>5 DEF Inv, Whole
<1> QED BY <1>1, <1>2

\* The invariant holds in every behaviour: one refresh, fresh grants, a whole
\* session at rest and quiet after a logout (api-client.ts, AuthProvider.tsx).
THEOREM Invariant == Spec => []Inv
BY InitSound, InvKept, PTL DEF Spec

\* The variables keep their types; all that is presented or held was issued.
THEOREM TypeCorrect == Spec => []TypeOK
<1>1. Inv => TypeOK
  BY DEF Inv
<1> QED BY <1>1, Invariant, PTL

\* Reuse detection never closes an honest page's session unless an answer with
\* a new cookie got lost, however many calls meet an outdated token together
\* and whatever is reloaded or fails (api-client.ts:67, AuthProvider.tsx:25).
THEOREM HonestPage == Spec => []NoSelfInflictedReuse
<1>1. Inv => NoSelfInflictedReuse
  BY DEF Inv, NothingToReuse, NoSelfInflictedReuse
<1> QED BY <1>1, Invariant, PTL

\* At rest the identity shown, the access token and the cookie are one
\* session's, and the cookie is good for the next refresh.
THEOREM SessionWhole == Spec => []SessionIsWhole
<1>1. Inv => SessionIsWhole
  <2> SUFFICES ASSUME Inv, AtRest, ~booting, ~lost, ~overtaken
               PROVE  /\ identity = NoUser <=> token = NoToken
                      /\ identity # NoUser =>
                           /\ owner[token] = identity
                           /\ Usable(cookie) /\ family[cookie] = family[token]
    BY DEF SessionIsWhole
  <2>1. PageWhole /\ OneSession /\ NothingToReuse
    BY DEF Inv, Whole
  <2>2. ~Exchanging /\ pc[Logout] = "idle"
    BY Names DEF AtRest, UnderWay, Exchanging
  <2>3. token # NoToken => Usable(cookie)
    BY <2>1, <2>2 DEF OneSession, NothingToReuse, SameSession, Usable
  <2> QED BY <2>1, <2>3 DEF PageWhole, OneSession, SameSession
<1> QED BY <1>1, Invariant, PTL

\* After a logout that no refresh crosses, nobody is shown again until
\* somebody logs in, page loads and late answers included
\* (AuthProvider.tsx:56-65).
THEOREM LogoutFinal == Spec => []QuietLogoutSticks
<1>1. Inv => QuietLogoutSticks
  BY DEF Inv, Quiet, QuietLogoutSticks
<1> QED BY <1>1, Invariant, PTL

=============================================================================
