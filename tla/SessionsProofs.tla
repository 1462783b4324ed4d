--------------------------- MODULE SessionsProofs ---------------------------
(***************************************************************************)
(* What holds of sessions for any number of browsers, tabs, administrators *)
(* and tokens: rotation is exclusive, and the requests implement the       *)
(* single-step families of TokenFamilies.                                  *)
(***************************************************************************)
EXTENDS SessionsRefinement, FiniteSetTheorems, TLAPS

\* A handler that works on a token was given one that exists.
Presenting ==
  \A r \in Tabs : pc[r] \in {"read", "reuse", "claim"} => tok[r] \in issued

\* A row is locked by one transaction, and a transaction between its
\* compare-and-set and its commit has its token locked.
LocksExclusive ==
  /\ \A r, q \in Requests : r # q => held[r] \cap held[q] = {}
  /\ \A r \in Tabs : pc[r] = "rotate" => tok[r] \in held[r]

\* Between them its token is neither exchanged nor revoked.
ClaimHeld ==
  \A r \in Tabs : pc[r] = "rotate" => tok[r] \in issued \ (used \cup revoked)

\* A family is named by a token of its own.
FamilyNamed ==
  \A t \in issued : family[t] \in issued /\ family[family[t]] = family[t]

\* OneHeadPerFamily without cardinalities.
HeadExists == \A t \in issued : \E h \in issued \ used : family[h] = family[t]
HeadUnique == \A s, t \in issued \ used : family[s] = family[t] => s = t

IInv ==
  /\ TypeOK /\ Presenting
  /\ LocksExclusive /\ ClaimHeld
  /\ FamilyNamed /\ HeadExists /\ HeadUnique

LEMMA InitIInv == Init => IInv
  BY DistinctAssumption
     DEF Init, IInv, TypeOK, Presenting, LocksExclusive, ClaimHeld, FamilyNamed, HeadExists, HeadUnique,
         Requests, TabPc, AdminPc

LEMMA NextIInv == IInv /\ [Next]_vars => IInv'
  <1> SUFFICES ASSUME IInv, [Next]_vars
               PROVE  IInv'
    OBVIOUS
  <1> USE DistinctAssumption, BrowsersAssumption, BoundsAssumption
      DEF IInv, TypeOK, Presenting, LocksExclusive, ClaimHeld, FamilyNamed, HeadExists, HeadUnique,
          Requests, rows, TabPc, AdminPc, Goto, Unlock
  <1>1. CASE UNCHANGED vars
    BY <1>1 DEF vars
  <1>2. ASSUME NEW r \in Tabs, NEW u \in Users, LoginCheck(r, u)
        PROVE  IInv'
    BY <1>2 DEF LoginCheck
  <1>3. ASSUME NEW r \in Tabs, RefreshStart(r)
        PROVE  IInv'
    BY <1>3 DEF RefreshStart, Cookie
  <1>4. ASSUME NEW r \in Tabs, LogoutStart(r)
        PROVE  IInv'
    BY <1>4 DEF LogoutStart, Cookie
  <1>5. ASSUME NEW r \in Tabs, LoginIssue(r)
        PROVE  IInv'
    BY <1>5 DEF LoginIssue, PersistRefresh
  <1>6. ASSUME NEW r \in Tabs, RefreshRead(r)
        PROVE  IInv'
    BY <1>6 DEF RefreshRead
  <1>7. ASSUME NEW r \in Tabs, ReuseSnapshot(r)
        PROVE  IInv'
    BY <1>7 DEF ReuseSnapshot
  <1>8. ASSUME NEW r \in Tabs, ReuseCommit(r)
        PROVE  IInv'
    BY <1>8 DEF ReuseCommit, Locked
  <1>9. ASSUME NEW r \in Tabs, RefreshClaim(r)
        PROVE  IInv'
    <2>1. CASE tok[r] \in used \cup revoked
      BY <1>9, <2>1 DEF RefreshClaim
    <2>2. CASE tok[r] \notin used \cup revoked
      <3>1. tok[r] \in issued
        BY <1>9, <2>2 DEF RefreshClaim
      <3>2. \A q \in Requests : tok[r] \notin held[q]
        BY <1>9 DEF RefreshClaim, Locked
      <3>3. /\ UNCHANGED <<active, rows, jar, tok, who, snap>>
            /\ held' = [held EXCEPT ![r] = {tok[r]}]
            /\ pc' = [pc EXCEPT ![r] = "rotate"]
        BY <1>9, <2>2 DEF RefreshClaim
      <3>4. TypeOK'
        BY <3>1, <3>3
      <3>5. LocksExclusive'
        BY <3>2, <3>3
      <3>6. ClaimHeld'
        BY <2>2, <3>1, <3>3
      <3>7. Presenting' /\ FamilyNamed' /\ HeadExists' /\ HeadUnique'
        BY <3>3
      <3>8. QED
        BY <3>4, <3>5, <3>6, <3>7
    <2> QED
      BY <2>1, <2>2
  <1>10. ASSUME NEW r \in Tabs, RefreshRotate(r)
         PROVE  IInv'
    BY <1>10 DEF RefreshRotate, PersistRefresh
  <1>11. ASSUME NEW r \in Tabs, RefreshSign(r)
         PROVE  IInv'
    BY <1>11 DEF RefreshSign
  <1>12. ASSUME NEW r \in Tabs, Logout(r)
         PROVE  IInv'
    BY <1>12 DEF Logout, Locked
  <1>13. ASSUME NEW r \in Tabs, DeliverGrant(r)
         PROVE  IInv'
    BY <1>13 DEF DeliverGrant, End
  <1>14. ASSUME NEW r \in Tabs, DeliverDeny(r)
         PROVE  IInv'
    BY <1>14 DEF DeliverDeny, End
  <1>15. ASSUME NEW r \in Tabs, RefreshFails(r)
         PROVE  IInv'
    BY <1>15 DEF RefreshFails
  <1>16. ASSUME NEW a \in Admins, NEW u \in Users, DeactivateStart(a, u)
         PROVE  IInv'
    BY <1>16 DEF DeactivateStart
  <1>17. ASSUME NEW a \in Admins, NEW u \in Users, Reactivate(a, u)
         PROVE  IInv'
    BY <1>17 DEF Reactivate
  <1>18. ASSUME NEW a \in Admins, DeactivateSnapshot(a)
         PROVE  IInv'
    BY <1>18 DEF DeactivateSnapshot
  <1>19. ASSUME NEW a \in Admins, DeactivateCommit(a)
         PROVE  IInv'
    BY <1>19 DEF DeactivateCommit, Locked, End
  <1>20. ASSUME NEW r \in Requests, Drop(r)
         PROVE  IInv'
    BY <1>20 DEF Drop, End
  <1>21. ASSUME NEW t \in Tokens, Expire(t)
         PROVE  IInv'
    BY <1>21 DEF Expire
  <1>22. ASSUME NEW r \in Requests, LockRow(r)
         PROVE  IInv'
    BY <1>22 DEF LockRow, Locked
  <1>23. ASSUME NEW r \in Tabs, ReuseDeadlock(r)
         PROVE  IInv'
    BY <1>23 DEF ReuseDeadlock
  <1>24. ASSUME NEW a \in Admins, DeactivateDeadlock(a)
         PROVE  IInv'
    BY <1>24 DEF DeactivateDeadlock, End
  <1>25. QED
    BY <1>1, <1>2, <1>3, <1>4, <1>5, <1>6, <1>7, <1>8, <1>9, <1>10, <1>11, <1>12,
       <1>13, <1>15, <1>16, <1>18, <1>19, <1>20, <1>21, <1>14, <1>17, <1>22, <1>23, <1>24
       DEF Next, TabStep, AdminStep
-----------------------------------------------------------------------------
LEMMA Invariance == Spec => []IInv
  BY InitIInv, NextIInv, PTL DEF Spec

\* Every state of every behaviour has the declared types.
THEOREM TypeCorrect == Spec => []TypeOK
  <1>1. IInv => TypeOK
    BY DEF IInv
  <1>2. QED
    BY Invariance, <1>1, PTL

\* One token of a family is unexchanged, never two and never none, whatever
\* requests race for it: AuthService.refresh cannot rotate a token twice.
THEOREM RotationNeverForks == Spec => []OneHeadPerFamily
  <1>1. ASSUME IInv
        PROVE  OneHeadPerFamily
    <2> SUFFICES ASSUME NEW f \in issued
                 PROVE  Cardinality({t \in issued \ used : family[t] = family[f]}) = 1
      BY DEF OneHeadPerFamily
    <2>1. PICK h \in issued \ used : family[h] = family[f]
      BY <1>1 DEF IInv, HeadExists
    <2>2. {t \in issued \ used : family[t] = family[f]} = {h}
      BY <1>1, <2>1 DEF IInv, HeadUnique
    <2>3. QED
      BY <2>2, FS_Singleton
  <1>2. QED
    BY Invariance, <1>1, PTL

\* Tokens come from logins and rotations only; every other step keeps the
\* table but for revocations.
LEMMA OtherSteps ==
  ASSUME [Next]_vars
  PROVE  \/ \E r \in Tabs : LoginIssue(r) \/ RefreshRotate(r)
         \/ UNCHANGED <<issued, family, used>> /\ revoked \subseteq revoked'
  <1> USE DEF rows
  <1>1. ASSUME NEW r \in Tabs, NEW u \in Users, LoginCheck(r, u)
        PROVE  UNCHANGED <<issued, family, used, revoked>>
    BY <1>1 DEF LoginCheck
  <1>2. ASSUME NEW r \in Tabs, RefreshStart(r) \/ LogoutStart(r) \/ RefreshFails(r)
        PROVE  UNCHANGED <<issued, family, used, revoked>>
    BY <1>2 DEF RefreshStart, LogoutStart, RefreshFails
  <1>3. ASSUME NEW r \in Tabs, TabStep(r), ~LoginIssue(r), ~RefreshRotate(r)
        PROVE  UNCHANGED <<issued, family, used>> /\ revoked \subseteq revoked'
    BY <1>3 DEF TabStep, RefreshRead, ReuseSnapshot, LockRow, ReuseCommit,
                ReuseDeadlock, RefreshClaim, RefreshSign, Logout, DeliverGrant, DeliverDeny
  <1>4. ASSUME NEW a \in Admins, NEW u \in Users, DeactivateStart(a, u) \/ Reactivate(a, u)
        PROVE  UNCHANGED <<issued, family, used, revoked>>
    BY <1>4 DEF DeactivateStart, Reactivate
  <1>5. ASSUME NEW a \in Admins, AdminStep(a)
        PROVE  UNCHANGED <<issued, family, used>> /\ revoked \subseteq revoked'
    BY <1>5 DEF AdminStep, DeactivateSnapshot, LockRow, DeactivateCommit, DeactivateDeadlock
  <1>6. ASSUME NEW r \in Requests, Drop(r)
        PROVE  UNCHANGED <<issued, family, used, revoked>>
    BY <1>6 DEF Drop
  <1>7. ASSUME NEW t \in Tokens, Expire(t)
        PROVE  UNCHANGED <<issued, family, used, revoked>>
    BY <1>7 DEF Expire
  <1>8. QED
    BY <1>1, <1>2, <1>3, <1>4, <1>5, <1>6, <1>7 DEF Next, vars

\* Once the unexchanged token of a family is revoked, by a logout, by reuse
\* detection or by a deactivation, no refresh already under way continues it.
THEOREM RevocationIsFinal == Spec => DeadFamilyStaysDead
  <1> DEFINE Final == \A t \in issued' \ issued : \A s \in issued \ used :
                        family'[t] = family[s] => s \notin revoked
  <1>1. ASSUME IInv, [Next]_vars
        PROVE  Final
    <2> SUFFICES ASSUME issued' # issued
                 PROVE  Final
      OBVIOUS
    <2>1. PICK r \in Tabs : LoginIssue(r) \/ RefreshRotate(r)
      BY <1>1, OtherSteps
    <2>2. CASE LoginIssue(r)
      BY <1>1, <2>2 DEF LoginIssue, PersistRefresh, IInv, TypeOK, FamilyNamed
    <2>3. CASE RefreshRotate(r)
      BY <1>1, <2>3 DEF RefreshRotate, PersistRefresh, IInv, TypeOK, ClaimHeld, HeadUnique
    <2>4. QED
      BY <2>1, <2>2, <2>3
  <1>2. QED
    BY Invariance, <1>1, PTL DEF Spec, DeadFamilyStaysDead

-----------------------------------------------------------------------------
(* The requests implement the abstract families. *)

LEMMA HeadIs ==
  ASSUME IInv
  PROVE  /\ \A f \in issued : family[f] = f =>
              /\ HeadOf(f) \in issued \ used
              /\ family[HeadOf(f)] = f
         /\ \A h \in issued \ used : HeadOf(family[h]) = h
         /\ \A f : ~(f \in issued /\ family[f] = f) => HeadOf(f) = NoToken
         /\ \A f : HeadOf(f) \in Tokens => HeadOf(f) \in issued
  <1>1. ASSUME NEW f \in issued, family[f] = f
        PROVE  HeadOf(f) \in issued \ used /\ family[HeadOf(f)] = f
    BY <1>1 DEF IInv, HeadExists, HeadOf
  <1>2. ASSUME NEW h \in issued \ used
        PROVE  HeadOf(family[h]) = h
    <2>1. family[h] \in issued /\ family[family[h]] = family[h]
      BY DEF IInv, FamilyNamed
    <2>2. QED
      BY <2>1, <1>1 DEF IInv, HeadUnique
  <1>3. NoToken \notin Tokens
    BY DEF NoToken, Tokens
  <1>4. \A f : ~(f \in issued /\ family[f] = f) => HeadOf(f) = NoToken
    BY DEF HeadOf
  <1>5. QED
    BY <1>1, <1>2, <1>3, <1>4

\* A commit that only revokes closes the families whose heads it revokes.
LEMMA RevokingStep ==
  ASSUME UNCHANGED <<issued, family, used>>, revoked \subseteq revoked'
  PROVE  Families!Next
  <1> DEFINE F == {f \in Tokens : OpenOf(f) /\ ~OpenOf(f)'}
  <1>1. \A f : HeadOf(f)' = HeadOf(f)
    BY DEF HeadOf
  <1>2. \A f : OpenOf(f)' => OpenOf(f)
    BY <1>1 DEF OpenOf
  <1>3. \A f : OpenOf(f) \in BOOLEAN /\ OpenOf(f)' \in BOOLEAN
    BY DEF OpenOf
  <1>4. [f \in Tokens |-> OpenOf(f)']
          = [f \in Tokens |-> [g \in Tokens |-> OpenOf(g)][f] /\ f \notin F]
    BY <1>2, <1>3
  <1>5. Families!Close(F)
    BY <1>1, <1>4 DEF Families!Close
  <1>6. F \in SUBSET {f \in Tokens : [g \in Tokens |-> OpenOf(g)][f]}
    OBVIOUS
  <1>7. QED
    BY <1>5, <1>6 DEF Families!Next

\* An INSERT into family g, which may exchange a token of g, leaves the heads
\* of the other families alone.
LEMMA OtherHeads ==
  ASSUME IInv, IInv',
         NEW t \in Tokens \ issued, NEW g,
         issued' = issued \cup {t},
         family' = [family EXCEPT ![t] = g],
         \A k \in used' \ used : k \in issued /\ family[k] = g,
         NEW f \in Tokens, f # g
  PROVE  HeadOf(f)' = HeadOf(f)
  <1>1. CASE f \in issued /\ family[f] = f
    <2>1. HeadOf(f) \in issued \ used /\ family[HeadOf(f)] = f
      BY <1>1, HeadIs
    <2>2. HeadOf(f) \in issued' \ used' /\ family'[HeadOf(f)] = f
      BY <2>1 DEF IInv, TypeOK
    <2>3. \A h \in issued' \ used' : family'[h] = f => h = HeadOf(f)
      BY <2>2 DEF IInv, HeadUnique
    <2>4. f \in issued' /\ family'[f] = f
      BY <1>1 DEF IInv, TypeOK
    <2>5. HeadOf(f)' = CHOOSE h \in issued' \ used' : family'[h] = f
      BY <2>4 DEF HeadOf
    <2>6. QED
      BY <2>2, <2>3, <2>5
  <1>2. CASE ~(f \in issued /\ family[f] = f)
    <2>1. ~(f \in issued' /\ family'[f] = f)
      BY <1>2 DEF IInv, TypeOK
    <2>2. QED
      BY <2>1, <1>2 DEF HeadOf
  <1>3. QED
    BY <1>1, <1>2

\* The new token of family g is its head afterwards.
LEMMA NewHead ==
  ASSUME IInv', NEW t, NEW g,
         t \in issued' \ used', family'[t] = g, g \in issued', family'[g] = g
  PROVE  HeadOf(g)' = t
  <1>1. \A h \in issued' \ used' : family'[h] = g => h = t
    BY DEF IInv, HeadUnique
  <1>2. HeadOf(g)' = CHOOSE h \in issued' \ used' : family'[h] = g
    BY DEF HeadOf
  <1>3. QED
    BY <1>1, <1>2

LEMMA LoginStep ==
  ASSUME IInv, IInv', NEW r \in Tabs, LoginIssue(r)
  PROVE  Families!Next
  <1>1. PICK t \in Tokens : PersistRefresh(t, who[r], t)
    BY DEF LoginIssue
  <1>2. /\ t \in Tokens \ issued
        /\ issued' = issued \cup {t}
        /\ family' = [family EXCEPT ![t] = t]
        /\ UNCHANGED <<used, revoked>>
    BY <1>1 DEF PersistRefresh, LoginIssue
  <1>3. HeadOf(t) = NoToken /\ \A f \in Tokens : HeadOf(f) # t
    BY <1>2, HeadIs
  <1>4. t \notin used /\ t \notin revoked /\ NoToken # t
    BY <1>2 DEF IInv, TypeOK, NoToken, Tokens
  <1>5. t \in issued' \ used' /\ family'[t] = t
    BY <1>2, <1>4 DEF IInv, TypeOK
  <1>6. HeadOf(t)' = t /\ OpenOf(t)'
    BY <1>2, <1>4, <1>5, NewHead DEF OpenOf
  <1>7. ASSUME NEW f \in Tokens, f # t
        PROVE  HeadOf(f)' = HeadOf(f)
    BY <1>2, <1>7, OtherHeads
  <1>8. \A f \in Tokens : f # t => OpenOf(f)' = OpenOf(f)
    BY <1>2, <1>7 DEF OpenOf
  <1>9. Families!Begin(t)
    BY <1>2, <1>3, <1>4, <1>6, <1>7, <1>8 DEF Families!Begin, Families!Unseen
  <1>10. QED
    BY <1>9 DEF Families!Next

LEMMA RotationStep ==
  ASSUME IInv, IInv', NEW r \in Tabs, RefreshRotate(r)
  PROVE  Families!Next
  <1>0. PICK g : g = family[tok[r]]
    OBVIOUS
  <1>1. PICK t \in Tokens : PersistRefresh(t, user[tok[r]], g)
    BY <1>0 DEF RefreshRotate
  <1>2. /\ t \in Tokens \ issued
        /\ issued' = issued \cup {t}
        /\ family' = [family EXCEPT ![t] = g]
        /\ used' = used \cup {tok[r]}
        /\ UNCHANGED revoked
    BY <1>1 DEF PersistRefresh, RefreshRotate
  <1>3. tok[r] \in issued \ (used \cup revoked)
    BY DEF IInv, ClaimHeld, RefreshRotate
  <1>4. t \notin used /\ t \notin revoked /\ t # NoToken /\ tok[r] # NoToken
    BY <1>2, <1>3 DEF IInv, TypeOK, NoToken, Tokens
  <1>5. g \in issued /\ family[g] = g /\ g \in Tokens /\ g # t
    BY <1>0, <1>2, <1>3 DEF IInv, TypeOK, FamilyNamed
  <1>6. HeadOf(g) = tok[r] /\ OpenOf(g)
    BY <1>0, <1>3, <1>4, HeadIs DEF OpenOf
  <1>7. /\ t \in issued' \ used' /\ family'[t] = g
        /\ g \in issued' /\ family'[g] = g
    BY <1>2, <1>3, <1>4, <1>5 DEF IInv, TypeOK
  <1>8. HeadOf(g)' = t /\ OpenOf(g)'
    <2>1. HeadOf(g)' = t
      BY <1>7, NewHead
    <2>2. QED
      BY <2>1, <1>2, <1>4 DEF OpenOf
  <1>9. ASSUME NEW f \in Tokens, f # g
        PROVE  HeadOf(f)' = HeadOf(f)
    <2>1. \A k \in used' \ used : k \in issued /\ family[k] = g
      BY <1>0, <1>2, <1>3
    <2>2. QED
      BY <1>2, <1>9, <2>1, OtherHeads
  <1>10. \A f \in Tokens : OpenOf(f)' = OpenOf(f)
    BY <1>2, <1>6, <1>8, <1>9 DEF OpenOf
  <1>11. \A f \in Tokens : HeadOf(f) # t
    BY <1>2, HeadIs
  <1>12. Families!Exchange(g, t)
    BY <1>2, <1>4, <1>5, <1>6, <1>8, <1>9, <1>10, <1>11
       DEF Families!Exchange, Families!Unseen
  <1>13. QED
    BY <1>5, <1>12 DEF Families!Next

\* The concurrent requests, with their snapshots, locks, rollbacks and lost
\* answers, do nothing a family of tokens exchanged in single steps would not:
\* a head is exchanged once, only while it is not revoked, and a closed family
\* is closed for good.
THEOREM Refinement == Spec => ImplementsFamilies
  <1>1. Init => Families!Init
    BY DEF Init, Families!Init, HeadOf, OpenOf
  <1>2. ASSUME IInv, IInv', [Next]_vars
        PROVE  [Families!Next]_(Families!vars)
    <2>1. CASE \E r \in Tabs : LoginIssue(r) \/ RefreshRotate(r)
      BY <1>2, <2>1, LoginStep, RotationStep
    <2>2. CASE UNCHANGED <<issued, family, used>> /\ revoked \subseteq revoked'
      BY <2>2, RevokingStep
    <2>3. QED
      BY <1>2, <2>1, <2>2, OtherSteps
  <1>3. QED
    BY <1>1, <1>2, Invariance, PTL DEF Spec, ImplementsFamilies, Families!Spec
=============================================================================
