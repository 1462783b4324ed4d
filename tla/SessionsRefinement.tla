------------------------- MODULE SessionsRefinement -------------------------
(***************************************************************************)
(* Sessions implements TokenFamilies: the head of a family is its one      *)
(* unexchanged token, and the family is open until that token is revoked.  *)
(***************************************************************************)
EXTENDS Sessions

HeadOf(f) ==
  IF f \in issued /\ family[f] = f
  THEN CHOOSE t \in issued \ used : family[t] = f
  ELSE NoToken

OpenOf(f) == HeadOf(f) # NoToken /\ HeadOf(f) \notin revoked

Families == INSTANCE TokenFamilies WITH
  None <- NoToken,
  head <- [f \in Tokens |-> HeadOf(f)],
  open <- [f \in Tokens |-> OpenOf(f)],
  spent <- used

\* Every behaviour of the requests, races, rollbacks and crashes included, is
\* one of single-step exchanges of open heads: what AuthService.refresh's
\* transaction and compare-and-set are there for.
ImplementsFamilies == Families!Spec
=============================================================================
