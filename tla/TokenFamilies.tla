---------------------------- MODULE TokenFamilies ---------------------------
(***************************************************************************)
(* What refresh-token rotation promises, with no requests, locks or        *)
(* snapshots.  A session is a family of tokens in which one token at a     *)
(* time stands for the session; exchanging it, in one step, is the only    *)
(* way to get the next one, and a closed session is closed for good.       *)
(***************************************************************************)
CONSTANTS Tokens, None

VARIABLES
  head,   \* the token that stands for each family, None before its login
  open,   \* whether the family can still be continued
  spent   \* tokens that were exchanged

vars == <<head, open, spent>>

Unseen(t) == t \notin spent /\ \A f \in Tokens : head[f] # t

Init ==
  /\ head = [f \in Tokens |-> None]
  /\ open = [f \in Tokens |-> FALSE]
  /\ spent = {}

Begin(f) ==
  /\ head[f] = None
  /\ Unseen(f)
  /\ head' = [head EXCEPT ![f] = f]
  /\ open' = [open EXCEPT ![f] = TRUE]
  /\ UNCHANGED spent

Exchange(f, t) ==
  /\ open[f]
  /\ Unseen(t)
  /\ head' = [head EXCEPT ![f] = t]
  /\ spent' = spent \cup {head[f]}
  /\ UNCHANGED open

\* Logout closes one family, reuse detection one, deactivation all of a user's.
Close(F) ==
  /\ open' = [f \in Tokens |-> open[f] /\ f \notin F]
  /\ UNCHANGED <<head, spent>>

Next ==
  \/ \E f \in Tokens : Begin(f) \/ \E t \in Tokens : Exchange(f, t)
  \/ \E F \in SUBSET {f \in Tokens : open[f]} : Close(F)

Spec == Init /\ [][Next]_vars
=============================================================================
