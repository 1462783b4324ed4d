------------------------------ MODULE MCTasks -------------------------------
(***************************************************************************)
(* Instances of Tasks for TLC.                                             *)
(***************************************************************************)
EXTENDS Tasks, TLC

CONSTANTS lan, minh, hoa, core, web, t1, plain

\* lan and minh work in core, hoa in web.
Teamwork == (lan :> core) @@ (minh :> core) @@ (hoa :> web)
CoreOrg == (lan :> core) @@ (minh :> core)

\* Nothing to do yet.
NoTasks == [t \in {} |-> plain]

\* lan keeps a task to himself.
OwnTask ==
  t1 :> [owner |-> lan, assignee |-> lan, progress |-> "TODO", text |-> plain,
         deleted |-> FALSE]

RequestSymmetry == Permutations(Requests)
=============================================================================
