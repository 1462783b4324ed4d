---------------------------- MODULE MCDirectory -----------------------------
(***************************************************************************)
(* Instances of Directory for TLC.                                         *)
(***************************************************************************)
EXTENDS Directory, TLC

CONSTANTS
  root, deputy, lan, minh, nga, hoa,       \* users
  core, web,                               \* teams
  mail1, mail2, mail3, mail4, mail5,
  coreName, webName

Admin(e) == [email |-> e, role |-> "ADMIN", team |-> NoTeam, active |-> TRUE]
Leader(e) == [email |-> e, role |-> "LEADER", team |-> core, active |-> TRUE]
Member(e) == [email |-> e, role |-> "MEMBER", team |-> core, active |-> TRUE]

\* A team with a leader and members, and an administrator.
Staffed == (root :> Admin(mail1)) @@ (lan :> Leader(mail2)) @@ (minh :> Member(mail3))

\* A team with one member and no leader yet.
Vacant == (root :> Admin(mail1)) @@ (minh :> Member(mail3))

\* Two administrators and nobody else.
TwoAdmins == (root :> Admin(mail1)) @@ (deputy :> Admin(mail2))

CoreTeam == (core :> coreName)

\* Requests differ only in what they are asked to do.
RequestSymmetry == Permutations(Requests)
=============================================================================
