----------------------------- MODULE MCWebCache -----------------------------
(* A leader, a member of another team and an administrator share a page. *)
EXTENDS WebCache

CONSTANTS lan, minh, root, core, web

MCRoleOf ==
  [u \in Users |-> CASE u = root -> "ADMIN" [] u = lan -> "LEADER" [] OTHER -> "MEMBER"]
MCTeamOf ==
  [u \in Users |-> CASE u = lan -> core [] u = root -> NoTeam [] OTHER -> web]
=============================================================================
