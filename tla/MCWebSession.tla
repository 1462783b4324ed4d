---------------------------- MODULE MCWebSession ----------------------------
(* One browser page, an administrator and a leader, two data calls. *)
EXTENDS WebSession

CONSTANTS admin, leader

MCRoleOf == [u \in {admin, leader} |-> IF u = admin THEN "ADMIN" ELSE "LEADER"]
=============================================================================
