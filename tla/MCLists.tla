------------------------------- MODULE MCLists -------------------------------
(* Three tasks, three users and pages of one row. *)
EXTENDS Lists

CONSTANTS an, binh

Task(p, d, u, f) == [progress |-> p, deadline |-> d, assignee |-> u, found |-> f]
User(r, a) == [role |-> r, team |-> "core", active |-> a]

MCTable ==
  <<Task("TODO", "past", an, TRUE), Task("DONE", "past", binh, FALSE),
    Task("IN_PROGRESS", "soon", an, FALSE), Absent>>

MCStart == [s \in Screens |->
  IF s = "users" THEN <<User("LEADER", TRUE), User("MEMBER", TRUE), User("MEMBER", FALSE), Absent>>
  ELSE MCTable]

MCFilters == [s \in Screens |->
  CASE s = "tasks" -> [progress |-> {"all", "DONE"}, overdue |-> {"all", "overdue", "ontime"},
                       assignee |-> {"all", an}, q |-> {"", "word"}]
    [] s = "users" -> [role |-> {"all", "MEMBER"}, team |-> {"all", "core"}, inactive |-> BOOLEAN]
    [] OTHER -> [none |-> {}]]
=============================================================================
