----------------------------- MODULE MCTaskForms -----------------------------
(* One page and one task, with two interchangeable titles. *)
EXTENDS TaskForms, TLC
Alike == Permutations(Titles)
=============================================================================
