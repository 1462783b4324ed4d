------------------------------ MODULE MCSeeding ------------------------------
(* Two replicas on one database, scaled up by hand. *)
EXTENDS Seeding
=============================================================================
