---------------------------- MODULE MCFederation ----------------------------
(* Model checking a hub, its node and a page: see the .cfg files. *)
EXTENDS Federation
=============================================================================
