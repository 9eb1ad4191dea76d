---------------------------- MODULE MCCollector ----------------------------
(* Model checking the collectors of the local hosts: see the .cfg files. *)
EXTENDS Collector
=============================================================================
