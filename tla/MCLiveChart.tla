---------------------------- MODULE MCLiveChart ----------------------------
(* Model checking a live chart: see the .cfg files. *)
EXTENDS LiveChart
=============================================================================
