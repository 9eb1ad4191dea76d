---------------------------- MODULE MCNotifier -----------------------------
(* Model checking the notifier of one host: see the .cfg files. *)
EXTENDS Notifier
=============================================================================
