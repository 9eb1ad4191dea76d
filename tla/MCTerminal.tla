----------------------------- MODULE MCTerminal -----------------------------
(* Model checking the terminal; its values are in the .cfg file. *)
EXTENDS Terminal
=============================================================================
