------------------------------ MODULE MCRates ------------------------------
(* Model checking the rates: see Rates.cfg and RatesSkew.cfg. *)
EXTENDS Rates
=============================================================================
