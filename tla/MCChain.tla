------------------------------- MODULE MCChain -------------------------------
(* The whole chain for TLC: the first plans, as the script runs them. *)
EXTENDS Chain
=============================================================================
