----------------------------- MODULE MCUnbounded -----------------------------
(* Model-checking instance of Unbounded. *)
EXTENDS Unbounded
=============================================================================
