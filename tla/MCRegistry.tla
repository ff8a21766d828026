------------------------------ MODULE MCRegistry ------------------------------
(* Model values for the runs of module Registry.                           *)
EXTENDS Registry

CONSTANTS s1
=============================================================================
