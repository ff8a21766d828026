------------------------------- MODULE MCApi -------------------------------
(* Model values for the run of module Api; clients are interchangeable.    *)
EXTENDS Api, TLC

CONSTANTS c1, c2, u1, t1, t2

Symmetry == Permutations(Clients) \cup Permutations(Toks)
=============================================================================
