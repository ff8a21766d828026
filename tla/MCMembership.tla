---------------------------- MODULE MCMembership -----------------------------
(***************************************************************************)
(* Model values and assignments for the runs of module Membership.  Two    *)
(* sessions that share an id are one browser that reconnects.              *)
(***************************************************************************)
EXTENDS Membership

CONSTANTS a1, a2, b, o, o2, A, B, O, alice, bob, oscar

TheIdOf == [s \in Sessions |-> IF s \in {a1, a2} THEN A ELSE IF s = b THEN B ELSE O]

TheUserOf ==
  [s \in Sessions |-> IF s \in {a1, a2} THEN alice ELSE IF s = b THEN bob ELSE oscar]
=============================================================================
