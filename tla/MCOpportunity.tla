---------------------------- MODULE MCOpportunity ----------------------------
(* Opportunity for TLC: the symmetry of the requests. *)
EXTENDS Opportunity, TLC

RequestSymmetry == Permutations(Requests)
===============================================================================
