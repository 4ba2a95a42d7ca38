---------------------------- MODULE MCCitizenSignIn ----------------------------
(* CitizenSignIn for TLC: flows, sign-ins and exchanges are interchangeable.  *)
EXTENDS CitizenSignIn, TLC

Symmetry == Permutations(Flows) \cup Permutations(SignIns) \cup Permutations(Clients)
===============================================================================
