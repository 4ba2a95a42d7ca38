---------------------------- MODULE MCOperatorAccess ----------------------------
(* OperatorAccess for TLC: sign-ins are interchangeable, and so are the        *)
(* revocations.                                                                *)
EXTENDS OperatorAccess, TLC

Symmetry == Permutations(Logins) \cup Permutations(Admins)
===============================================================================
