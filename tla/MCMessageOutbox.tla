---------------------------- MODULE MCMessageOutbox ----------------------------
(* MessageOutbox for TLC: the symmetry of the runs. *)
EXTENDS MessageOutbox, TLC

RunSymmetry == Permutations(Runs)
===============================================================================
