---------------------------- MODULE MCSupportRecord ----------------------------
(* SupportRecord for TLC: the symmetry of requests and client keys. *)
EXTENDS SupportRecord, TLC

CallerSymmetry == Permutations(Requests) \cup Permutations(Clients)
===============================================================================
