---------------------------- MODULE MCJobOwnership ----------------------------
(* JobOwnership for TLC: an old revision and a new one that adds a job.      *)
EXTENDS JobOwnership

CONSTANTS oldReplica, newReplica, old, new, kept, added

RevisionOf == [r \in Replicas |-> IF r = oldReplica THEN old ELSE new]

RegisteredBy == [v \in Revisions |-> IF v = old THEN {kept} ELSE {kept, added}]
===============================================================================
