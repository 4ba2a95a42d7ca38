-------------------------------- MODULE JobLease --------------------------------
(***************************************************************************)
(* What the revision tracker and the schedulers promise together: the jobs *)
(* are on lease to the revision deployed last.  A process acts on what it  *)
(* was told some time after the fact, and a deployment may come in         *)
(* between.  What it does then is limited by what it was told while its    *)
(* revision had the lease: each answer lets it write each schedule once,   *)
(* and each pass lets it start one job.  A lease once lost does not come   *)
(* back, so a revision that lost it is soon out of answers and passes.     *)
(* JobOwnership implements it.                                             *)
(***************************************************************************)
CONSTANTS Replicas, Revisions, Revision, Jobs, Registered, NoRevision

VARIABLES
  latest,      \* the revision that has the lease, in a set
  superseded,  \* the revisions that had it
  told,        \* the processes told that they have it
  toWrite,     \* the schedules each process may still write
  passed,      \* the jobs each process may still start
  schedules    \* the revision that wrote each schedule

vars == <<latest, superseded, told, toWrite, passed, schedules>>

Deploys(v) ==
  /\ v \notin latest \cup superseded
  /\ latest' = {v}
  /\ superseded' = superseded \cup latest
  /\ UNCHANGED <<told, toWrite, passed, schedules>>

IsTold(r) ==
  /\ Revision[r] \in latest
  /\ told' = told \cup {r}
  /\ UNCHANGED <<latest, superseded, toWrite, passed, schedules>>

\* The answer is used up, whoever has the lease by then.
TakesOver(r) ==
  /\ r \in told
  /\ told' = told \ {r}
  /\ toWrite' = [toWrite EXCEPT ![r] = Jobs]
  /\ UNCHANGED <<latest, superseded, passed, schedules>>

\* A revision schedules its jobs, and removes those it does not know.
Writes(r, j) ==
  /\ j \in toWrite[r]
  /\ toWrite' = [toWrite EXCEPT ![r] = @ \ {j}]
  /\ schedules' = [schedules EXCEPT
       ![j] = IF j \in Registered[Revision[r]] THEN Revision[r] ELSE NoRevision]
  /\ UNCHANGED <<latest, superseded, told, passed>>

Passes(r, j) ==
  /\ Revision[r] \in latest
  /\ passed' = [passed EXCEPT ![r] = @ \cup {j}]
  /\ UNCHANGED <<latest, superseded, told, toWrite, schedules>>

Starts(r, j) ==
  /\ j \in passed[r]
  /\ passed' = [passed EXCEPT ![r] = @ \ {j}]
  /\ UNCHANGED <<latest, superseded, told, toWrite, schedules>>

\* It makes no use of what it was told: it finds nothing to do, fails, is stopped
\* or ends.
LetsGo(r) ==
  /\ told' \in {told, told \ {r}}
  /\ \E jobs \in SUBSET toWrite[r] : toWrite' = [toWrite EXCEPT ![r] = jobs]
  /\ \E jobs \in SUBSET passed[r] : passed' = [passed EXCEPT ![r] = jobs]
  /\ UNCHANGED <<latest, superseded, schedules>>

Init ==
  /\ latest = {}
  /\ superseded = {}
  /\ told = {}
  /\ toWrite = [r \in Replicas |-> {}]
  /\ passed = [r \in Replicas |-> {}]
  /\ schedules = [j \in Jobs |-> NoRevision]

Next ==
  \/ \E v \in Revisions : Deploys(v)
  \/ \E r \in Replicas :
       \/ IsTold(r) \/ TakesOver(r) \/ LetsGo(r)
       \/ \E j \in Jobs : Writes(r, j) \/ Passes(r, j) \/ Starts(r, j)

Spec == Init /\ [][Next]_vars
===============================================================================
