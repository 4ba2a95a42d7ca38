----------------------------- MODULE MessageOutbox -----------------------------
(***************************************************************************)
(* The transactional outbox of ced-portal-be: rows a use case inserts in   *)
(* its own transaction, and the job that claims them one at a time, sends  *)
(* the email and records the result.  Several runs of the job may be under *)
(* way: on other replicas, on the next revision, or started again by       *)
(* pg-boss after it lost a worker's heartbeat.  A run may fail or its      *)
(* process may stop between any two steps.                                 *)
(*                                                                         *)
(* Time is abstracted to what the job compares: whether a run is past its  *)
(* deadline, whether a row was claimed since a run started, and whether a  *)
(* claim is older than STALE_SENDING_MS.                                   *)
(***************************************************************************)
EXTENDS Integers

CONSTANTS
  MaxMessages,  \* bound: the messages ever enqueued
  Runs,         \* the runs of the job that can be under way together
  MaxAttempts   \* MESSAGE_OUTBOX_MAX_ATTEMPTS

\* Messages are numbered in the order of created_at.
Messages == 1..MaxMessages

ASSUME OutboxAssumption == MaxMessages \in Nat /\ MaxAttempts \in Nat \ {0}

VARIABLES
  outbox,     \* message_outbox
  run,        \* the state of each run of the job
  accepted,   \* how many times the provider accepted each email
  confirmed   \* the messages whose acceptance some run was told of

vars == <<outbox, run, accepted, confirmed>>

NoMessage == 0

Status == {"absent", "pending", "sending", "sent", "failed"}
Phase == {"off", "claiming", "selected", "sending", "recording"}

OutboxRow == [status : Status, attempts : 0..MaxAttempts, stale : BOOLEAN]

Run == [phase : Phase, message : Messages \cup {NoMessage}, ok : BOOLEAN,
        late : BOOLEAN, claimedSince : SUBSET Messages]

Off == [phase |-> "off", message |-> NoMessage, ok |-> FALSE, late |-> FALSE,
        claimedSince |-> {}]

Active(r) == run[r].phase # "off"

\* A run that has selected a row holds its lock until the claim commits.
Locked == {run[r].message : r \in {q \in Runs : run[q].phase = "selected"}}

(***************************************************************************)
(* Slips the checks must catch.                                            *)
(***************************************************************************)
StaleBecomesPending ==
  [m \in Messages |-> IF outbox[m].status = "sending" /\ outbox[m].stale
                      THEN [outbox[m] EXCEPT !.status = "pending"] ELSE outbox[m]]

SentUnchecked(m) == [outbox EXCEPT ![m].status = "sent"]

SweepNothing == outbox

ClaimableWhileSending(r) ==
  {m \in Messages : outbox[m].status \in {"pending", "sending"} /\ m \notin run[r].claimedSince}

(***************************************************************************)
(* The repository.                                                         *)
(***************************************************************************)
Claimable(r) ==
  {m \in Messages : /\ outbox[m].status = "pending"
                    /\ outbox[m].attempts < MaxAttempts
                    /\ m \notin run[r].claimedSince}

failStaleSending ==
  [m \in Messages |-> IF outbox[m].status = "sending" /\ outbox[m].stale
                      THEN [outbox[m] EXCEPT !.status = "failed"] ELSE outbox[m]]

markSent(m) ==
  IF outbox[m].status = "sending" THEN [outbox EXCEPT ![m].status = "sent"] ELSE outbox

markFailed(m) ==
  IF outbox[m].status = "sending"
  THEN [outbox EXCEPT ![m].status = IF outbox[m].attempts >= MaxAttempts
                                    THEN "failed" ELSE "pending"]
  ELSE outbox

(***************************************************************************)
(* Actions.                                                                *)
(***************************************************************************)
\* A use case commits with its messages.
EnqueueMessage(m) ==
  /\ outbox[m].status = "absent"
  /\ \A n \in Messages : n < m => outbox[n].status # "absent"
  /\ outbox' = [outbox EXCEPT ![m].status = "pending"]
  /\ UNCHANGED <<run, accepted, confirmed>>

\* A run starts and sweeps; both compare with the same startedAt.
StartRun(r) ==
  /\ ~Active(r)
  /\ outbox' = failStaleSending
  /\ run' = [run EXCEPT ![r] = [Off EXCEPT !.phase = "claiming"]]
  /\ UNCHANGED <<accepted, confirmed>>

\* Every five minutes, by when a run that started before is past its deadline.
ScheduledRun(r) ==
  /\ \A q \in Runs : Active(q) => run[q].late
  /\ StartRun(r)

\* pg-boss starts a job over when its worker stops sending heartbeats, which
\* does not stop the worker.
RetriedRun(r) ==
  /\ \E q \in Runs : Active(q) /\ ~run[q].late
  /\ StartRun(r)

\* claimNext locks the oldest row it may take and nobody else has locked.
SelectRow(r) ==
  /\ run[r].phase = "claiming"
  /\ ~run[r].late
  /\ \E m \in Claimable(r) \ Locked :
       /\ \A n \in Claimable(r) \ Locked : m <= n
       /\ run' = [run EXCEPT ![r].phase = "selected", ![r].message = m]
  /\ UNCHANGED <<outbox, accepted, confirmed>>

\* claimNext commits.
ClaimRow(r) ==
  LET m == run[r].message IN
  /\ run[r].phase = "selected"
  /\ outbox' = [outbox EXCEPT ![m] = [status |-> "sending", attempts |-> @.attempts + 1,
                                      stale |-> FALSE]]
  /\ run' = [q \in Runs |->
               [run[q] EXCEPT !.phase = IF q = r THEN "sending" ELSE @,
                              !.claimedSince = IF Active(q) THEN @ \cup {m} ELSE @]]
  /\ UNCHANGED <<accepted, confirmed>>

\* The provider takes the email or not, and the run is told or sees an error.
SendEmail(r, taken, ok) ==
  LET m == run[r].message IN
  /\ run[r].phase = "sending"
  /\ ok => taken
  /\ run' = [run EXCEPT ![r].phase = "recording", ![r].ok = ok]
  /\ accepted' = [accepted EXCEPT ![m] = IF taken THEN @ + 1 ELSE @]
  /\ confirmed' = IF ok THEN confirmed \cup {m} ELSE confirmed
  /\ outbox' = outbox

\* sendAndRecord writes the result and the run goes on after its pause.
RecordResult(r) ==
  LET m == run[r].message IN
  /\ run[r].phase = "recording"
  /\ outbox' = IF run[r].ok THEN markSent(m) ELSE markFailed(m)
  /\ run' = [run EXCEPT ![r].phase = "claiming", ![r].message = NoMessage, ![r].ok = FALSE]
  /\ UNCHANGED <<accepted, confirmed>>

\* Nothing left to claim, or past the deadline.
EndRun(r) ==
  /\ run[r].phase = "claiming"
  /\ run[r].late \/ Claimable(r) \subseteq Locked
  /\ run' = [run EXCEPT ![r] = Off]
  /\ UNCHANGED <<outbox, accepted, confirmed>>

\* A query fails or the process stops; a lock held is released.
RunFails(r) ==
  /\ Active(r)
  /\ run' = [run EXCEPT ![r] = Off]
  /\ UNCHANGED <<outbox, accepted, confirmed>>

\* RUN_DEADLINE_MS.
DeadlinePasses(r) ==
  /\ Active(r)
  /\ ~run[r].late
  /\ run' = [run EXCEPT ![r].late = TRUE]
  /\ UNCHANGED <<outbox, accepted, confirmed>>

\* STALE_SENDING_MS, longer than the deadline of the runs that were under way
\* when the row was claimed.
ClaimGetsStale(m) ==
  /\ outbox[m].status = "sending"
  /\ ~outbox[m].stale
  /\ \A r \in Runs : m \in run[r].claimedSince => run[r].late
  /\ outbox' = [outbox EXCEPT ![m].stale = TRUE]
  /\ UNCHANGED <<run, accepted, confirmed>>

(***************************************************************************)
(* Specification.                                                          *)
(***************************************************************************)
Init ==
  /\ outbox = [m \in Messages |-> [status |-> "absent", attempts |-> 0, stale |-> FALSE]]
  /\ run = [r \in Runs |-> Off]
  /\ accepted = [m \in Messages |-> 0]
  /\ confirmed = {}

Next ==
  \/ \E m \in Messages : EnqueueMessage(m) \/ ClaimGetsStale(m)
  \/ \E r \in Runs :
       \/ ScheduledRun(r)
       \/ RetriedRun(r)
       \/ SelectRow(r)
       \/ ClaimRow(r)
       \/ \E taken, ok \in BOOLEAN : SendEmail(r, taken, ok)
       \/ RecordResult(r)
       \/ EndRun(r)
       \/ RunFails(r)
       \/ DeadlinePasses(r)

Spec == Init /\ [][Next]_vars

(***************************************************************************)
(* pg-boss starts runs for ever, a fetch ends at the latest by its         *)
(* timeout, time passes, and not every run fails before its claim.         *)
(***************************************************************************)
Fairness ==
  /\ WF_vars(\E r \in Runs : ScheduledRun(r))
  /\ \A r \in Runs :
       /\ SF_vars(SelectRow(r))
       /\ SF_vars(ClaimRow(r))
       /\ WF_vars(\E taken, ok \in BOOLEAN : SendEmail(r, taken, ok))
       /\ WF_vars(RecordResult(r))
       /\ WF_vars(EndRun(r))
       /\ WF_vars(DeadlinePasses(r))
  /\ \A m \in Messages : WF_vars(ClaimGetsStale(m))

FairSpec == Spec /\ Fairness

(***************************************************************************)
(* Refinement.                                                             *)
(***************************************************************************)
Holds(r, m) == run[r].phase \in {"sending", "recording"} /\ run[r].message = m

Recorded == [m \in Messages |-> outbox[m].status]
Attempts == [m \in Messages |-> outbox[m].attempts]
Calling == {m \in Messages : \E r \in Runs : run[r].phase = "sending" /\ run[r].message = m}

Delivery == INSTANCE OutboxDelivery
              WITH status <- Recorded, attempts <- Attempts, calling <- Calling,
                   deliveries <- accepted, known <- confirmed

\* However runs overlap, fail, are started over or swept, each message keeps to
\* the contract of one delivery: one call of the provider per counted attempt,
\* "sent" only for what a run was told is delivered, no other attempt at that,
\* and an outcome, once recorded, that no late result changes.
DeliversAsPromised == Delivery!Spec

(***************************************************************************)
(* Properties.                                                             *)
(***************************************************************************)
\* Types; among them, that an attempt counter never passes MaxAttempts.
TypeOK ==
  /\ outbox \in [Messages -> OutboxRow]
  /\ run \in [Runs -> Run]
  /\ accepted \in [Messages -> 0..MaxAttempts]
  /\ confirmed \subseteq Messages

\* Results carry no claim identity, only the message's id, and are accepted
\* while the row is sending: no two runs may ever be sending one message, or
\* one would record the other's result.
OneRunPerMessage ==
  \A q, r \in Runs, m \in Messages : Holds(q, m) /\ Holds(r, m) => q = r

\* The provider gets an email at most once per attempt, so three times at
\* most, whatever runs overlap, fail or are swept.
DeliveriesWithinAttempts == \A m \in Messages : accepted[m] <= outbox[m].attempts

\* Nobody would ever claim a pending message without attempts left.
PendingCanBeClaimed ==
  \A m \in Messages : outbox[m].status = "pending" => outbox[m].attempts < MaxAttempts

\* An email some run knows to be delivered is not offered to another run: not
\* by a failed write of its result, nor by a sweep that comes before it.
ConfirmedIsNotRetried ==
  \A m \in confirmed : outbox[m].status # "pending"

\* What is recorded as sent was delivered, and a run was told so: a result is
\* never recorded on another message, or on a later attempt.
SentIsDelivered == \A m \in Messages : outbox[m].status = "sent" => m \in confirmed

\* A result that comes after the sweep, or after another, changes nothing.
SettledForGood ==
  [][\A m \in Messages : outbox[m].status \in {"sent", "failed"} => outbox'[m] = outbox[m]]_vars

\* Every message ends up sent or failed, even if a run stops while it is
\* sending.
EveryMessageSettles ==
  \A m \in Messages :
    outbox[m].status = "pending" ~> outbox[m].status \in {"sent", "failed"}
===============================================================================
