--------------------------- MODULE MessageOutboxProof ---------------------------
(***************************************************************************)
(* Proofs about MessageOutbox, for any number of messages, of runs under   *)
(* way at the same time and of attempts.                                   *)
(***************************************************************************)
EXTENDS MessageOutbox, TLAPS

(***************************************************************************)
(* The inductive invariant.                                                *)
(***************************************************************************)
\* Row locks are exclusive, and what a run has locked is still its to claim.
LocksAreExclusive ==
  /\ \A r \in Runs : run[r].phase = "selected" =>
       /\ run[r].message \in Messages
       /\ outbox[run[r].message].status = "pending"
       /\ outbox[run[r].message].attempts < MaxAttempts
  /\ \A q, r \in Runs :
       /\ run[q].phase = "selected" /\ run[r].phase = "selected"
       /\ run[q].message = run[r].message
       => q = r

\* A message somebody is sending has been claimed and is not for others.
HeldIsClaimed ==
  \A r \in Runs : run[r].phase \in {"sending", "recording"} =>
    run[r].message \in Messages
      /\ outbox[run[r].message].status \in {"sending", "sent", "failed"}

\* The attempt of a run that has not sent yet is still unused.
AttemptsCount ==
  /\ \A m \in Messages : accepted[m] <= outbox[m].attempts
  /\ \A r \in Runs : run[r].phase = "sending" =>
       accepted[run[r].message] < outbox[run[r].message].attempts

\* Once confirmed, the only run still at work on a message is the one that was
\* told, and the message is no longer pending.
ConfirmedOnce ==
  \A m \in confirmed :
    /\ outbox[m].status \in {"sending", "sent", "failed"}
    /\ \A r \in Runs : Holds(r, m) => run[r].phase = "recording" /\ run[r].ok

\* A run that was told of a delivery still knows it for the same message.
ToldIsConfirmed ==
  \A r \in Runs : run[r].phase = "recording" /\ run[r].ok => run[r].message \in confirmed

\* What nobody has enqueued, nobody has tried.
NewIsUntried == \A m \in Messages : outbox[m].status = "absent" => outbox[m].attempts = 0

IInv ==
  /\ TypeOK
  /\ NewIsUntried
  /\ LocksAreExclusive
  /\ HeldIsClaimed
  /\ OneRunPerMessage
  /\ AttemptsCount
  /\ PendingCanBeClaimed
  /\ ConfirmedOnce
  /\ ToldIsConfirmed
  /\ SentIsDelivered

\* The constants are numbers.
LEMMA Bounds ==
  ASSUME TypeOK
  PROVE  /\ MaxAttempts \in Nat \ {0}
         /\ NoMessage \notin Messages
         /\ \A m \in Messages : m \in Int /\ outbox[m] \in OutboxRow
         /\ \A m \in Messages : outbox[m].attempts \in Int /\ accepted[m] \in Int
         /\ \A r \in Runs : run[r] \in Run
BY OutboxAssumption DEF TypeOK, Messages, NoMessage, OutboxRow

\* Steps that change no run's phase, message or result, and no row but for
\* absent rows that become pending and for flags of age.
LEMMA QuietSafe ==
  ASSUME IInv, TypeOK',
         UNCHANGED <<accepted, confirmed>>,
         \A r \in Runs : /\ run'[r].phase = run[r].phase
                         /\ run'[r].message = run[r].message
                         /\ run'[r].ok = run[r].ok,
         \A m \in Messages : /\ outbox'[m].attempts = outbox[m].attempts
                             /\ \/ outbox'[m].status = outbox[m].status
                                \/ outbox[m].status = "absent" /\ outbox'[m].status = "pending"
  PROVE  IInv'
<1> USE DEF IInv
<1>1. NewIsUntried' /\ AttemptsCount'
  BY DEF NewIsUntried, AttemptsCount, HeldIsClaimed
<1>2. PendingCanBeClaimed'
  BY OutboxAssumption DEF PendingCanBeClaimed, NewIsUntried
<1>3. LocksAreExclusive' /\ HeldIsClaimed'
  BY DEF LocksAreExclusive, HeldIsClaimed
<1>4. OneRunPerMessage'
  BY DEF OneRunPerMessage, Holds
<1>5. ConfirmedOnce'
  BY DEF ConfirmedOnce, Holds, TypeOK
<1>6. ToldIsConfirmed' /\ SentIsDelivered'
  BY DEF ToldIsConfirmed, SentIsDelivered
<1>7. QED
  BY <1>1, <1>2, <1>3, <1>4, <1>5, <1>6

\* A run that goes off drops what it held.
LEMMA DroppedSafe ==
  ASSUME IInv, TypeOK', NEW r \in Runs,
         UNCHANGED <<outbox, accepted, confirmed>>,
         run'[r].phase \in {"off", "claiming"},
         \A q \in Runs \ {r} : run'[q] = run[q]
  PROVE  IInv'
<1> USE DEF IInv
<1>1. NewIsUntried' /\ AttemptsCount' /\ PendingCanBeClaimed'
  BY DEF NewIsUntried, AttemptsCount, HeldIsClaimed, PendingCanBeClaimed
<1>2. LocksAreExclusive' /\ HeldIsClaimed'
  BY DEF LocksAreExclusive, HeldIsClaimed
<1>3. OneRunPerMessage' /\ ConfirmedOnce'
  BY DEF OneRunPerMessage, ConfirmedOnce, Holds
<1>4. ToldIsConfirmed' /\ SentIsDelivered'
  BY DEF ToldIsConfirmed, SentIsDelivered
<1>5. QED
  BY <1>1, <1>2, <1>3, <1>4

\* The sweep only fails rows that are sending.
LEMMA StartSafe ==
  ASSUME IInv, NEW r \in Runs, StartRun(r)
  PROVE  IInv'
<1> USE DEF IInv
<1>1. UNCHANGED <<accepted, confirmed>>
  BY DEF StartRun
<1>2. run' = [run EXCEPT ![r] = [Off EXCEPT !.phase = "claiming"]]
  BY DEF StartRun
<1>3. [Off EXCEPT !.phase = "claiming"] \in Run /\ [Off EXCEPT !.phase = "claiming"].phase = "claiming"
  BY DEF Off, Run, Phase
<1>4. /\ run' \in [Runs -> Run]
      /\ run'[r].phase = "claiming"
      /\ \A q \in Runs \ {r} : run'[q] = run[q]
  BY <1>2, <1>3 DEF TypeOK
<1>5. ASSUME NEW m \in Messages
      PROVE  /\ outbox'[m] \in OutboxRow
             /\ outbox'[m].attempts = outbox[m].attempts
             /\ \/ outbox'[m].status = outbox[m].status
                \/ outbox[m].status = "sending" /\ outbox'[m].status = "failed"
  BY Bounds DEF StartRun, failStaleSending, OutboxRow, Status
<1>6. TypeOK'
  BY <1>1, <1>4, <1>5 DEF TypeOK, StartRun, failStaleSending
<1>7. NewIsUntried' /\ PendingCanBeClaimed' /\ AttemptsCount'
  BY <1>1, <1>4, <1>5 DEF NewIsUntried, PendingCanBeClaimed, AttemptsCount, HeldIsClaimed
<1>8. LocksAreExclusive' /\ HeldIsClaimed'
  BY <1>4, <1>5 DEF LocksAreExclusive, HeldIsClaimed
<1>9. OneRunPerMessage' /\ ConfirmedOnce'
  BY <1>1, <1>4, <1>5 DEF OneRunPerMessage, ConfirmedOnce, Holds, TypeOK
<1>10. ToldIsConfirmed' /\ SentIsDelivered'
  BY <1>1, <1>4, <1>5 DEF ToldIsConfirmed, SentIsDelivered
<1>11. QED
  BY <1>6, <1>7, <1>8, <1>9, <1>10

\* A row is locked only if nobody has locked it.
LEMMA SelectSafe ==
  ASSUME IInv, NEW r \in Runs, SelectRow(r)
  PROVE  IInv'
<1> USE DEF IInv
<1>1. PICK m \in Claimable(r) \ Locked :
         run' = [run EXCEPT ![r].phase = "selected", ![r].message = m]
  BY DEF SelectRow
<1>2. UNCHANGED <<outbox, accepted, confirmed>>
  BY DEF SelectRow
<1>3. m \in Messages /\ outbox[m].status = "pending" /\ outbox[m].attempts < MaxAttempts
  BY DEF Claimable
<1>4. /\ run' \in [Runs -> Run]
      /\ run'[r].phase = "selected" /\ run'[r].message = m
      /\ \A q \in Runs \ {r} : run'[q] = run[q]
  BY <1>1, <1>3 DEF TypeOK, Run, Phase
<1>5. \A q \in Runs : run[q].phase = "selected" => run[q].message # m
  BY <1>1 DEF Locked
<1>6. TypeOK'
  BY <1>2, <1>4 DEF TypeOK
<1>7. LocksAreExclusive'
  BY <1>2, <1>3, <1>4, <1>5 DEF LocksAreExclusive
<1>8. NewIsUntried' /\ PendingCanBeClaimed' /\ AttemptsCount' /\ HeldIsClaimed'
  BY <1>2, <1>4 DEF NewIsUntried, PendingCanBeClaimed, AttemptsCount, HeldIsClaimed
<1>9. OneRunPerMessage' /\ ConfirmedOnce'
  BY <1>2, <1>4 DEF OneRunPerMessage, ConfirmedOnce, Holds
<1>10. ToldIsConfirmed' /\ SentIsDelivered'
  BY <1>2, <1>4 DEF ToldIsConfirmed, SentIsDelivered
<1>11. QED
  BY <1>6, <1>7, <1>8, <1>9, <1>10

\* The row claimed was pending, so nobody was sending it.
LEMMA ClaimSafe ==
  ASSUME IInv, NEW r \in Runs, ClaimRow(r)
  PROVE  IInv'
<1> USE DEF IInv
<1> DEFINE m == run[r].message
<1>1. /\ m \in Messages /\ outbox[m].status = "pending" /\ outbox[m].attempts < MaxAttempts
      /\ run[r].phase = "selected"
  BY DEF ClaimRow, LocksAreExclusive
<1>2. UNCHANGED <<accepted, confirmed>>
  BY DEF ClaimRow
<1>3. /\ outbox' \in [Messages -> OutboxRow]
      /\ outbox'[m].status = "sending" /\ outbox'[m].attempts = outbox[m].attempts + 1
      /\ \A n \in Messages \ {m} : outbox'[n] = outbox[n]
  <2>1. outbox[m].attempts + 1 \in 0..MaxAttempts
    BY <1>1, Bounds DEF OutboxRow
  <2>2. outbox' = [outbox EXCEPT ![m] = [status |-> "sending",
                                         attempts |-> outbox[m].attempts + 1, stale |-> FALSE]]
    BY DEF ClaimRow
  <2>3. QED
    BY <1>1, <2>1, <2>2 DEF TypeOK, OutboxRow, Status
<1>4. /\ run' \in [Runs -> Run]
      /\ run'[r].phase = "sending"
      /\ \A q \in Runs : run'[q].message = run[q].message /\ run'[q].ok = run[q].ok
      /\ \A q \in Runs \ {r} : run'[q].phase = run[q].phase
  <2>1. ASSUME NEW q \in Runs
        PROVE  /\ run'[q] = [run[q] EXCEPT !.phase = IF q = r THEN "sending" ELSE @,
                                           !.claimedSince = IF Active(q) THEN @ \cup {m} ELSE @]
    BY DEF ClaimRow
  <2>2. ASSUME NEW q \in Runs
        PROVE  /\ run'[q] \in Run
               /\ run'[q].message = run[q].message /\ run'[q].ok = run[q].ok
               /\ run'[q].phase = IF q = r THEN "sending" ELSE run[q].phase
    <3>1. run[q] \in Run /\ (run[q].claimedSince \cup {m}) \in SUBSET Messages
      BY <1>1, Bounds DEF Run
    <3>2. CASE q = r
      <4>1. run'[q] = [run[q] EXCEPT !.phase = "sending",
                                     !.claimedSince = IF Active(q) THEN @ \cup {m} ELSE @]
        BY <2>1, <3>2
      <4>2. QED
        BY <3>1, <3>2, <4>1 DEF Run, Phase
    <3>3. CASE q # r
      <4>1. run'[q] = [run[q] EXCEPT !.claimedSince = IF Active(q) THEN @ \cup {m} ELSE @]
        BY <2>1, <3>1, <3>3 DEF Run
      <4>2. QED
        BY <3>1, <3>3, <4>1 DEF Run
    <3>4. QED
      BY <3>2, <3>3
  <2>3. run' = [q \in Runs |-> run'[q]]
    BY DEF ClaimRow
  <2>4. QED
    BY <2>2, <2>3
<1> HIDE DEF m
<1>5. m = run[r].message
  BY DEF m
<1>6. TypeOK'
  BY <1>2, <1>3, <1>4 DEF TypeOK
<1>7. \A q \in Runs : run[q].phase \in {"selected", "sending", "recording"} /\ run[q].message = m
        => q = r
  BY <1>1, <1>5 DEF LocksAreExclusive, HeldIsClaimed
<1>8. LocksAreExclusive' /\ HeldIsClaimed'
  BY <1>1, <1>3, <1>4, <1>5, <1>7 DEF LocksAreExclusive, HeldIsClaimed
<1>9. OneRunPerMessage'
  BY <1>4, <1>5, <1>7 DEF OneRunPerMessage, Holds
<1>10. AttemptsCount'
  BY <1>1, <1>2, <1>3, <1>4, <1>5, <1>7, Bounds DEF AttemptsCount, HeldIsClaimed
<1>11. NewIsUntried' /\ PendingCanBeClaimed'
  BY <1>3 DEF NewIsUntried, PendingCanBeClaimed
<1>12. ConfirmedOnce'
  BY <1>1, <1>2, <1>3, <1>4, <1>5 DEF ConfirmedOnce, Holds, TypeOK
<1>13. ToldIsConfirmed' /\ SentIsDelivered'
  BY <1>2, <1>3, <1>4 DEF ToldIsConfirmed, SentIsDelivered
<1>14. QED
  BY <1>6, <1>8, <1>9, <1>10, <1>11, <1>12, <1>13

\* The run that sends uses up its attempt.
LEMMA SendSafe ==
  ASSUME IInv, NEW r \in Runs, NEW taken \in BOOLEAN, NEW ok \in BOOLEAN,
         SendEmail(r, taken, ok)
  PROVE  IInv'
<1> USE DEF IInv
<1> DEFINE m == run[r].message
<1>1. /\ run[r].phase = "sending" /\ m \in Messages
      /\ outbox[m].status \in {"sending", "sent", "failed"}
      /\ accepted[m] < outbox[m].attempts
  BY DEF SendEmail, HeldIsClaimed, AttemptsCount
<1>2. outbox' = outbox
  BY DEF SendEmail
<1>3. /\ run' \in [Runs -> Run]
      /\ run'[r].phase = "recording" /\ run'[r].message = m /\ run'[r].ok = ok
      /\ \A q \in Runs \ {r} : run'[q] = run[q]
  BY DEF SendEmail, TypeOK, Run, Phase
<1>4. /\ accepted' \in [Messages -> 0..MaxAttempts]
      /\ accepted'[m] <= outbox[m].attempts
      /\ \A n \in Messages \ {m} : accepted'[n] = accepted[n]
  <2>1. accepted[m] + 1 \in 0..MaxAttempts /\ accepted[m] + 1 <= outbox[m].attempts
    BY <1>1, Bounds DEF TypeOK, OutboxRow
  <2>2. accepted' = [accepted EXCEPT ![m] = IF taken THEN accepted[m] + 1 ELSE accepted[m]]
    BY DEF SendEmail
  <2>3. QED
    BY <1>1, <2>1, <2>2, Bounds DEF TypeOK
<1>5. confirmed' = IF ok THEN confirmed \cup {m} ELSE confirmed
  BY DEF SendEmail
<1> HIDE DEF m
<1>6. m = run[r].message
  BY DEF m
<1>7. TypeOK'
  BY <1>1, <1>2, <1>3, <1>4, <1>5 DEF TypeOK
<1>8. \A q \in Runs : Holds(q, m) => q = r
  BY <1>1, <1>6 DEF OneRunPerMessage, Holds
<1>9. LocksAreExclusive' /\ HeldIsClaimed'
  BY <1>1, <1>2, <1>3 DEF LocksAreExclusive, HeldIsClaimed
<1>10. OneRunPerMessage'
  BY <1>1, <1>3, <1>6 DEF OneRunPerMessage, Holds
<1>11. AttemptsCount'
  <2>1. \A q \in Runs \ {r} : run[q].phase = "sending" => run[q].message # m
    BY <1>8 DEF Holds
  <2>2. QED
    BY <1>2, <1>3, <1>4, <2>1 DEF AttemptsCount, HeldIsClaimed
<1>12. NewIsUntried' /\ PendingCanBeClaimed'
  BY <1>2 DEF NewIsUntried, PendingCanBeClaimed
<1>13. m \notin confirmed
  BY <1>1, <1>6 DEF ConfirmedOnce, Holds
<1>14. ConfirmedOnce'
  BY <1>1, <1>2, <1>3, <1>5, <1>8, <1>13 DEF ConfirmedOnce, Holds
<1>15. ToldIsConfirmed' /\ SentIsDelivered'
  BY <1>2, <1>3, <1>5 DEF ToldIsConfirmed, SentIsDelivered
<1>16. QED
  BY <1>7, <1>9, <1>10, <1>11, <1>12, <1>14, <1>15

\* The result is the run's own, and a retry leaves an attempt to use.
LEMMA RecordSafe ==
  ASSUME IInv, NEW r \in Runs, RecordResult(r)
  PROVE  IInv'
<1> USE DEF IInv
<1> DEFINE m == run[r].message
<1>1. run[r].phase = "recording" /\ m \in Messages
  BY DEF RecordResult, HeldIsClaimed
<1>2. UNCHANGED <<accepted, confirmed>>
  BY DEF RecordResult
<1>3. /\ run' \in [Runs -> Run]
      /\ run'[r].phase = "claiming"
      /\ \A q \in Runs \ {r} : run'[q] = run[q]
  <2> DEFINE new == [run[r] EXCEPT !.phase = "claiming", !.message = NoMessage, !.ok = FALSE]
  <2>1. new \in Run /\ new.phase = "claiming"
    BY Bounds DEF Run, Phase
  <2>2. run' = [run EXCEPT ![r] = new]
    BY DEF RecordResult, TypeOK
  <2> HIDE DEF new
  <2>3. QED
    BY <2>1, <2>2 DEF TypeOK
<1>4. /\ outbox' \in [Messages -> OutboxRow]
      /\ \A n \in Messages \ {m} : outbox'[n] = outbox[n]
      /\ outbox'[m].attempts = outbox[m].attempts
      /\ outbox[m].status # "sending" => outbox'[m].status = outbox[m].status
      /\ outbox[m].status = "sending" =>
           \/ run[r].ok /\ outbox'[m].status = "sent"
           \/ ~run[r].ok /\ outbox'[m].status = "failed"
           \/ ~run[r].ok /\ outbox'[m].status = "pending" /\ outbox[m].attempts < MaxAttempts
  <2>1. CASE outbox[m].status # "sending"
    BY <1>1, <2>1 DEF RecordResult, markSent, markFailed, TypeOK
  <2>2. CASE outbox[m].status = "sending" /\ run[r].ok
    <3>1. outbox' = [outbox EXCEPT ![m].status = "sent"]
      BY <2>2 DEF RecordResult, markSent
    <3>2. QED
      BY <1>1, <2>2, <3>1 DEF TypeOK, OutboxRow, Status
  <2>3. CASE outbox[m].status = "sending" /\ ~run[r].ok
    <3>1. outbox' = [outbox EXCEPT ![m].status = IF outbox[m].attempts >= MaxAttempts
                                                 THEN "failed" ELSE "pending"]
      BY <2>3 DEF RecordResult, markFailed
    <3>2. outbox[m].attempts >= MaxAttempts \/ outbox[m].attempts < MaxAttempts
      BY <1>1, Bounds
    <3>3. QED
      BY <1>1, <2>3, <3>1, <3>2 DEF TypeOK, OutboxRow, Status
  <2>4. QED
    BY <2>1, <2>2, <2>3
<1> HIDE DEF m
<1>5. m = run[r].message
  BY DEF m
<1>6. TypeOK'
  BY <1>2, <1>3, <1>4 DEF TypeOK
<1>7. /\ outbox[m].status \in {"sending", "sent", "failed"}
      /\ \A q \in Runs : Holds(q, m) => q = r
      /\ \A q \in Runs : run[q].phase = "selected" => run[q].message # m
  BY <1>1, <1>5 DEF HeldIsClaimed, OneRunPerMessage, Holds, LocksAreExclusive
<1>8. LocksAreExclusive'
  BY <1>3, <1>4, <1>7 DEF LocksAreExclusive
<1>9. HeldIsClaimed'
  BY <1>3, <1>4, <1>7 DEF HeldIsClaimed, Holds
<1>10. OneRunPerMessage'
  BY <1>3 DEF OneRunPerMessage, Holds
<1>11. AttemptsCount'
  BY <1>2, <1>3, <1>4 DEF AttemptsCount, HeldIsClaimed
<1>12. NewIsUntried' /\ PendingCanBeClaimed'
  BY <1>4, <1>7 DEF NewIsUntried, PendingCanBeClaimed
<1>13. m \in confirmed => run[r].ok
  BY <1>1, <1>5 DEF ConfirmedOnce, Holds
<1>14. ConfirmedOnce'
  BY <1>2, <1>3, <1>4, <1>7, <1>13 DEF ConfirmedOnce, Holds, TypeOK
<1>15. ToldIsConfirmed'
  BY <1>2, <1>3 DEF ToldIsConfirmed
<1>16. SentIsDelivered'
  BY <1>1, <1>2, <1>4, <1>5 DEF SentIsDelivered, ToldIsConfirmed
<1>17. QED
  BY <1>6, <1>8, <1>9, <1>10, <1>11, <1>12, <1>14, <1>15, <1>16

\* The invariant is inductive.
LEMMA InvariantStep ==
  ASSUME IInv, [Next]_vars
  PROVE  IInv'
<1> USE DEF IInv
<1>1. CASE UNCHANGED vars
  <2>1. TypeOK'
    BY <1>1 DEF vars, TypeOK
  <2>2. QED
    BY <1>1, <2>1, QuietSafe DEF vars
<1>2. ASSUME NEW m \in Messages, EnqueueMessage(m)
      PROVE  IInv'
  <2>1. /\ outbox' = [outbox EXCEPT ![m].status = "pending"]
        /\ outbox[m].status = "absent"
        /\ UNCHANGED <<run, accepted, confirmed>>
    BY <1>2 DEF EnqueueMessage
  <2>2. \A n \in Messages :
          /\ outbox'[n].attempts = outbox[n].attempts
          /\ \/ outbox'[n].status = outbox[n].status
             \/ outbox[n].status = "absent" /\ outbox'[n].status = "pending"
    BY <2>1, Bounds DEF TypeOK, OutboxRow
  <2>3. TypeOK'
    BY <2>1 DEF TypeOK, OutboxRow, Status
  <2>4. QED
    BY <2>1, <2>2, <2>3, QuietSafe
<1>3. ASSUME NEW m \in Messages, ClaimGetsStale(m)
      PROVE  IInv'
  <2>1. /\ outbox' = [outbox EXCEPT ![m].stale = TRUE]
        /\ UNCHANGED <<run, accepted, confirmed>>
    BY <1>3 DEF ClaimGetsStale
  <2>2. \A n \in Messages : /\ outbox'[n].attempts = outbox[n].attempts
                            /\ outbox'[n].status = outbox[n].status
    BY <2>1, Bounds DEF TypeOK, OutboxRow
  <2>3. TypeOK'
    BY <2>1 DEF TypeOK, OutboxRow
  <2>4. QED
    BY <2>1, <2>2, <2>3, QuietSafe
<1>4. ASSUME NEW r \in Runs, DeadlinePasses(r)
      PROVE  IInv'
  <2>1. run' = [run EXCEPT ![r].late = TRUE] /\ UNCHANGED <<outbox, accepted, confirmed>>
    BY <1>4 DEF DeadlinePasses
  <2>2. \A q \in Runs : /\ run'[q].phase = run[q].phase
                        /\ run'[q].message = run[q].message
                        /\ run'[q].ok = run[q].ok
    BY <2>1, Bounds DEF TypeOK, Run
  <2>3. TypeOK'
    BY <2>1 DEF TypeOK, Run
  <2>4. QED
    BY <2>1, <2>2, <2>3, QuietSafe
<1>5. ASSUME NEW r \in Runs, EndRun(r) \/ RunFails(r)
      PROVE  IInv'
  <2>1. run' = [run EXCEPT ![r] = Off] /\ UNCHANGED <<outbox, accepted, confirmed>>
    BY <1>5 DEF EndRun, RunFails
  <2>2. Off \in Run /\ Off.phase = "off"
    BY DEF Off, Run, Phase
  <2>3. TypeOK'
    BY <2>1, <2>2 DEF TypeOK
  <2>4. run'[r].phase = "off" /\ \A q \in Runs \ {r} : run'[q] = run[q]
    BY <2>1, <2>2 DEF TypeOK
  <2>5. QED
    BY <2>1, <2>3, <2>4, DroppedSafe
<1>6. ASSUME NEW r \in Runs, ScheduledRun(r) \/ RetriedRun(r)
      PROVE  IInv'
  BY <1>6, StartSafe DEF ScheduledRun, RetriedRun
<1>7. QED
  BY <1>1, <1>2, <1>3, <1>4, <1>5, <1>6, SelectSafe, ClaimSafe, SendSafe, RecordSafe DEF Next

\* The invariant holds.
THEOREM Invariant == Spec => []IInv
<1>1. Init => IInv
  <2> SUFFICES ASSUME Init PROVE IInv
    OBVIOUS
  <2>1. Off \in Run /\ Off.phase = "off"
    BY DEF Off, Run, Phase
  <2>2. MaxAttempts \in Nat \ {0}
    BY OutboxAssumption
  <2>3. TypeOK
    BY <2>1, <2>2 DEF Init, TypeOK, OutboxRow, Status
  <2>4. NewIsUntried /\ PendingCanBeClaimed /\ AttemptsCount
    BY <2>1, <2>2 DEF Init, NewIsUntried, PendingCanBeClaimed, AttemptsCount
  <2>5. LocksAreExclusive /\ HeldIsClaimed /\ OneRunPerMessage /\ ConfirmedOnce
    BY <2>1 DEF Init, LocksAreExclusive, HeldIsClaimed, OneRunPerMessage, ConfirmedOnce, Holds
  <2>6. ToldIsConfirmed /\ SentIsDelivered
    BY <2>1 DEF Init, ToldIsConfirmed, SentIsDelivered
  <2>7. QED
    BY <2>3, <2>4, <2>5, <2>6 DEF IInv
<1>2. IInv /\ [Next]_vars => IInv'
  BY InvariantStep
<1>3. QED
  BY <1>1, <1>2, PTL DEF Spec

(***************************************************************************)
(* Refinement: each step of a run is a step of the delivery it is for.     *)
(***************************************************************************)
Delivered == <<Recorded, Attempts, Calling, accepted, confirmed>>

\* The mapping of a step that keeps every message in its status and attempts,
\* and of one that changes a single message.
LEMMA RecordedSame ==
  ASSUME \A m \in Messages : /\ outbox'[m].status = outbox[m].status
                             /\ outbox'[m].attempts = outbox[m].attempts
  PROVE  Recorded' = Recorded /\ Attempts' = Attempts
BY DEF Recorded, Attempts

LEMMA RecordedOne ==
  ASSUME NEW m \in Messages,
         \A n \in Messages \ {m} : outbox'[n] = outbox[n]
  PROVE  /\ Recorded' = [Recorded EXCEPT ![m] = outbox'[m].status]
         /\ Attempts' = [Attempts EXCEPT ![m] = outbox'[m].attempts]
BY DEF Recorded, Attempts

\* Who calls depends on phases and messages only.
LEMMA CallingSame ==
  ASSUME \A r \in Runs : /\ run'[r].phase = "sending" <=> run[r].phase = "sending"
                         /\ run[r].phase = "sending" => run'[r].message = run[r].message
  PROVE  Calling' = Calling
BY DEF Calling

\* A run that was sending m, alone, and no longer is.
LEMMA CallingEnds ==
  ASSUME OneRunPerMessage, NEW r \in Runs, NEW m \in Messages,
         run[r].phase = "sending", run[r].message = m, run'[r].phase # "sending",
         \A q \in Runs \ {r} : run'[q] = run[q]
  PROVE  m \in Calling /\ Calling' = Calling \ {m}
<1>1. \A q \in Runs \ {r} : run[q].phase = "sending" => run[q].message # m
  BY DEF OneRunPerMessage, Holds
<1>2. QED
  BY <1>1 DEF Calling

\* The claim of a row starts an attempt.
LEMMA ClaimIsTry ==
  ASSUME IInv, NEW r \in Runs, ClaimRow(r)
  PROVE  \E m \in Messages : Delivery!Try(m)
<1> DEFINE m == run[r].message
<1>1. /\ m \in Messages /\ outbox[m].status = "pending" /\ outbox[m].attempts < MaxAttempts
      /\ run[r].phase = "selected"
  BY DEF ClaimRow, LocksAreExclusive, IInv
<1>2. UNCHANGED <<accepted, confirmed>>
  BY DEF ClaimRow
<1>3. /\ outbox'[m].status = "sending" /\ outbox'[m].attempts = outbox[m].attempts + 1
      /\ \A n \in Messages \ {m} : outbox'[n] = outbox[n]
  BY <1>1 DEF ClaimRow, IInv, TypeOK
<1>4. ASSUME NEW q \in Runs
      PROVE  /\ run'[q].message = run[q].message
             /\ run'[q].phase = IF q = r THEN "sending" ELSE run[q].phase
  <2>1. run[q] \in Run
    BY DEF IInv, TypeOK
  <2>2. run'[q] = [run[q] EXCEPT !.phase = IF q = r THEN "sending" ELSE @,
                                 !.claimedSince = IF Active(q) THEN @ \cup {m} ELSE @]
    BY DEF ClaimRow
  <2>3. QED
    BY <2>1, <2>2 DEF Run
<1> HIDE DEF m
<1>5. Calling' = Calling \cup {m}
  BY <1>1, <1>4 DEF Calling, m
<1>6. /\ Recorded' = [Recorded EXCEPT ![m] = "sending"]
      /\ Attempts' = [Attempts EXCEPT ![m] = outbox[m].attempts + 1]
  BY <1>1, <1>3, RecordedOne
<1>7. Recorded[m] = "pending" /\ Attempts[m] = outbox[m].attempts
  BY <1>1 DEF Recorded, Attempts
<1>8. Delivery!Try(m)
  BY <1>1, <1>2, <1>5, <1>6, <1>7 DEF Delivery!Try
<1>9. QED
  BY <1>1, <1>8

\* The send uses the attempt up, and is not made for what is known delivered.
LEMMA SendIsCall ==
  ASSUME IInv, NEW r \in Runs, NEW taken \in BOOLEAN, NEW ok \in BOOLEAN,
         SendEmail(r, taken, ok)
  PROVE  \E m \in Messages : Delivery!Call(m, taken, ok)
<1> DEFINE m == run[r].message
<1>1. run[r].phase = "sending" /\ m \in Messages /\ (ok => taken)
  BY DEF SendEmail, HeldIsClaimed, IInv
<1>2. /\ run'[r].phase = "recording"
      /\ \A q \in Runs \ {r} : run'[q] = run[q]
  BY DEF SendEmail, IInv, TypeOK, Run
<1>3. m \in Calling /\ Calling' = Calling \ {m}
  BY <1>1, <1>2, CallingEnds DEF IInv
<1>4. m \notin confirmed
  BY <1>1 DEF ConfirmedOnce, Holds, IInv
<1>5. Recorded' = Recorded /\ Attempts' = Attempts
  BY RecordedSame DEF SendEmail
<1>6. Delivery!Call(m, taken, ok)
  BY <1>1, <1>3, <1>4, <1>5 DEF SendEmail, Delivery!Call
<1>7. QED
  BY <1>1, <1>6

\* A result closes the attempt it belongs to, or finds it closed.
LEMMA RecordIsOutcome ==
  ASSUME IInv, NEW r \in Runs, RecordResult(r)
  PROVE  \/ \E m \in Messages : Delivery!Succeed(m) \/ Delivery!Retry(m) \/ Delivery!GiveUp({m})
         \/ UNCHANGED Delivered
<1> DEFINE m == run[r].message
<1>1. run[r].phase = "recording" /\ m \in Messages /\ outbox[m] \in OutboxRow
  BY Bounds DEF RecordResult, HeldIsClaimed, IInv
<1>2. UNCHANGED <<accepted, confirmed>>
  BY DEF RecordResult
<1>3. Calling' = Calling
  <2>1. run'[r].phase = "claiming" /\ \A q \in Runs \ {r} : run'[q] = run[q]
    BY DEF RecordResult, IInv, TypeOK, Run
  <2>2. QED
    BY <1>1, <2>1, CallingSame
<1>4. CASE outbox[m].status # "sending"
  <2>1. outbox' = outbox
    BY <1>4 DEF RecordResult, markSent, markFailed
  <2>2. QED
    BY <1>2, <1>3, <2>1, RecordedSame DEF Delivered
<1>5. CASE outbox[m].status = "sending" /\ run[r].ok
  <2>1. outbox' = [outbox EXCEPT ![m].status = "sent"]
    BY <1>5 DEF RecordResult, markSent
  <2>2. /\ outbox'[m].status = "sent" /\ outbox'[m].attempts = outbox[m].attempts
        /\ \A n \in Messages \ {m} : outbox'[n] = outbox[n]
    BY <1>1, <2>1 DEF IInv, TypeOK, OutboxRow
  <2>3. /\ Recorded' = [Recorded EXCEPT ![m] = "sent"]
        /\ Attempts' = [Attempts EXCEPT ![m] = outbox[m].attempts]
    BY <1>1, <2>2, RecordedOne
  <2>4. Attempts' = Attempts /\ Recorded[m] = "sending"
    BY <1>1, <1>5, <2>3 DEF Attempts, Recorded
  <2>5. m \in confirmed
    BY <1>1, <1>5 DEF IInv, ToldIsConfirmed
  <2>6. Delivery!Succeed(m)
    BY <1>2, <1>3, <2>3, <2>4, <2>5 DEF Delivery!Succeed
  <2>7. QED
    BY <1>1, <2>6
<1>6. CASE outbox[m].status = "sending" /\ ~run[r].ok
  <2> DEFINE new == IF outbox[m].attempts >= MaxAttempts THEN "failed" ELSE "pending"
  <2>1. outbox' = [outbox EXCEPT ![m].status = new]
    BY <1>6 DEF RecordResult, markFailed
  <2>2. /\ outbox'[m].status = new /\ outbox'[m].attempts = outbox[m].attempts
        /\ \A n \in Messages \ {m} : outbox'[n] = outbox[n]
    BY <1>1, <2>1 DEF IInv, TypeOK, OutboxRow
  <2>3. /\ Recorded' = [Recorded EXCEPT ![m] = new]
        /\ Attempts' = [Attempts EXCEPT ![m] = outbox[m].attempts]
    BY <1>1, <2>2, RecordedOne
  <2>4. Attempts' = Attempts /\ Recorded[m] = "sending" /\ Attempts[m] = outbox[m].attempts
    BY <1>1, <1>6, <2>3 DEF Attempts, Recorded
  <2>5. CASE outbox[m].attempts < MaxAttempts
    <3>1. new = "pending"
      BY <1>1, <2>5, Bounds DEF IInv
    <3>2. m \notin Calling
      BY <1>1 DEF Calling, IInv, OneRunPerMessage, Holds
    <3>3. m \notin confirmed
      BY <1>1, <1>6 DEF IInv, ConfirmedOnce, Holds
    <3>4. Delivery!Retry(m)
      BY <1>2, <1>3, <2>3, <2>4, <2>5, <3>1, <3>2, <3>3 DEF Delivery!Retry
    <3>5. QED
      BY <1>1, <3>4
  <2>6. CASE outbox[m].attempts >= MaxAttempts
    <3>1. Recorded' = [n \in Messages |-> IF n \in {m} THEN "failed" ELSE Recorded[n]]
      BY <2>3, <2>6 DEF Recorded
    <3>2. Delivery!GiveUp({m})
      BY <1>2, <1>3, <2>4, <3>1 DEF Delivery!GiveUp
    <3>3. QED
      BY <1>1, <3>2
  <2>7. outbox[m].attempts < MaxAttempts \/ outbox[m].attempts >= MaxAttempts
    BY <1>1, Bounds DEF IInv
  <2>8. QED
    BY <2>5, <2>6, <2>7
<1>7. QED
  BY <1>4, <1>5, <1>6

\* The sweep of a run that starts gives up what has been sending for too long.
LEMMA StartIsGiveUp ==
  ASSUME IInv, NEW r \in Runs, StartRun(r)
  PROVE  \E M \in SUBSET Messages : Delivery!GiveUp(M)
<1> DEFINE M == {m \in Messages : outbox[m].status = "sending" /\ outbox[m].stale}
<1>1. UNCHANGED <<accepted, confirmed>>
  BY DEF StartRun
<1>2. Calling' = Calling
  <2>1. /\ run[r].phase = "off" /\ run'[r].phase = "claiming"
        /\ \A q \in Runs \ {r} : run'[q] = run[q]
    BY DEF StartRun, Active, Off, IInv, TypeOK
  <2>2. QED
    BY <2>1, CallingSame
<1>3. ASSUME NEW m \in Messages
      PROVE  /\ outbox'[m].attempts = outbox[m].attempts
             /\ outbox'[m].status = IF m \in M THEN "failed" ELSE outbox[m].status
  BY Bounds DEF IInv, StartRun, failStaleSending, OutboxRow
<1>4. /\ Attempts' = Attempts
      /\ Recorded' = [m \in Messages |-> IF m \in M THEN "failed" ELSE Recorded[m]]
  BY <1>3 DEF Attempts, Recorded
<1>5. \A m \in M : Recorded[m] = "sending"
  BY DEF Recorded
<1>6. Delivery!GiveUp(M)
  BY <1>1, <1>2, <1>4, <1>5 DEF Delivery!GiveUp
<1>7. QED
  BY <1>6

\* A run that fails abandons its attempt, if it was still to call; one that ends
\* leaves none.
LEMMA DropIsAbandon ==
  ASSUME IInv, NEW r \in Runs, EndRun(r) \/ RunFails(r)
  PROVE  (\E m \in Messages : Delivery!Abandon(m)) \/ UNCHANGED Delivered
<1>1. UNCHANGED <<outbox, accepted, confirmed>>
  BY DEF EndRun, RunFails
<1>2. run'[r].phase = "off" /\ \A q \in Runs \ {r} : run'[q] = run[q]
  BY DEF EndRun, RunFails, Off, IInv, TypeOK
<1>3. Recorded' = Recorded /\ Attempts' = Attempts
  BY <1>1, RecordedSame
<1>4. CASE run[r].phase = "sending"
  <2>1. run[r].message \in Messages
    BY <1>4 DEF IInv, HeldIsClaimed
  <2>2. run[r].message \in Calling /\ Calling' = Calling \ {run[r].message}
    BY <1>2, <1>4, <2>1, CallingEnds DEF IInv
  <2>3. Delivery!Abandon(run[r].message)
    BY <1>1, <1>3, <2>2 DEF Delivery!Abandon
  <2>4. QED
    BY <2>1, <2>3
<1>5. CASE run[r].phase # "sending"
  BY <1>1, <1>2, <1>3, <1>5, CallingSame DEF Delivered
<1>6. QED
  BY <1>4, <1>5

\* Every step of the model is one of the contract, or changes nothing it speaks
\* of.
LEMMA DeliveryStep ==
  ASSUME IInv, [Next]_vars
  PROVE  [Delivery!Next]_Delivered
<1>1. CASE UNCHANGED vars
  BY <1>1, RecordedSame, CallingSame DEF vars, Delivered
<1>2. ASSUME NEW m \in Messages, EnqueueMessage(m)
      PROVE  Delivery!Commit(m)
  <2>1. /\ outbox' = [outbox EXCEPT ![m].status = "pending"] /\ outbox[m].status = "absent"
        /\ UNCHANGED <<run, accepted, confirmed>>
    BY <1>2 DEF EnqueueMessage
  <2>2. /\ outbox'[m].status = "pending" /\ outbox'[m].attempts = outbox[m].attempts
        /\ \A n \in Messages \ {m} : outbox'[n] = outbox[n]
    BY <2>1, Bounds DEF IInv, TypeOK, OutboxRow
  <2>3. /\ Recorded' = [Recorded EXCEPT ![m] = "pending"]
        /\ Attempts' = [Attempts EXCEPT ![m] = outbox[m].attempts]
    BY <2>2, RecordedOne
  <2>4. Attempts' = Attempts /\ Recorded[m] = "absent"
    BY <2>1, <2>3 DEF Attempts, Recorded
  <2>5. QED
    BY <2>1, <2>3, <2>4, CallingSame DEF Delivery!Commit
<1>3. ASSUME NEW m \in Messages, ClaimGetsStale(m)
      PROVE  UNCHANGED Delivered
  <2>1. outbox' = [outbox EXCEPT ![m].stale = TRUE] /\ UNCHANGED <<run, accepted, confirmed>>
    BY <1>3 DEF ClaimGetsStale
  <2>2. \A n \in Messages : /\ outbox'[n].status = outbox[n].status
                            /\ outbox'[n].attempts = outbox[n].attempts
    BY <2>1, Bounds DEF IInv, TypeOK, OutboxRow
  <2>3. QED
    BY <2>1, <2>2, RecordedSame, CallingSame DEF Delivered
<1>4. ASSUME NEW r \in Runs, SelectRow(r) \/ DeadlinePasses(r)
      PROVE  UNCHANGED Delivered
  <2>1. UNCHANGED <<outbox, accepted, confirmed>>
    BY <1>4 DEF SelectRow, DeadlinePasses
  <2>2. \A q \in Runs : /\ run'[q].phase = "sending" <=> run[q].phase = "sending"
                        /\ run[q].phase = "sending" => run'[q].message = run[q].message
    BY <1>4, Bounds DEF IInv, TypeOK, Run, SelectRow, DeadlinePasses
  <2>3. QED
    BY <2>1, <2>2, RecordedSame, CallingSame DEF Delivered
<1>5. ASSUME NEW r \in Runs, RecordResult(r)
      PROVE  Delivery!Next \/ UNCHANGED Delivered
  BY <1>5, RecordIsOutcome DEF Delivery!Next
<1>6. ASSUME NEW r \in Runs, ScheduledRun(r) \/ RetriedRun(r)
      PROVE  Delivery!Next
  BY <1>6, StartIsGiveUp DEF ScheduledRun, RetriedRun, Delivery!Next
<1>7. ASSUME NEW r \in Runs, EndRun(r) \/ RunFails(r)
      PROVE  Delivery!Next \/ UNCHANGED Delivered
  BY <1>7, DropIsAbandon DEF Delivery!Next
<1>8. ASSUME NEW r \in Runs, ClaimRow(r)
      PROVE  Delivery!Next
  BY <1>8, ClaimIsTry DEF Delivery!Next
<1>9. ASSUME NEW r \in Runs, NEW taken \in BOOLEAN, NEW ok \in BOOLEAN, SendEmail(r, taken, ok)
      PROVE  Delivery!Next
  BY <1>9, SendIsCall DEF Delivery!Next
<1>10. (\E m \in Messages : EnqueueMessage(m)) => Delivery!Next
  BY <1>2 DEF Delivery!Next
<1>11. QED
  BY <1>1, <1>3, <1>4, <1>5, <1>6, <1>7, <1>8, <1>9, <1>10 DEF Next

\* The outbox and its job keep the contract of each delivery.
THEOREM ImplementsDelivery == Spec => DeliversAsPromised
<1>1. Init => Delivery!Init
  BY DEF Init, Off, Delivery!Init, Recorded, Attempts, Calling
<1>2. IInv /\ [Next]_vars => [Delivery!Next]_(Delivery!vars)
  BY DeliveryStep DEF Delivered, Delivery!vars
<1>3. QED
  BY <1>1, <1>2, Invariant, PTL DEF Spec, DeliversAsPromised, Delivery!Spec

(***************************************************************************)
(* What follows from it.                                                   *)
(***************************************************************************)
\* The variables keep their types: no row is ever claimed more than
\* MaxAttempts times.
THEOREM TypeCorrect == Spec => []TypeOK
<1>1. IInv => TypeOK
  BY DEF IInv
<1>2. QED
  BY <1>1, Invariant, PTL

\* No two runs are ever sending the same message, although the result of a
\* send carries no identity of the claim it belongs to.
THEOREM OneRunEach == Spec => []OneRunPerMessage
<1>1. IInv => OneRunPerMessage
  BY DEF IInv
<1>2. QED
  BY <1>1, Invariant, PTL

\* The provider never gets an email more often than it was attempted.
THEOREM BoundedDeliveries == Spec => []DeliveriesWithinAttempts
<1>1. IInv => DeliveriesWithinAttempts
  BY DEF IInv, AttemptsCount, DeliveriesWithinAttempts
<1>2. QED
  BY <1>1, Invariant, PTL

\* No message is left pending without attempts.
THEOREM NoneLeftBehind == Spec => []PendingCanBeClaimed
<1>1. IInv => PendingCanBeClaimed
  BY DEF IInv
<1>2. QED
  BY <1>1, Invariant, PTL

\* An email known to be delivered is never offered again.
THEOREM ConfirmedStays == Spec => []ConfirmedIsNotRetried
<1>1. IInv => ConfirmedIsNotRetried
  BY DEF IInv, ConfirmedOnce, ConfirmedIsNotRetried
<1>2. QED
  BY <1>1, Invariant, PTL

\* What is recorded as sent is known to be delivered.
THEOREM SentWasDelivered == Spec => []SentIsDelivered
<1>1. IInv => SentIsDelivered
  BY DEF IInv
<1>2. QED
  BY <1>1, Invariant, PTL

\* A message that was sent or has failed never changes again.
THEOREM Settled == Spec => SettledForGood
<1> DEFINE Settles(m) ==
      outbox[m].status \in {"sent", "failed"} => outbox'[m] = outbox[m]
<1>1. ASSUME IInv, [Next]_vars, NEW m \in Messages, outbox[m].status \in {"sent", "failed"}
      PROVE  outbox'[m] = outbox[m]
  <2> USE DEF IInv
  <2>1. CASE outbox' = outbox
    BY <2>1
  <2>2. ASSUME NEW n \in Messages, EnqueueMessage(n) \/ ClaimGetsStale(n)
        PROVE  outbox'[m] = outbox[m]
    BY <1>1, <2>2, Bounds DEF EnqueueMessage, ClaimGetsStale, TypeOK
  <2>3. ASSUME NEW r \in Runs, ScheduledRun(r) \/ RetriedRun(r)
        PROVE  outbox'[m] = outbox[m]
    BY <1>1, <2>3 DEF ScheduledRun, RetriedRun, StartRun, failStaleSending
  <2>4. ASSUME NEW r \in Runs, ClaimRow(r)
        PROVE  outbox'[m] = outbox[m]
    BY <1>1, <2>4 DEF ClaimRow, LocksAreExclusive, TypeOK
  <2>5. ASSUME NEW r \in Runs, RecordResult(r)
        PROVE  outbox'[m] = outbox[m]
    BY <1>1, <2>5 DEF RecordResult, markSent, markFailed, TypeOK
  <2>6. QED
    BY <1>1, <2>1, <2>2, <2>3, <2>4, <2>5
       DEF Next, vars, SelectRow, SendEmail, EndRun, RunFails, DeadlinePasses
<1>2. IInv /\ [Next]_vars => [\A m \in Messages : Settles(m)]_vars
  BY <1>1
<1>3. QED
  BY <1>2, Invariant, PTL DEF Spec, SettledForGood
===============================================================================
